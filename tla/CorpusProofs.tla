---------------------------- MODULE CorpusProofs ----------------------------
(***************************************************************************)
(* Theorems about two parts of a corpus: the runs of its workflows and its *)
(* people.                                                                 *)
(*                                                                         *)
(* First the runs of its processing workflows, for any number of           *)
(* workflows, requests, runs, videos, failures and stops: what a run       *)
(* recorded stays as it was, and while starts come one at a time no        *)
(* workflow runs twice.  The invariant follows a run through those who     *)
(* hold it: the request that starts it, then its task.                     *)
(*                                                                         *)
(* Then its people, for any tracks, likeness, names and corrections: the   *)
(* invariant says what a plan of a matching or of an inference may still   *)
(* rely on when it is written, whatever others did in between.             *)
(***************************************************************************)
EXTENDS WorkflowRuns, CorpusPeople, SequenceTheorems, FiniteSetTheorems,
        NaturalsInduction, WellFoundedInduction, TLAPS

---------------------------------------------------------------------------
(* The runs of workflows.                                                  *)

Open == {"running", "interrupted"}
OneStarter == \A g, h \in Starting : g = h

\* Stages s of version n of workflow w, which there is.
OfVersion(s, w, n) == n \in 1..Len(versions[w]) /\ s \subseteq versions[w][n]

\* A request that starts a run is one that may; what it is about to record are stages of a
\* version there is; the run it holds is open, and active once it was put there; and with
\* one starter the workflow it found free stays so until its run is recorded.
Sound(h, r) ==
  /\ r.starts => h \in Starting /\ OfVersion(r.stages, r.workflow, r.version)
  /\ r.pc \in {"idle", "store"} => ~r.starts
  /\ r.pc \in {"compose", "check", "apply", "insert", "activate", "spawn"} => r.starts
  /\ r.pc \in {"activate", "spawn"} => r.run # 0
  /\ r.run # 0 => /\ r.starts /\ rows[r.run].state \in Open
                  /\ r.pc # "activate" => r.run \in active
  /\ OneStarter /\ r.pc \in {"apply", "insert"} => Free(r.workflow)

RequestsSound == \A h \in Handlers : Sound(h, handler[h])

\* What a run has recorded are stages of its version, and whoever executes it will write
\* the outcome of an open row.
RunsSound ==
  \A i \in RunIds :
    /\ rows[i].state # "absent" => OfVersion(rows[i].stages, rows[i].workflow, rows[i].version)
    /\ task[i].step \in {"videos", "store"} => rows[i].state \in Open
    /\ task[i] # NoTask => rows[i].state # "absent"

IInv == OneRunAtATime /\ RequestsSound /\ RunsSound

---------------------------------------------------------------------------
LEMMA InitSound == Init => IInv
  <1> SUFFICES ASSUME Init PROVE IInv
    OBVIOUS
  <1> USE DEF Init
  <1>0. PICK w \in Workflows : /\ rows = [i \in RunIds |-> Absent(w)]
                               /\ handler = [h \in Handlers |-> Quiet(w)]
    OBVIOUS
  <1>1. Absent(w) \in Row /\ Quiet(w) \in Handler /\ NoTask \in Task
    BY DEF Absent, Quiet, NoTask, Row, Handler, Task, RunStates, Ended
  <1>2. \A v \in Workflows : Saved[v] \in SUBSET Stages
    BY WorkflowAssumption DEF Definable
  <1>3. \A v \in Workflows : <<Saved[v]>> \in Seq(SUBSET Stages) \ {<<>>}
    BY <1>2
  <1>4. WorkflowTypeOK
    <2>1. rows \in [RunIds -> Row] /\ handler \in [Handlers -> Handler] /\ task \in [RunIds -> Task]
      BY <1>0, <1>1
    <2>2. \A i \in RunIds : rows[i].state = "absent" /\ task[i] = NoTask
      BY <1>0 DEF Absent
    <2>3. \A h \in Handlers : handler[h].run = 0
      BY <1>0 DEF Quiet
    <2> QED
      BY <1>3, <2>1, <2>2, <2>3, WorkflowAssumption DEF WorkflowTypeOK
  <1>5. OneRunAtATime /\ RequestsSound /\ RunsSound
    BY <1>0, <1>4 DEF OneRunAtATime, RequestsSound, RunsSound, Sound, Absent, Quiet, NoTask
  <1> QED
    BY <1>5 DEF IInv

---------------------------------------------------------------------------
(* Requests.                                                               *)

\* A request goes on, and nobody else notices.
LEMMA RequestMoves ==
  ASSUME IInv, NEW h \in Handlers, NEW r \in Handler, Becomes(h, r), Sound(h, r),
         r.run \in {0, handler[h].run}, UNCHANGED <<versions, rows, active, task>>,
         disabled' \in [Workflows -> SUBSET Stages], plan' \subseteq Stages,
         up' \in BOOLEAN, faults' \in 0..MaxFaults
  PROVE  IInv'
  <1> USE DEF Becomes
  <1>1. handler' \in [Handlers -> Handler] /\ handler'[h] = r
        /\ \A g \in Handlers \ {h} : handler'[g] = handler[g]
    BY DEF IInv, OneRunAtATime, WorkflowTypeOK
  <1>2. \A g \in Handlers : handler'[g].run \in {0, handler[g].run}
    BY <1>1
  <1>3. WorkflowTypeOK'
    BY <1>1, <1>2 DEF IInv, OneRunAtATime, WorkflowTypeOK
  <1>4. OneRunAtATime' /\ RunsSound'
    BY <1>3 DEF IInv, OneRunAtATime, RunsSound, OfVersion
  <1>5. RequestsSound'
    BY <1>1 DEF IInv, RequestsSound, Sound, OfVersion, Free
  <1> QED
    BY <1>4, <1>5 DEF IInv

\* What holds of any request, as facts about its record.
LEMMA RequestTyped ==
  ASSUME IInv, NEW h \in Handlers
  PROVE  /\ handler[h] \in Handler /\ Sound(h, handler[h])
         /\ disabled \in [Workflows -> SUBSET Stages] /\ plan \subseteq Stages
         /\ up \in BOOLEAN /\ faults \in 0..MaxFaults
         /\ active \subseteq RunIds
  BY DEF IInv, OneRunAtATime, WorkflowTypeOK, RequestsSound

LEMMA LeaveSound ==
  ASSUME IInv, NEW h \in Handlers
  PROVE  LET r == Quiet(handler[h].workflow) IN r \in Handler /\ Sound(h, r) /\ r.run = 0
  BY RequestTyped DEF Quiet, Handler, Sound

LEMMA GoTyped ==
  ASSUME NEW r \in Handler, NEW pc \in {"check", "spawn", "apply", "insert", "read"}
  PROVE  LET s == [r EXCEPT !.pc = pc] IN
           /\ s \in Handler /\ s.pc = pc /\ s.starts = r.starts /\ s.workflow = r.workflow
           /\ s.version = r.version /\ s.stages = r.stages /\ s.run = r.run
  BY DEF Handler

LEMMA CheckOverridesSound ==
  ASSUME IInv, NEW h \in Handlers, NEW w \in Workflows, NEW off \in Overrides,
         CheckOverrides(h, w, off)
  PROVE  IInv'
  <1> DEFINE r == [handler[h] EXCEPT !.pc = "store", !.workflow = w, !.stages = off]
  <1>1. off \subseteq Stages
    BY WorkflowAssumption
  <1>2. /\ r \in Handler /\ r.run = handler[h].run /\ r.pc = "store"
        /\ r.starts = handler[h].starts
    BY <1>1, RequestTyped DEF Handler
  <1>3. Becomes(h, r) /\ handler[h].pc = "idle"
    BY DEF CheckOverrides, At
  <1>4. Sound(h, r)
    BY <1>2, <1>3, RequestTyped DEF Sound
  <1> HIDE DEF r
  <1> QED
    BY <1>2, <1>3, <1>4, RequestTyped, RequestMoves DEF CheckOverrides, tables

LEMMA SetOverridesSound ==
  ASSUME IInv, NEW h \in Handlers, SetOverrides(h) PROVE IInv'
  <1> DEFINE r == [handler[h] EXCEPT !.pc = "read", !.stages = {}]
  <1>1. /\ r \in Handler /\ r.run = handler[h].run /\ r.pc = "read"
        /\ r.starts = handler[h].starts
    BY RequestTyped DEF Handler
  <1>2. Becomes(h, r) /\ handler[h].pc = "store"
    BY DEF SetOverrides, At
  <1>3. Sound(h, r)
    BY <1>1, <1>2, RequestTyped DEF Sound
  <1>4. disabled' \in [Workflows -> SUBSET Stages]
    BY RequestTyped DEF SetOverrides, Handler
  <1> HIDE DEF r
  <1> QED
    BY <1>1, <1>2, <1>3, <1>4, RequestTyped, RequestMoves DEF SetOverrides

LEMMA OpenPageSound ==
  ASSUME IInv, NEW h \in Handlers, NEW w \in Workflows, OpenPage(h, w) PROVE IInv'
  <1> DEFINE r == [handler[h] EXCEPT !.pc = "read", !.workflow = w]
  <1>1. /\ r \in Handler /\ r.run = handler[h].run /\ r.pc = "read"
        /\ r.starts = handler[h].starts
    BY RequestTyped DEF Handler
  <1>2. Becomes(h, r) /\ handler[h].pc = "idle"
    BY DEF OpenPage, At
  <1>3. Sound(h, r)
    BY <1>1, <1>2, RequestTyped DEF Sound
  <1> HIDE DEF r
  <1> QED
    BY <1>1, <1>2, <1>3, RequestTyped, RequestMoves DEF OpenPage, tables

LEMMA ReadActiveSound ==
  ASSUME IInv, NEW h \in Handlers, ReadActive(h) PROVE IInv'
  <1> DEFINE r == [handler[h] EXCEPT !.pc = "mark", !.seen = active]
  <1>1. /\ r \in Handler /\ r.run = handler[h].run /\ r.pc = "mark"
        /\ r.starts = handler[h].starts /\ r.stages = handler[h].stages
        /\ r.workflow = handler[h].workflow /\ r.version = handler[h].version
    BY RequestTyped DEF Handler
  <1>2. Becomes(h, r) /\ handler[h].pc = "read"
    BY DEF ReadActive, At
  <1>3. Sound(h, r)
    BY <1>1, <1>2, RequestTyped DEF Sound
  <1> HIDE DEF r
  <1> QED
    BY <1>1, <1>2, <1>3, RequestTyped, RequestMoves DEF ReadActive, tables

LEMMA BeginStartSound ==
  ASSUME IInv, NEW h \in Handlers, NEW w \in Workflows, BeginStart(h, w) PROVE IInv'
  <1> DEFINE r == [handler[h] EXCEPT !.pc = "compose", !.starts = TRUE, !.workflow = w,
                                     !.version = CurrentVersion(w), !.stages = Latest(w)]
  <1>1. /\ versions[w] \in Seq(SUBSET Stages) /\ versions[w] # <<>>
    BY DEF IInv, OneRunAtATime, WorkflowTypeOK
  <1>2. CurrentVersion(w) \in 1..Len(versions[w]) /\ CurrentVersion(w) \in Nat
    BY <1>1, EmptySeq, LenProperties DEF CurrentVersion
  <1>3. Latest(w) \subseteq Stages /\ Latest(w) = versions[w][CurrentVersion(w)]
    BY <1>1, <1>2, ElementOfSeq DEF Latest, CurrentVersion
  <1>4. /\ r \in Handler /\ r.run = handler[h].run /\ r.pc = "compose" /\ r.starts
        /\ r.workflow = w /\ r.version = CurrentVersion(w) /\ r.stages = Latest(w)
    BY <1>2, <1>3, RequestTyped DEF Handler
  <1>5. Becomes(h, r) /\ handler[h].pc = "idle" /\ h \in Starting
    BY DEF BeginStart, At
  <1>6. Sound(h, r)
    BY <1>2, <1>3, <1>4, <1>5, RequestTyped DEF Sound, OfVersion
  <1> HIDE DEF r
  <1> QED
    BY <1>4, <1>5, <1>6, RequestTyped, RequestMoves DEF BeginStart, tables

LEMMA ComposeStagesSound ==
  ASSUME IInv, NEW h \in Handlers, ComposeStages(h) PROVE IInv'
  <1> DEFINE d == disabled[handler[h].workflow]
             r == [handler[h] EXCEPT !.pc = "read", !.stages = @ \ d]
  <1>1. /\ r \in Handler /\ r.run = handler[h].run /\ r.pc = "read"
        /\ r.starts = handler[h].starts /\ r.stages \subseteq handler[h].stages
        /\ r.workflow = handler[h].workflow /\ r.version = handler[h].version
    BY RequestTyped DEF Handler
  <1>2. Becomes(h, r) /\ handler[h].pc = "compose"
    BY DEF ComposeStages, At
  <1>3. Sound(h, r)
    BY <1>1, <1>2, RequestTyped DEF Sound, OfVersion
  <1> HIDE DEF r
  <1> QED
    BY <1>1, <1>2, <1>3, RequestTyped, RequestMoves DEF ComposeStages, tables

LEMMA CheckFreeSound ==
  ASSUME IInv, NEW h \in Handlers, CheckFree(h) PROVE IInv'
  <1> DEFINE r == [handler[h] EXCEPT !.pc = "apply"]
  <1>1. handler[h].pc = "check" /\ UNCHANGED <<tables, active, task, up, faults>>
    BY DEF CheckFree, At
  <1>2. CASE Leave(h)
    BY <1>1, <1>2, LeaveSound, RequestTyped, RequestMoves DEF Leave, tables
  <1>3. CASE Becomes(h, r) /\ Free(handler[h].workflow)
    <2>1. /\ r \in Handler /\ r.pc = "apply" /\ r.starts = handler[h].starts
          /\ r.workflow = handler[h].workflow /\ r.version = handler[h].version
          /\ r.stages = handler[h].stages /\ r.run = handler[h].run
      BY RequestTyped, GoTyped
    <2>2. Sound(h, r)
      BY <1>1, <1>3, <2>1, RequestTyped DEF Sound
    <2> HIDE DEF r
    <2> QED
      BY <1>1, <1>3, <2>1, <2>2, RequestTyped, RequestMoves DEF tables
  <1> QED
    BY <1>2, <1>3 DEF CheckFree, Go

LEMMA ApplyPlanSound ==
  ASSUME IInv, NEW h \in Handlers, ApplyPlan(h) PROVE IInv'
  <1> DEFINE r == [handler[h] EXCEPT !.pc = "insert"]
  <1>1. /\ r \in Handler /\ r.pc = "insert" /\ r.starts = handler[h].starts
        /\ r.workflow = handler[h].workflow /\ r.version = handler[h].version
        /\ r.stages = handler[h].stages /\ r.run = handler[h].run
    BY RequestTyped, GoTyped
  <1>2. Becomes(h, r) /\ handler[h].pc = "apply"
    BY DEF ApplyPlan, At, Go
  <1>3. Sound(h, r)
    BY <1>1, <1>2, RequestTyped DEF Sound
  <1>4. plan' \subseteq Stages
    BY RequestTyped DEF ApplyPlan, Handler
  <1> HIDE DEF r
  <1> QED
    BY <1>1, <1>2, <1>3, <1>4, RequestTyped, RequestMoves DEF ApplyPlan

LEMMA RequestFailsSound ==
  ASSUME IInv, NEW h \in Handlers, RequestFails(h) PROVE IInv'
  <1>1. faults' \in 0..MaxFaults
    BY RequestTyped, WorkflowAssumption DEF RequestFails
  <1> QED
    BY <1>1, LeaveSound, RequestTyped, RequestMoves DEF RequestFails, Leave, tables

\* The rows that are marked were running, and stay open.
LEMMA MarkInterruptedSound ==
  ASSUME IInv, NEW h \in Handlers, MarkInterrupted(h) PROVE IInv'
  <1> DEFINE pc == IF handler[h].run = 0 THEN "check" ELSE "spawn"
             r == IF ~handler[h].starts THEN Quiet(handler[h].workflow)
                  ELSE [handler[h] EXCEPT !.pc = pc]
  <1>0. pc \in {"check", "spawn"} /\ (pc = "spawn" <=> handler[h].run # 0)
    OBVIOUS
  <1>1. handler[h].pc = "mark" /\ UNCHANGED <<versions, disabled, plan, active, task, up, faults>>
    BY DEF MarkInterrupted, At
  <1>2. Becomes(h, r)
    BY DEF MarkInterrupted, Leave, Go, Becomes
  <1>3. /\ r \in Handler /\ r.run \in {0, handler[h].run} /\ Sound(h, r)
    <2>1. CASE ~handler[h].starts
      BY <2>1, LeaveSound
    <2>2. CASE handler[h].starts
      <3>1. r = [handler[h] EXCEPT !.pc = pc]
        BY <2>2
      <3> HIDE DEF r, pc
      <3>0. handler[h] \in Handler
        BY RequestTyped
      <3>2. /\ r \in Handler /\ r.pc = pc /\ r.starts = handler[h].starts
            /\ r.workflow = handler[h].workflow /\ r.version = handler[h].version
            /\ r.stages = handler[h].stages /\ r.run = handler[h].run
        BY <1>0, <3>0, <3>1 DEF Handler
      <3> QED
        BY <1>0, <1>1, <2>2, <3>2, RequestTyped DEF Sound
    <2> QED
      BY <2>1, <2>2
  <1> HIDE DEF r
  <1>4. /\ rows' \in [RunIds -> Row]
        /\ \A i \in RunIds :
             /\ rows'[i].workflow = rows[i].workflow /\ rows'[i].version = rows[i].version
             /\ rows'[i].stages = rows[i].stages
             /\ rows'[i].state = "absent" <=> rows[i].state = "absent"
             /\ rows'[i].state = "running" => rows[i].state = "running"
             /\ rows[i].state \in Open => rows'[i].state \in Open
    <2> SUFFICES ASSUME NEW i \in RunIds
                 PROVE  /\ rows'[i] \in Row
                        /\ rows'[i].workflow = rows[i].workflow
                        /\ rows'[i].version = rows[i].version
                        /\ rows'[i].stages = rows[i].stages
                        /\ rows'[i].state = "absent" <=> rows[i].state = "absent"
                        /\ rows'[i].state = "running" => rows[i].state = "running"
                        /\ rows[i].state \in Open => rows'[i].state \in Open
      BY DEF MarkInterrupted
    <2>1. rows[i] \in Row
      BY DEF IInv, OneRunAtATime, WorkflowTypeOK
    <2>2. CASE i \in Unowned(handler[h].seen)
      <3>1. rows'[i] = [rows[i] EXCEPT !.state = "interrupted"] /\ rows[i].state = "running"
        BY <2>2 DEF MarkInterrupted, Unowned
      <3> QED
        BY <2>1, <3>1 DEF Row, RunStates, Open
    <2>3. CASE i \notin Unowned(handler[h].seen)
      BY <2>1, <2>3 DEF MarkInterrupted
    <2> QED
      BY <2>2, <2>3
  <1>5. handler' \in [Handlers -> Handler] /\ handler'[h] = r
        /\ \A g \in Handlers \ {h} : handler'[g] = handler[g]
    BY <1>2, <1>3 DEF IInv, OneRunAtATime, WorkflowTypeOK, Becomes
  <1>6. \A g \in Handlers : handler'[g].run \in {0, handler[g].run} /\ Sound(g, handler'[g])
    BY <1>3, <1>5 DEF IInv, RequestsSound
  <1>7. WorkflowTypeOK'
    <2>1. \A g \in Handlers : handler'[g].run # 0 =>
            /\ rows'[handler'[g].run].state # "absent" /\ task'[handler'[g].run] = NoTask
            /\ \A k \in Handlers : handler'[k].run = handler'[g].run => k = g
      <3> SUFFICES ASSUME NEW g \in Handlers, handler'[g].run # 0
                   PROVE  /\ rows'[handler'[g].run].state # "absent"
                          /\ task'[handler'[g].run] = NoTask
                          /\ \A k \in Handlers : handler'[k].run = handler'[g].run => k = g
        OBVIOUS
      <3>1. handler'[g].run = handler[g].run /\ handler[g].run \in RunIds
        BY <1>6, RequestTyped DEF Handler
      <3>2. /\ rows[handler[g].run].state # "absent" /\ task[handler[g].run] = NoTask
            /\ \A k \in Handlers : handler[k].run = handler[g].run => k = g
        BY <3>1 DEF IInv, OneRunAtATime, WorkflowTypeOK
      <3>3. handler[g].run # 0
        BY <3>1
      <3> QED
        BY <1>1, <1>4, <1>6, <3>1, <3>2, <3>3
    <2>2. \A j \in RunIds : rows'[j].state # "absent" =>
            rows'[j].version \in 1..Len(versions'[rows'[j].workflow])
      BY <1>1, <1>4 DEF IInv, OneRunAtATime, WorkflowTypeOK
    <2> QED
      BY <1>1, <1>4, <1>5, <2>1, <2>2 DEF IInv, OneRunAtATime, WorkflowTypeOK
  <1>8. OneRunAtATime' /\ RunsSound'
    BY <1>1, <1>4, <1>7 DEF IInv, OneRunAtATime, RunsSound, OfVersion
  <1>9. \A g \in Handlers : handler'[g] \in Handler
    BY <1>5
  <1>10. RequestsSound'
    BY <1>1, <1>4, <1>6, <1>9 DEF RequestsSound, Sound, OfVersion, Free, Handler
  <1> QED
    BY <1>8, <1>10 DEF IInv

LEMMA InsertRunSound ==
  ASSUME IInv, NEW h \in Handlers, InsertRun(h) PROVE IInv'
  <1>0. PICK i \in RunIds :
          /\ rows[i].state = "absent"
          /\ rows' = [rows EXCEPT ![i] =
               [state |-> "running", workflow |-> handler[h].workflow,
                version |-> handler[h].version, stages |-> Recorded(h), report |-> <<>>]]
          /\ Becomes(h, [handler[h] EXCEPT !.pc = "activate", !.run = i])
    BY DEF InsertRun
  <1> DEFINE r == [handler[h] EXCEPT !.pc = "activate", !.run = i]
  <1>1. handler[h].pc = "insert" /\ UNCHANGED <<versions, disabled, plan, active, task, up, faults>>
    BY DEF InsertRun, At
  <1>2. /\ r \in Handler /\ r.pc = "activate" /\ r.starts = handler[h].starts
        /\ r.workflow = handler[h].workflow /\ r.version = handler[h].version
        /\ r.stages = handler[h].stages /\ r.run = i
    BY RequestTyped DEF Handler
  <1>3. Becomes(h, r)
    BY <1>0
  <1> HIDE DEF r
  <1>4. /\ rows' \in [RunIds -> Row] /\ \A j \in RunIds \ {i} : rows'[j] = rows[j]
        /\ rows'[i].state = "running" /\ rows'[i].workflow = handler[h].workflow
        /\ rows'[i].version = handler[h].version /\ rows'[i].stages = handler[h].stages
    <2>1. handler[h] \in Handler /\ rows \in [RunIds -> Row]
      BY RequestTyped DEF IInv, OneRunAtATime, WorkflowTypeOK
    <2> QED
      BY <1>0, <2>1 DEF Recorded, Row, Handler, RunStates
  <1>5. handler' \in [Handlers -> Handler] /\ handler'[h] = r
        /\ \A g \in Handlers \ {h} : handler'[g] = handler[g]
    BY <1>2, <1>3 DEF IInv, OneRunAtATime, WorkflowTypeOK, Becomes
  <1>6. i # 0 /\ task[i] = NoTask /\ \A g \in Handlers : handler[g].run # i
    <2>1. i # 0
      BY WorkflowAssumption DEF RunIds
    <2> QED
      BY <1>0, <2>1 DEF IInv, OneRunAtATime, WorkflowTypeOK, RunsSound
  <1>7. /\ OfVersion(handler[h].stages, handler[h].workflow, handler[h].version)
        /\ h \in Starting /\ handler[h].starts
        /\ OneStarter => Free(handler[h].workflow)
    BY <1>1, RequestTyped DEF Sound
  <1>8. WorkflowTypeOK'
    <2>1. \A g \in Handlers : handler'[g].run # 0 =>
            /\ rows'[handler'[g].run].state # "absent" /\ task'[handler'[g].run] = NoTask
            /\ \A k \in Handlers : handler'[k].run = handler'[g].run => k = g
      <3> SUFFICES ASSUME NEW g \in Handlers, handler'[g].run # 0
                   PROVE  /\ rows'[handler'[g].run].state # "absent"
                          /\ task'[handler'[g].run] = NoTask
                          /\ \A k \in Handlers : handler'[k].run = handler'[g].run => k = g
        OBVIOUS
      <3>1. CASE g = h
        BY <1>1, <1>2, <1>4, <1>5, <1>6, <3>1
      <3>2. CASE g # h
        <4>1. handler'[g] = handler[g] /\ handler[g].run \in RunIds \ {i}
          BY <1>5, <1>6, <3>2, RequestTyped DEF Handler
        <4>2. /\ rows[handler[g].run].state # "absent" /\ task[handler[g].run] = NoTask
              /\ \A k \in Handlers : handler[k].run = handler[g].run => k = g
          BY <3>2, <4>1 DEF IInv, OneRunAtATime, WorkflowTypeOK
        <4> QED
          BY <1>1, <1>2, <1>4, <1>5, <4>1, <4>2
      <3> QED
        BY <3>1, <3>2
    <2>2. \A j \in RunIds : rows'[j].state # "absent" =>
            rows'[j].version \in 1..Len(versions'[rows'[j].workflow])
      BY <1>1, <1>4, <1>7 DEF IInv, OneRunAtATime, WorkflowTypeOK, OfVersion
    <2> QED
      BY <1>1, <1>4, <1>5, <2>1, <2>2 DEF IInv, OneRunAtATime, WorkflowTypeOK
  <1>9. OneRunAtATime'
    <2> SUFFICES ASSUME OneStarter, NEW j \in RunIds, NEW k \in RunIds,
                        rows'[j].state = "running", rows'[k].state = "running",
                        rows'[j].workflow = rows'[k].workflow
                 PROVE  j = k
      BY <1>8 DEF OneRunAtATime, OneStarter
    <2>1. \A x \in RunIds : rows[x].state = "running" => rows[x].workflow # handler[h].workflow
      BY <1>7 DEF Free
    <2>2. \A x, y \in RunIds :
            rows[x].state = "running" /\ rows[y].state = "running"
            /\ rows[x].workflow = rows[y].workflow => x = y
      BY DEF IInv, OneRunAtATime, OneStarter
    <2> QED
      BY <1>4, <2>1, <2>2
  <1>10. RunsSound'
    BY <1>1, <1>4, <1>6, <1>7 DEF IInv, RunsSound, OfVersion, Open
  <1>11. RequestsSound'
    <2> SUFFICES ASSUME NEW g \in Handlers PROVE Sound(g, handler[g])'
      BY DEF RequestsSound
    <2>1. CASE g = h
      <3>1. handler'[h] = r /\ r.starts /\ r.run # 0 /\ rows'[r.run].state \in Open
        BY <1>2, <1>4, <1>5, <1>6, <1>7 DEF Open
      <3>2. OfVersion(handler[h].stages, handler[h].workflow, handler[h].version)'
        BY <1>1, <1>2, <1>7, <3>1 DEF OfVersion
      <3>3. h \in Starting /\ r.pc = "activate"
        BY <1>2, <1>7
      <3>4. Sound(h, handler[h])'
        BY <3>1, <3>2, <3>3 DEF Sound, OfVersion
      <3> QED
        BY <2>1, <3>4
    <2>2. CASE g # h
      <3>1. handler'[g] = handler[g] /\ Sound(g, handler[g]) /\ handler[g].run \in (RunIds \cup {0}) \ {i}
        BY <1>5, <1>6, <2>2, RequestTyped DEF Handler
      <3>2. OneStarter => handler[g].pc \notin {"apply", "insert"}
        <4> SUFFICES ASSUME OneStarter, handler[g].pc \in {"apply", "insert"} PROVE FALSE
          OBVIOUS
        <4>1. handler[g].starts
          BY <3>1 DEF Sound
        <4>2. g \in Starting
          BY <3>1, <4>1 DEF Sound
        <4> QED
          BY <1>7, <2>2, <4>2 DEF OneStarter
      <3>3. OfVersion(handler[g].stages, handler[g].workflow, handler[g].version)
              => OfVersion(handler[g].stages, handler[g].workflow, handler[g].version)'
        BY <1>1, <3>1 DEF OfVersion
      <3> QED
        BY <1>1, <1>4, <3>1, <3>2, <3>3 DEF Sound
    <2> QED
      BY <2>1, <2>2
  <1> QED
    BY <1>9, <1>10, <1>11 DEF IInv
\* The new run is among the active ones, and its page follows.
LEMMA ActivateSound ==
  ASSUME IInv, NEW h \in Handlers, Activate(h) PROVE IInv'
  <1> DEFINE r == [handler[h] EXCEPT !.pc = "read"]
  <1>1. handler[h].pc = "activate" /\ UNCHANGED <<versions, disabled, plan, rows, task, up, faults>>
    BY DEF Activate, At, tables
  <1>2. /\ r \in Handler /\ r.pc = "read" /\ r.starts = handler[h].starts
        /\ r.workflow = handler[h].workflow /\ r.version = handler[h].version
        /\ r.stages = handler[h].stages /\ r.run = handler[h].run
    BY RequestTyped, GoTyped
  <1>3. handler' \in [Handlers -> Handler] /\ handler'[h] = r
        /\ \A g \in Handlers \ {h} : handler'[g] = handler[g]
    BY <1>2 DEF Activate, Go, Becomes, IInv, OneRunAtATime, WorkflowTypeOK
  <1> HIDE DEF r
  <1>4. r.run # 0 /\ r.run \in RunIds
    BY <1>1, <1>2, RequestTyped DEF Sound, Handler
  <1>5. active' \subseteq RunIds /\ active \subseteq active' /\ r.run \in active'
    BY <1>2, <1>4, RequestTyped DEF Activate
  <1>6. \A g \in Handlers : handler'[g].run = handler[g].run
    BY <1>2, <1>3
  <1>7. WorkflowTypeOK'
    BY <1>1, <1>3, <1>5, <1>6 DEF IInv, OneRunAtATime, WorkflowTypeOK
  <1>8. OneRunAtATime' /\ RunsSound'
    BY <1>1, <1>7 DEF IInv, OneRunAtATime, RunsSound, OfVersion
  <1>9. RequestsSound'
    BY <1>1, <1>2, <1>3, <1>4, <1>5 DEF IInv, RequestsSound, Sound, OfVersion, Free
  <1> QED
    BY <1>8, <1>9 DEF IInv

\* The request hands the run to its task.
LEMMA SpawnSound ==
  ASSUME IInv, NEW h \in Handlers, Spawn(h) PROVE IInv'
  <1> DEFINE r == Quiet(handler[h].workflow)
             i == handler[h].run
  <1>1. handler[h].pc = "spawn" /\ UNCHANGED <<versions, disabled, plan, rows, active, up, faults>>
    BY DEF Spawn, At, tables
  <1>2. r \in Handler /\ Sound(h, r) /\ r.run = 0
    BY LeaveSound
  <1>3. handler' \in [Handlers -> Handler] /\ handler'[h] = r
        /\ \A g \in Handlers \ {h} : handler'[g] = handler[g]
    BY <1>2 DEF Spawn, Leave, Becomes, IInv, OneRunAtATime, WorkflowTypeOK
  <1>4. i \in RunIds /\ i # 0 /\ i \in active /\ rows[i].state \in Open
    BY <1>1, RequestTyped DEF Sound, Handler
  <1>5. \A g \in Handlers \ {h} : handler[g].run # i
    BY <1>4 DEF IInv, OneRunAtATime, WorkflowTypeOK
  <1>6. [NoTask EXCEPT !.step = "videos"] \in Task
    <2>1. <<>> \in Seq(SUBSET Stages)
      OBVIOUS
    <2> QED
      BY <2>1 DEF NoTask, Task, Ended
  <1> HIDE DEF r, i
  <1>7. task' \in [RunIds -> Task] /\ \A j \in RunIds \ {i} : task'[j] = task[j]
    BY <1>6 DEF Spawn, i, IInv, OneRunAtATime, WorkflowTypeOK
  <1>8. WorkflowTypeOK'
    <2>1. \A g \in Handlers : handler'[g].run # 0 =>
            /\ rows'[handler'[g].run].state # "absent" /\ task'[handler'[g].run] = NoTask
            /\ \A k \in Handlers : handler'[k].run = handler'[g].run => k = g
      <3> SUFFICES ASSUME NEW g \in Handlers \ {h}, handler'[g].run # 0
                   PROVE  /\ rows'[handler'[g].run].state # "absent"
                          /\ task'[handler'[g].run] = NoTask
                          /\ \A k \in Handlers : handler'[k].run = handler'[g].run => k = g
        BY <1>2, <1>3
      <3>1. handler'[g] = handler[g] /\ handler[g].run \in RunIds \ {i}
        BY <1>3, <1>5, RequestTyped DEF Handler
      <3>2. /\ rows[handler[g].run].state # "absent" /\ task[handler[g].run] = NoTask
            /\ \A k \in Handlers : handler[k].run = handler[g].run => k = g
        BY <3>1 DEF IInv, OneRunAtATime, WorkflowTypeOK
      <3> QED
        BY <1>1, <1>2, <1>3, <1>7, <3>1, <3>2
    <2>2. \A j \in RunIds : task'[j] # NoTask => j \in active
      BY <1>4, <1>7 DEF IInv, OneRunAtATime, WorkflowTypeOK
    <2> QED
      BY <1>1, <1>3, <1>7, <2>1, <2>2 DEF IInv, OneRunAtATime, WorkflowTypeOK
  <1>9. OneRunAtATime'
    BY <1>1, <1>8 DEF IInv, OneRunAtATime
  <1>10. RunsSound'
    BY <1>1, <1>4, <1>7 DEF IInv, RunsSound, OfVersion, Open
  <1>11. RequestsSound'
    <2>1. \A g \in Handlers : Sound(g, handler'[g])
      BY <1>2, <1>3 DEF IInv, RequestsSound
    <2> QED
      BY <1>1, <2>1 DEF RequestsSound, Sound, OfVersion, Free
  <1> QED
    BY <1>9, <1>10, <1>11 DEF IInv

---------------------------------------------------------------------------
(* Tasks.                                                                  *)

\* A task goes on, and its run stays active.
LEMMA TaskMoves ==
  ASSUME IInv, NEW i \in RunIds, NEW t \in Task, task' = [task EXCEPT ![i] = t],
         task[i] # NoTask, t.step \in {"videos", "store"} => task[i].step \in {"videos", "store"},
         UNCHANGED <<tables, active, handler, up>>, faults' \in 0..MaxFaults
  PROVE  IInv'
  <1> USE DEF tables
  <1>1. task' \in [RunIds -> Task] /\ task'[i] = t /\ \A j \in RunIds \ {i} : task'[j] = task[j]
    BY DEF IInv, OneRunAtATime, WorkflowTypeOK
  <1>2. \A h \in Handlers : handler[h].run # 0 => handler[h].run \in RunIds \ {i}
    BY RequestTyped DEF Handler, IInv, OneRunAtATime, WorkflowTypeOK
  <1>3. WorkflowTypeOK'
    BY <1>1, <1>2 DEF IInv, OneRunAtATime, WorkflowTypeOK
  <1>4. OneRunAtATime' /\ RunsSound'
    BY <1>1, <1>3 DEF IInv, OneRunAtATime, RunsSound, OfVersion
  <1>5. RequestsSound'
    BY DEF IInv, RequestsSound, Sound, OfVersion, Free
  <1> QED
    BY <1>4, <1>5 DEF IInv

LEMMA TaskTyped ==
  ASSUME IInv, NEW i \in RunIds
  PROVE  /\ task[i] \in Task
         /\ task[i].step # "none" => task[i] # NoTask
         /\ plan \in SUBSET Stages /\ faults \in 0..MaxFaults
  BY DEF IInv, OneRunAtATime, WorkflowTypeOK, NoTask

LEMMA RunVideoSound == ASSUME IInv, NEW i \in RunIds, RunVideo(i) PROVE IInv'
  <1> DEFINE t == [task[i] EXCEPT !.report = Append(@, plan)]
  <1>1. Append(task[i].report, plan) \in Seq(SUBSET Stages)
    BY TaskTyped, AppendProperties DEF Task
  <1>2. t \in Task /\ t.step = task[i].step
    BY <1>1, TaskTyped DEF Task
  <1>3. task' = [task EXCEPT ![i] = t] /\ task[i].step = "videos"
    BY DEF RunVideo
  <1> HIDE DEF t
  <1> QED
    BY <1>2, <1>3, TaskTyped, TaskMoves DEF RunVideo

LEMMA VideosDoneSound == ASSUME IInv, NEW i \in RunIds, VideosDone(i) PROVE IInv'
  <1> DEFINE t == [task[i] EXCEPT !.step = "store"]
  <1>1. t \in Task
    BY TaskTyped DEF Task
  <1>2. task' = [task EXCEPT ![i] = t] /\ task[i].step = "videos"
    BY DEF VideosDone
  <1> HIDE DEF t
  <1> QED
    BY <1>1, <1>2, TaskTyped, TaskMoves DEF VideosDone

LEMMA ListingFailsSound == ASSUME IInv, NEW i \in RunIds, ListingFails(i) PROVE IInv'
  <1> DEFINE t == [task[i] EXCEPT !.step = "store", !.verdict = "failed"]
  <1>0. faults' \in 0..MaxFaults
    BY TaskTyped, WorkflowAssumption DEF ListingFails
  <1>1. t \in Task
    BY TaskTyped DEF Task, Ended
  <1>2. task' = [task EXCEPT ![i] = t] /\ task[i].step = "videos"
    BY DEF ListingFails
  <1> HIDE DEF t
  <1> QED
    BY <1>0, <1>1, <1>2, TaskTyped, TaskMoves DEF ListingFails

LEMMA StoreFailsSound == ASSUME IInv, NEW i \in RunIds, StoreFails(i) PROVE IInv'
  <1> DEFINE t == [task[i] EXCEPT !.step = "leave"]
  <1>1. t \in Task /\ t.step = "leave" /\ faults' \in 0..MaxFaults
    BY TaskTyped, WorkflowAssumption DEF Task, StoreFails
  <1>2. task' = [task EXCEPT ![i] = t] /\ task[i].step = "store"
    BY DEF StoreFails
  <1> HIDE DEF t
  <1> QED
    BY <1>1, <1>2, TaskTyped, TaskMoves DEF StoreFails

\* The outcome replaces the open row's state.
LEMMA StoreOutcomeSound == ASSUME IInv, NEW i \in RunIds, StoreOutcome(i) PROVE IInv'
  <1> DEFINE t == [task[i] EXCEPT !.step = "leave"]
             row == [rows[i] EXCEPT !.state = task[i].verdict, !.report = task[i].report]
  <1>1. task[i].step = "store"
        /\ UNCHANGED <<versions, disabled, plan, active, handler, up, faults>>
    BY DEF StoreOutcome
  <1>2. t \in Task /\ t.step = "leave" /\ task' = [task EXCEPT ![i] = t]
    BY TaskTyped DEF Task, StoreOutcome
  <1>3. rows[i] \in Row /\ rows[i].state \in Open
    BY <1>1 DEF IInv, OneRunAtATime, WorkflowTypeOK, RunsSound
  <1>4. /\ row \in Row /\ row.state \in Ended /\ row.workflow = rows[i].workflow
        /\ row.version = rows[i].version /\ row.stages = rows[i].stages
    BY <1>3, TaskTyped DEF Task, Row, RunStates
  <1>5. rows' = [rows EXCEPT ![i] = row]
    BY DEF StoreOutcome
  <1> HIDE DEF t, row
  <1>6. /\ task' \in [RunIds -> Task] /\ task'[i] = t
        /\ \A j \in RunIds \ {i} : task'[j] = task[j]
    BY <1>2 DEF IInv, OneRunAtATime, WorkflowTypeOK
  <1>7. /\ rows' \in [RunIds -> Row] /\ rows'[i] = row
        /\ \A j \in RunIds \ {i} : rows'[j] = rows[j]
    BY <1>4, <1>5 DEF IInv, OneRunAtATime, WorkflowTypeOK
  <1>8. task[i] # NoTask
    BY <1>1, TaskTyped
  <1>9. \A h \in Handlers : handler[h].run # 0 => handler[h].run \in RunIds \ {i}
    BY <1>8, RequestTyped DEF Handler, IInv, OneRunAtATime, WorkflowTypeOK
  <1>10. WorkflowTypeOK'
    <2>1. \A j \in RunIds : rows'[j].state # "absent" =>
            rows'[j].version \in 1..Len(versions'[rows'[j].workflow])
      BY <1>1, <1>3, <1>4, <1>7 DEF IInv, OneRunAtATime, WorkflowTypeOK, Open
    <2> QED
      BY <1>1, <1>6, <1>7, <1>8, <1>9, <2>1 DEF IInv, OneRunAtATime, WorkflowTypeOK
  <1>11. OneRunAtATime'
    BY <1>4, <1>7, <1>10 DEF IInv, OneRunAtATime, Ended
  <1>12. RunsSound'
    BY <1>1, <1>2, <1>3, <1>4, <1>6, <1>7 DEF IInv, RunsSound, OfVersion, Open, Ended
  <1>13. RequestsSound'
    BY <1>1, <1>4, <1>7, <1>9 DEF IInv, RequestsSound, Sound, OfVersion, Free, Ended
  <1> QED
    BY <1>11, <1>12, <1>13 DEF IInv

LEMMA DeactivateSound == ASSUME IInv, NEW i \in RunIds, Deactivate(i) PROVE IInv'
  <1>1. task[i].step = "leave" /\ task[i] # NoTask /\ UNCHANGED <<tables, handler, up, faults>>
    BY TaskTyped DEF Deactivate
  <1>2. NoTask \in Task /\ NoTask.step = "none"
    <2>1. <<>> \in Seq(SUBSET Stages)
      OBVIOUS
    <2> QED
      BY <2>1 DEF NoTask, Task, Ended
  <1>3. /\ task' \in [RunIds -> Task] /\ task'[i] = NoTask
        /\ \A j \in RunIds \ {i} : task'[j] = task[j]
    BY <1>2 DEF Deactivate, IInv, OneRunAtATime, WorkflowTypeOK
  <1>4. active' = active \ {i}
    BY DEF Deactivate
  <1>5. \A h \in Handlers : handler[h].run # 0 => handler[h].run \in RunIds \ {i}
    BY <1>1, RequestTyped DEF Handler, IInv, OneRunAtATime, WorkflowTypeOK
  <1> USE DEF tables
  <1>6. WorkflowTypeOK'
    BY <1>1, <1>3, <1>4, <1>5 DEF IInv, OneRunAtATime, WorkflowTypeOK
  <1>7. OneRunAtATime' /\ RunsSound'
    BY <1>1, <1>2, <1>3, <1>6 DEF IInv, OneRunAtATime, RunsSound, OfVersion
  <1>8. RequestsSound'
    BY <1>1, <1>4, <1>5 DEF IInv, RequestsSound, Sound, OfVersion, Free
  <1> QED
    BY <1>7, <1>8 DEF IInv

---------------------------------------------------------------------------
(* Definitions, the plan, and the server.                                  *)

\* A definition gets versions, and keeps those it had.
LEMMA SaveWorkflowSound ==
  ASSUME IInv, NEW w \in Workflows, NEW d \in Definitions, SaveWorkflow(w, d) PROVE IInv'
  <1>1. UNCHANGED <<disabled, plan, rows, active, handler, task, up, faults>>
    BY DEF SaveWorkflow
  <1>2. CASE versions' = versions
    BY <1>1, <1>2 DEF IInv, OneRunAtATime, WorkflowTypeOK, RequestsSound, RunsSound, Sound,
                      OfVersion, Free
  <1>3. CASE versions' = [versions EXCEPT ![w] = Append(@, d)]
    <2>1. d \in SUBSET Stages /\ versions[w] \in Seq(SUBSET Stages)
      BY WorkflowAssumption DEF Definable, IInv, OneRunAtATime, WorkflowTypeOK
    <2>2. /\ Append(versions[w], d) \in Seq(SUBSET Stages) \ {<<>>}
          /\ Len(Append(versions[w], d)) = Len(versions[w]) + 1
          /\ \A n \in 1..Len(versions[w]) : Append(versions[w], d)[n] = versions[w][n]
      BY <2>1, AppendProperties
    <2>3. /\ versions' \in [Workflows -> Seq(SUBSET Stages) \ {<<>>}]
          /\ \A v \in Workflows \ {w} : versions'[v] = versions[v]
          /\ versions'[w] = Append(versions[w], d)
      BY <1>3, <2>2 DEF IInv, OneRunAtATime, WorkflowTypeOK
    <2>4. Len(versions[w]) \in Nat
      BY <2>1, LenProperties
    <2>5. \A v \in Workflows : \A n \in 1..Len(versions[v]) :
            n \in 1..Len(versions'[v]) /\ versions'[v][n] = versions[v][n]
      <3>1. \A n \in 1..Len(versions[w]) : n \in 1..Len(versions'[w])
        BY <2>2, <2>3, <2>4
      <3>2. \A n \in 1..Len(versions[w]) : versions'[w][n] = versions[w][n]
        BY <2>2, <2>3
      <3> QED
        BY <2>3, <3>1, <3>2
    <2>6. /\ \A h \in Handlers : handler[h].workflow \in Workflows
          /\ \A i \in RunIds : rows[i].workflow \in Workflows
      BY RequestTyped DEF IInv, OneRunAtATime, WorkflowTypeOK, Handler, Row
    <2>7. WorkflowTypeOK'
      BY <1>1, <2>3, <2>5, <2>6 DEF IInv, OneRunAtATime, WorkflowTypeOK
    <2>8. OneRunAtATime' /\ RunsSound'
      BY <1>1, <2>5, <2>6, <2>7 DEF IInv, OneRunAtATime, RunsSound, OfVersion
    <2>9. RequestsSound'
      BY <1>1, <2>5, <2>6 DEF IInv, RequestsSound, Sound, OfVersion, Free
    <2> QED
      BY <2>8, <2>9 DEF IInv
  <1> QED
    BY <1>2, <1>3 DEF SaveWorkflow

\* Neither the plan nor the server's being up concerns a run.
LEMMA ElsewhereSound ==
  ASSUME IInv, UNCHANGED <<versions, disabled, rows, active, handler, task, faults>>,
         plan' \subseteq Stages, up' \in BOOLEAN
  PROVE  IInv'
  BY DEF IInv, OneRunAtATime, WorkflowTypeOK, RequestsSound, RunsSound, Sound, OfVersion, Free

\* A stopped server forgets its requests, its tasks and which runs were active.
LEMMA StopServerSound == ASSUME IInv, StopServer PROVE IInv'
  <1>1. UNCHANGED <<versions, disabled, plan, rows>> /\ active' = {} /\ up' = FALSE
    BY DEF StopServer, tables
  <1>2. faults' \in 0..MaxFaults
    BY WorkflowAssumption DEF StopServer, IInv, OneRunAtATime, WorkflowTypeOK
  <1>3. /\ handler' \in [Handlers -> Handler]
        /\ \A h \in Handlers : Sound(h, handler'[h]) /\ handler'[h].run = 0
    BY LeaveSound DEF StopServer
  <1>4. NoTask \in Task /\ NoTask.step = "none"
    <2>1. <<>> \in Seq(SUBSET Stages)
      OBVIOUS
    <2> QED
      BY <2>1 DEF NoTask, Task, Ended
  <1>5. task' \in [RunIds -> Task] /\ \A i \in RunIds : task'[i] = NoTask
    BY <1>4 DEF StopServer
  <1>6. WorkflowTypeOK'
    BY <1>1, <1>2, <1>3, <1>5 DEF IInv, OneRunAtATime, WorkflowTypeOK
  <1>7. OneRunAtATime' /\ RunsSound'
    BY <1>1, <1>4, <1>5, <1>6 DEF IInv, OneRunAtATime, RunsSound, OfVersion
  <1>8. RequestsSound'
    BY <1>1, <1>3 DEF RequestsSound, Sound, OfVersion, Free
  <1> QED
    BY <1>7, <1>8 DEF IInv

---------------------------------------------------------------------------
LEMMA StepSound == IInv /\ [Next]_vars => IInv'
  <1> SUFFICES ASSUME IInv, [Next]_vars PROVE IInv'
    OBVIOUS
  <1>1. ASSUME NEW w \in Workflows, NEW d \in Definitions, SaveWorkflow(w, d) PROVE IInv'
    BY <1>1, SaveWorkflowSound
  <1>2. ASSUME NEW h \in Handlers, NEW w \in Workflows, NEW off \in Overrides,
               CheckOverrides(h, w, off)
        PROVE  IInv'
    BY <1>2, CheckOverridesSound
  <1>3. ASSUME NEW p \in Edits, EditPlan(p) PROVE IInv'
    BY <1>3, WorkflowAssumption, ElsewhereSound DEF EditPlan, IInv, OneRunAtATime, WorkflowTypeOK
  <1>4. ASSUME NEW h \in Handlers, NEW w \in Workflows, OpenPage(h, w) \/ BeginStart(h, w)
        PROVE  IInv'
    BY <1>4, OpenPageSound, BeginStartSound
  <1>5. ASSUME NEW h \in Handlers, HandlerStep(h) \/ RequestFails(h) PROVE IInv'
    BY <1>5, SetOverridesSound, ComposeStagesSound, ReadActiveSound, MarkInterruptedSound,
       CheckFreeSound, ApplyPlanSound, InsertRunSound, ActivateSound, SpawnSound,
       RequestFailsSound DEF HandlerStep
  <1>6. ASSUME NEW i \in RunIds, TaskStep(i) \/ ListingFails(i) \/ StoreFails(i) PROVE IInv'
    BY <1>6, RunVideoSound, VideosDoneSound, StoreOutcomeSound, DeactivateSound,
       ListingFailsSound, StoreFailsSound DEF TaskStep
  <1>7. ASSUME StartServer PROVE IInv'
    BY <1>7, ElsewhereSound DEF StartServer, tables, IInv, OneRunAtATime, WorkflowTypeOK
  <1>8. ASSUME UNCHANGED vars PROVE IInv'
    BY <1>8, ElsewhereSound DEF vars, tables, IInv, OneRunAtATime, WorkflowTypeOK
  <1> QED
    BY <1>1, <1>2, <1>3, <1>4, <1>5, <1>6, <1>7, <1>8, StopServerSound DEF Next

LEMMA Invariant == Spec => []IInv
  <1> QED
    BY InitSound, StepSound, PTL DEF Spec

(* "This workflow is already running for this corpus" (start_run): while   *)
(* starts come one at a time, at most one run of a workflow is recorded as *)
(* running, whichever pages mark interrupted runs meanwhile, whichever     *)
(* requests fail and however often the server stops.                       *)
THEOREM OneRunHolds == Spec => []OneRunAtATime
  <1>1. IInv => OneRunAtATime
    BY DEF IInv
  <1> QED
    BY <1>1, Invariant, PTL

\* What a step does to the rows: states and outcomes of open rows, and new rows.
LEMMA RowsStep ==
  ASSUME IInv, Next, NEW i \in RunIds, rows[i].state \in Ended PROVE rows'[i] = rows[i]
  <1>1. CASE rows' = rows
    BY <1>1
  <1>2. ASSUME NEW h \in Handlers, MarkInterrupted(h) PROVE rows'[i] = rows[i]
    BY <1>2 DEF MarkInterrupted, Unowned, Ended
  <1>3. ASSUME NEW h \in Handlers, InsertRun(h) PROVE rows'[i] = rows[i]
    BY <1>3 DEF InsertRun, Ended, IInv, OneRunAtATime, WorkflowTypeOK
  <1>4. ASSUME NEW j \in RunIds, StoreOutcome(j) PROVE rows'[i] = rows[i]
    <2>1. j # i
      BY <1>4 DEF StoreOutcome, IInv, RunsSound, Open, Ended
    <2> QED
      BY <1>4, <2>1 DEF StoreOutcome, IInv, OneRunAtATime, WorkflowTypeOK
  <1>5. ASSUME NEW h \in Handlers, HandlerStep(h) PROVE rows'[i] = rows[i]
    BY <1>2, <1>3, <1>5 DEF HandlerStep, SetOverrides, ComposeStages, ReadActive, CheckFree,
       ApplyPlan, Activate, Spawn, tables
  <1>6. ASSUME NEW j \in RunIds, TaskStep(j) PROVE rows'[i] = rows[i]
    BY <1>4, <1>6 DEF TaskStep, RunVideo, VideosDone, Deactivate, tables
  <1> QED
    BY <1>1, <1>5, <1>6 DEF Next, SaveWorkflow, CheckOverrides, EditPlan, OpenPage, BeginStart,
       RequestFails, ListingFails, StoreFails, StopServer, StartServer, tables

(* A run keeps its record (start_run, mark_interrupted): an ended one its  *)
(* outcome and its report, and every one the stages of the version it was  *)
(* started from, although the definition, its overrides and the plan       *)
(* change, pages are read and other runs start.                            *)
THEOREM RecordsStay == Spec => RunsKeepTheirRecord
  <1>1. ASSUME IInv, [Next]_vars
        PROVE  [\A i \in RunIds :
                  /\ rows[i].state \in Ended => rows'[i] = rows[i]
                  /\ rows'[i].state # "absent" =>
                       rows'[i].stages \subseteq versions'[rows'[i].workflow][rows'[i].version]]_vars
    <2>1. \A i \in RunIds : rows'[i].state # "absent" =>
            rows'[i].stages \subseteq versions'[rows'[i].workflow][rows'[i].version]
      BY <1>1, StepSound DEF IInv, RunsSound, OfVersion
    <2>2. CASE UNCHANGED vars
      BY <2>2
    <2>3. CASE Next
      BY <1>1, <2>1, <2>3, RowsStep
    <2> QED
      BY <1>1, <2>2, <2>3
  <1> QED
    BY <1>1, Invariant, PTL DEF Spec, RunsKeepTheirRecord

---------------------------------------------------------------------------
(* The people of a corpus.                                                 *)

\* What a running matching of kind k has planned: tracks nobody has placed, each for one
\* person or group at most, and faces nobody holds; what a researcher keeps apart neither
\* joins the same person nor shares a group.
Spare(t) == decided[t] # "placed" /\ (t \in Faces => \A p \in People : <<p, t>> \notin members)

JoinsSound(k, joins) ==
  \A e \in joins :
    /\ e \in made \X TracksOf(k) /\ Spare(e[2])
    /\ \A d \in joins : d[2] = e[2] => d = e
    /\ \A u \in HeldIn(members \cup joins, e[1], k) : u # e[2] => {e[2], u} \notin apart

GroupsSound(k, groups) ==
  \A g \in groups :
    /\ g # {} /\ g \subseteq TracksOf(k)
    /\ \A h \in groups : h # g => g \cap h = {}
    /\ \A t \in g : Spare(t) /\ \A u \in g : u # t => {t, u} \notin apart

PlanSound(k, draft) ==
  /\ draft \in MatchPlans
  /\ JoinsSound(k, draft.joins) /\ GroupsSound(k, draft.groups)
  /\ \A e \in draft.joins, g \in draft.groups : e[2] \notin g

\* What a running inference has planned: names nobody has a claim to, no subject twice and
\* no name twice; whoever has an inferred name is named afresh.
NamingSound(draft) ==
  /\ draft \in NamePlans /\ draft.seen \subseteq made
  /\ draft.given \subseteq (made \cup Voices) \X Keys /\ draft.given \cap rejected = {}
  /\ \A g, h \in draft.given : g[1] = h[1] \/ g[2] = h[2] => g = h
  /\ \A p \in people : /\ name[p] # None => Protected(p) # (p \in draft.seen)
                       /\ Protected(p) => \A g \in draft.given : g[1] # p /\ g[2] # name[p].key

JobsSound ==
  /\ job = [j \in Kinds \cup {"names"} |-> job[j]]
  /\ \A k \in Kinds : job[k] # None => PlanSound(k, job[k])
  /\ job["names"] # None => NamingSound(job["names"])

FacesSingle == \A f \in Faces : \A p, q \in People : {<<p, f>>, <<q, f>>} \subseteq members => p = q
PlacedHeld == \A v \in Voices : decided[v] = "placed" => \E p \in People : <<p, v>> \in members
ApartSound == \A pair \in apart : pair \subseteq Faces \/ pair \subseteq Voices
LinksSound == refused \cap suggested = {} /\ \A l \in suggested : l[1] # l[2]
NamesAllowed == \A p \in people : name[p] # None => <<p, name[p].key>> \notin rejected

PeopleInv ==
  /\ PeopleTypeOK
  /\ FacesSingle /\ PlacedHeld /\ ApartSound /\ LinksSound /\ NamesAllowed
  /\ JobsSound
---------------------------------------------------------------------------
Lesser == {pair \in Nat \X Nat : pair[1] < pair[2]}

\* Counting: the members of a finite set, each by how many of them have a lesser key.
Below(S, key, x) == {y \in S : key[y] < key[x]}
Numbered(S, key) ==
  /\ \A x \in S : Cardinality(Below(S, key, x)) \in 0..(Cardinality(S) - 1)
  /\ \A x, y \in S : Cardinality(Below(S, key, x)) = Cardinality(Below(S, key, y)) => x = y
  /\ \A n \in 0..(Cardinality(S) - 1) : \E x \in S : Cardinality(Below(S, key, x)) = n

LEMMA Ranked ==
  ASSUME NEW S, IsFiniteSet(S), NEW key \in [S -> Nat],
         \A x, y \in S : key[x] = key[y] => x = y
  PROVE  Numbered(S, key)
  <1> DEFINE N == Cardinality(S)
             rank == [x \in S |-> Cardinality(Below(S, key, x))]
  <1>1. N \in Nat
    BY FS_CardinalityType
  <1>2. ASSUME NEW x \in S
        PROVE  IsFiniteSet(Below(S, key, x)) /\ rank[x] \in 0..(N - 1)
    <2>1. Below(S, key, x) \in SUBSET S /\ x \notin Below(S, key, x)
      BY DEF Below
    <2>2. IsFiniteSet(Below(S, key, x)) /\ Cardinality(Below(S, key, x)) <= N
      BY <2>1, FS_Subset
    <2>3. Cardinality(Below(S, key, x)) # N
      BY <2>1, FS_Subset
    <2>4. Cardinality(Below(S, key, x)) \in Nat
      BY <2>2, FS_CardinalityType
    <2> QED BY <1>1, <2>2, <2>3, <2>4
  <1>3. ASSUME NEW x \in S, NEW y \in S, key[x] < key[y]
        PROVE  rank[x] < rank[y]
    <2>1. Below(S, key, x) \in SUBSET Below(S, key, y) /\ x \in Below(S, key, y) \ Below(S, key, x)
      BY <1>3 DEF Below
    <2>2. IsFiniteSet(Below(S, key, y))
      BY <1>2
    <2>3. Cardinality(Below(S, key, x)) <= Cardinality(Below(S, key, y))
      BY <2>1, <2>2, FS_Subset
    <2>4. Cardinality(Below(S, key, x)) # Cardinality(Below(S, key, y))
      BY <2>1, <2>2, FS_Subset
    <2>5. rank[x] \in 0..(N - 1) /\ rank[y] \in 0..(N - 1)
      BY <1>2
    <2> QED BY <1>1, <2>3, <2>4, <2>5
  <1>4. \A x, y \in S : rank[x] = rank[y] => x = y
    <2> SUFFICES ASSUME NEW x \in S, NEW y \in S, x # y
                 PROVE  rank[x] # rank[y]
      OBVIOUS
    <2>1. rank[x] \in Int /\ rank[y] \in Int
      BY <1>1, <1>2
    <2>2. key[x] < key[y] \/ key[y] < key[x]
      OBVIOUS
    <2>3. rank[x] < rank[y] \/ rank[y] < rank[x]
      BY <1>3, <2>2
    <2> HIDE DEF rank
    <2> QED BY <2>1, <2>3
  <1>5. rank \in [S -> 0..(N - 1)]
    BY <1>2
  <1>6. rank \in Injection(S, 0..(N - 1))
    BY <1>4, <1>5 DEF Injection, IsInjective
  <1>7. IsFiniteSet(0..(N - 1)) /\ Cardinality(0..(N - 1)) = N
    BY <1>1, FS_Interval
  <1>8. rank \in Surjection(S, 0..(N - 1))
    BY <1>6, <1>7, FS_Injection
  <1>9. \A n \in 0..(N - 1) : \E x \in S : rank[x] = n
    BY <1>8 DEF Surjection
  <1> QED BY <1>2, <1>4, <1>9 DEF Numbered

\* Ids and groups by their order.
Place(S, p) == Cardinality({q \in S : q < p})

LEMMA IdsRanked ==
  ASSUME NEW S \in SUBSET Nat, IsFiniteSet(S)
  PROVE  /\ \A p \in S : Place(S, p) \in 0..(Cardinality(S) - 1)
         /\ \A p, o \in S : Place(S, p) = Place(S, o) => p = o
         /\ \A n \in 0..(Cardinality(S) - 1) : \E p \in S : Place(S, p) = n
  <1> DEFINE key == [p \in S |-> p]
  <1>1. key \in [S -> Nat] /\ \A p, o \in S : key[p] = key[o] => p = o
    OBVIOUS
  <1>2. \A p \in S : Cardinality(Below(S, key, p)) = Place(S, p)
    BY DEF Below, Place
  <1> HIDE DEF key
  <1>3. Numbered(S, key)
    BY <1>1, Ranked, Zenon
  <1> QED BY <1>2, <1>3 DEF Numbered

LEMMA HasLeast ==
  ASSUME NEW S \in SUBSET Nat, S # {}
  PROVE  \E m \in S : \A u \in S : m <= u
  <1>1. IsWellFoundedOn(Lesser, Nat)
    BY NatLessThanWellFounded DEF OpToRel, Lesser
  <1>2. PICK m \in S : \A u \in S : <<u, m>> \notin Lesser
    BY <1>1, WFMin
  <1>3. \A u \in S : ~(u < m)
    BY <1>2 DEF Lesser
  <1> QED BY <1>3

LEMMA LeastOf ==
  ASSUME NEW S \in SUBSET Nat, S # {}
  PROVE  Least(S) \in S
  BY HasLeast DEF Least

LEMMA OneByOne ==
  ASSUME NEW n \in Nat, NEW S, 0 \in S, \A i \in 1..n : i - 1 \in S => i \in S
  PROVE  \A i \in 0..n : i \in S
  <1> DEFINE Missing == {i \in 0..n : i \notin S}
  <1>1. SUFFICES ASSUME Missing # {} PROVE FALSE
    OBVIOUS
  <1>2. Missing \in SUBSET Nat
    OBVIOUS
  <1>3. PICK x \in Missing : \A y \in Missing : x <= y
    BY <1>1, <1>2, HasLeast
  <1>4. x \in 1..n /\ x - 1 \notin Missing /\ x - 1 \in 0..n
    BY <1>3
  <1> QED BY <1>3, <1>4

LEMMA FreshOnes ==
  ASSUME TracksAssumption, NEW n \in Nat, n <= Cardinality(People \ made)
  PROVE  /\ Fresh(n) \subseteq People \ made
         /\ IsFiniteSet(Fresh(n)) /\ Cardinality(Fresh(n)) = n
  <1> DEFINE X == People \ made
             rank == [p \in Fresh(n) |-> Place(X, p)]
  <1>1. X \in SUBSET Nat /\ IsFiniteSet(X) /\ Cardinality(X) \in Nat
    BY FS_Subset, FS_CardinalityType DEF TracksAssumption
  <1>2. Fresh(n) = {p \in X : Place(X, p) < n}
    BY DEF Fresh, Place
  <1>3. Fresh(n) \in SUBSET X /\ IsFiniteSet(Fresh(n))
    BY <1>1, <1>2, FS_Subset
  <1> HIDE DEF X
  <1>4. \A p \in X : Place(X, p) \in 0..(Cardinality(X) - 1)
    BY <1>1, IdsRanked, Zenon
  <1>5. rank \in [Fresh(n) -> 0..(n - 1)]
    <2>1. ASSUME NEW p \in Fresh(n)
          PROVE  Place(X, p) \in 0..(n - 1)
      <3>1. Place(X, p) < n /\ p \in X
        BY <1>2
      <3> QED BY <1>1, <1>4, <3>1
    <2> QED BY <2>1
  <1>6. \A p, o \in Fresh(n) : rank[p] = rank[o] => p = o
    <2>1. \A p, o \in X : Place(X, p) = Place(X, o) => p = o
      BY <1>1, IdsRanked, Zenon
    <2> QED BY <1>3, <2>1
  <1>7. ASSUME NEW i \in 0..(n - 1)
        PROVE  \E p \in Fresh(n) : rank[p] = i
    <2>1. i \in 0..(Cardinality(X) - 1)
      BY <1>1 DEF X
    <2>2. PICK p \in X : Place(X, p) = i
      BY <1>1, <2>1, IdsRanked
    <2> QED BY <1>2, <2>2
  <1> HIDE DEF rank
  <1>8. rank \in Bijection(Fresh(n), 0..(n - 1))
    BY <1>5, <1>6, <1>7 DEF Bijection, Injection, Surjection, IsInjective
  <1>9. Cardinality(0..(n - 1)) = Cardinality(Fresh(n))
    BY <1>3, <1>8, FS_Bijection DEF ExistsBijection
  <1>10. Cardinality(0..(n - 1)) = n
    BY FS_Interval
  <1> QED BY <1>3, <1>9, <1>10 DEF X

\* New people: each group of disjoint groups of tracks has one of its own.
LEMMA FoundersFit ==
  ASSUME TracksAssumption, NEW groups, IsFiniteSet(groups),
         \A g \in groups : g # {} /\ g \subseteq Tracks,
         \A g, h \in groups : g # h => g \cap h = {},
         Cardinality(groups) <= Cardinality(People \ made)
  PROVE  /\ \A g \in groups : PersonOf(g, groups) \in People \ made
         /\ \A g, h \in groups : PersonOf(g, groups) = PersonOf(h, groups) => g = h
  <1> DEFINE n == Cardinality(groups)
             F == Fresh(n)
             key == [g \in groups |-> Least(g)]
             Rank(g) == Cardinality({h \in groups : Least(h) < Least(g)})
  <1>1. n \in Nat
    BY FS_CardinalityType
  <1>2. F \subseteq People \ made /\ IsFiniteSet(F) /\ Cardinality(F) = n
    BY <1>1, FreshOnes
  <1>3. F \in SUBSET Nat
    BY <1>2 DEF TracksAssumption
  <1>4. \A g \in groups : Least(g) \in g /\ Least(g) \in Nat
    BY LeastOf DEF TracksAssumption
  <1>5. key \in [groups -> Nat] /\ \A g, h \in groups : key[g] = key[h] => g = h
    BY <1>4
  <1>6. ASSUME NEW g \in groups
        PROVE  Rank(g) = Cardinality(Below(groups, key, g))
    <2>1. Below(groups, key, g) = {h \in groups : Least(h) < Least(g)}
      BY DEF Below
    <2> QED BY <2>1
  <1> HIDE DEF key, F, n
  <1>7. /\ \A g \in groups : Rank(g) \in 0..(n - 1)
        /\ \A g, h \in groups : Rank(g) = Rank(h) => g = h
    <2>1. \A x, y \in groups : key[x] = key[y] => x = y
      BY <1>5
    <2>2. Numbered(groups, key)
      BY <1>5, <2>1, Ranked
    <2> HIDE DEF Rank
    <2> QED BY <1>6, <2>2 DEF Numbered, n
  <1>8. \A i \in 0..(n - 1) : \E p \in F : Place(F, p) = i
    BY <1>2, <1>3, IdsRanked
  <1> HIDE DEF Rank
  <1>9. \A g \in groups : PersonOf(g, groups) = CHOOSE p \in F : Place(F, p) = Rank(g)
    BY DEF PersonOf, F, n, Place, Rank
  <1>10. \A g \in groups : PersonOf(g, groups) \in F /\ Place(F, PersonOf(g, groups)) = Rank(g)
    BY <1>7, <1>8, <1>9
  <1> QED BY <1>2, <1>7, <1>10

---------------------------------------------------------------------------
\* A function by steps over the numbers up to n, and what its steps keep true.
Steps(n, T, base, next, f) ==
  f \in [0..n -> T] /\ f = [m \in 0..n |-> IF m = 0 THEN base ELSE next[<<f[m - 1], m>>]]

LEMMA StepsBuild ==
  ASSUME NEW n \in Nat, NEW T, NEW base \in T, NEW next \in [T \X (1..n) -> T]
  PROVE  \E f : Steps(n, T, base, next, f)
  <1> DEFINE Builds(i, f) ==
               /\ f \in [0..i -> T] /\ f[0] = base
               /\ \A m \in 1..i : f[m] = next[<<f[m - 1], m>>]
             S == {i \in 0..n : \E f : Builds(i, f)}
  <1>1. 0 \in S
    <2> DEFINE f == [m \in 0..0 |-> base]
    <2>1. Builds(0, f)
      OBVIOUS
    <2> HIDE DEF f, Builds
    <2> QED BY <2>1
  <1>2. ASSUME NEW i \in 1..n, i - 1 \in S
        PROVE  i \in S
    <2>1. PICK f : Builds(i - 1, f)
      BY <1>2
    <2> DEFINE g == [m \in 0..i |-> IF m = i THEN next[<<f[i - 1], i>>] ELSE f[m]]
    <2>2. f[i - 1] \in T /\ next[<<f[i - 1], i>>] \in T
      BY <2>1
    <2>3. \A m \in 0..i : g[m] \in T
      BY <2>1, <2>2
    <2>4. g \in [0..i -> T] /\ g[0] = base
      BY <2>1, <2>3
    <2>5. \A m \in 1..i : g[m] = next[<<g[m - 1], m>>]
      <3> SUFFICES ASSUME NEW m \in 1..i
                   PROVE  g[m] = next[<<g[m - 1], m>>]
        OBVIOUS
      <3>1. m - 1 \in 0..i /\ m - 1 # i /\ g[m - 1] = f[m - 1]
        OBVIOUS
      <3>2. CASE m = i
        BY <3>1, <3>2
      <3>3. CASE m # i
        <4>1. m \in 1..(i - 1) /\ g[m] = f[m]
          BY <3>3
        <4> QED BY <2>1, <3>1, <4>1
      <3> QED BY <3>2, <3>3
    <2> HIDE DEF g
    <2>6. Builds(i, g)
      BY <2>4, <2>5
    <2> HIDE DEF Builds
    <2> QED BY <2>6
  <1> HIDE DEF S
  <1>3. n \in S
    BY <1>1, <1>2, OneByOne
  <1>4. PICK f : Builds(n, f)
    BY <1>3 DEF S
  <1>5. f = [m \in 0..n |-> IF m = 0 THEN base ELSE next[<<f[m - 1], m>>]]
    <2>1. \A m \in 0..n : f[m] = IF m = 0 THEN base ELSE next[<<f[m - 1], m>>]
      BY <1>4
    <2> QED BY <1>4, <2>1
  <1> QED BY <1>4, <1>5 DEF Steps

LEMMA LastTrack ==
  ASSUME TracksAssumption
  PROVE  Last \in Nat /\ \A t \in Tracks : t <= Last
  <1> DEFINE S == Tracks \cup {0}
             key == [t \in S |-> t]
  <1>1. S \in SUBSET Nat /\ IsFiniteSet(S) /\ Cardinality(S) \in Nat /\ S # {}
    BY FS_AddElement, FS_CardinalityType DEF TracksAssumption
  <1>2. Cardinality(S) - 1 \in 0..(Cardinality(S) - 1)
    BY <1>1, FS_EmptySet
  <1> HIDE DEF S
  <1>3. PICK m \in S : Place(S, m) = Cardinality(S) - 1
    BY <1>1, <1>2, IdsRanked
  <1>4. \A t \in S : t <= m
    <2> SUFFICES ASSUME NEW t \in S, m < t
                 PROVE  FALSE
      BY <1>1
    <2>0. m \in Nat /\ t \in Nat /\ \A q \in S : q \in Nat
      BY <1>1
    <2>1. \A q \in S : q < m => q < t
      BY <2>0
    <2>9. m \in {q \in S : q < t} /\ m \notin {q \in S : q < m}
      BY <2>0
    <2>2. IsFiniteSet({q \in S : q < t})
      BY <1>1, FS_Subset
    <2>3. Place(S, m) <= Place(S, t) /\ Place(S, m) # Place(S, t)
      BY <2>1, <2>9, <2>2, FS_Subset DEF Place
    <2>4. Place(S, t) \in 0..(Cardinality(S) - 1)
      BY <1>1, IdsRanked
    <2> QED BY <1>1, <1>3, <2>3, <2>4
  <1>5. \A t \in Tracks : t <= m
    BY <1>4 DEF S
  <1>6. Last \in Tracks \cup {0} /\ \A t \in Tracks : t <= Last
    BY <1>3, <1>5 DEF Last, S
  <1> QED BY <1>6 DEF TracksAssumption

LEMMA OnlyOne ==
  ASSUME NEW S, IsFiniteSet(S), S # {}, ~(Cardinality(S) > 1)
  PROVE  \E x : S = {x}
  <1>1. Cardinality(S) \in Nat /\ Cardinality(S) # 0
    BY FS_CardinalityType, FS_EmptySet
  <1>2. Cardinality(S) = 1
    BY <1>1
  <1> QED BY <1>2, FS_Singleton

---------------------------------------------------------------------------
\* What the tracks planned so far have joined: members are at least m, and what is more of
\* them are eligible tracks up to n, each with one person and like its other tracks.
Grown(k, m, n) ==
  /\ members \subseteq m
  /\ \A e \in m \ members :
       /\ e \in people \X Eligible(k) /\ e[2] <= n
       /\ \A d \in m \ members : d[2] = e[2] => d = e
       /\ \A u \in HeldIn(m, e[1], k) : u # e[2] => {e[2], u} \notin apart

LEMMA EligibleTracks ==
  ASSUME TracksAssumption, NEW k \in Kinds
  PROVE  /\ Eligible(k) \subseteq TracksOf(k) /\ TracksOf(k) \subseteq Tracks
         /\ Eligible(k) \subseteq Nat /\ TracksOf(k) \subseteq Nat
         /\ \A t \in Eligible(k) : decided[t] # "placed" /\ \A p \in people : <<p, t>> \notin members
  BY DEF Eligible, TracksOf, Kinds, Tracks, TracksAssumption, Holders

LEMMA GrowsOn ==
  ASSUME TracksAssumption, NEW k \in Kinds, NEW m, NEW n \in Nat, n # 0, Grown(k, m, n - 1)
  PROVE  Grown(k, m, n)
  BY EligibleTracks DEF Grown

LEMMA GrowsByOne ==
  ASSUME TracksAssumption, NEW k \in Kinds, NEW m, NEW n \in Eligible(k), n # 0,
         Grown(k, m, n - 1), NEW p \in people, \A u \in HeldIn(m, p, k) : {n, u} \notin apart
  PROVE  Grown(k, m \cup {<<p, n>>}, n)
  <1> DEFINE more == m \cup {<<p, n>>}
  <1>1. n \in Nat /\ n \in TracksOf(k) /\ <<p, n>> \notin members
    BY EligibleTracks
  <1>2. \A e \in m \ members : e[2] \in Nat /\ e[2] <= n - 1
    BY EligibleTracks DEF Grown
  <1>3. <<p, n>> \notin m
    BY <1>1, <1>2
  <1>4. more \ members = (m \ members) \cup {<<p, n>>}
    BY <1>1
  <1>5. \A q : HeldIn(more, q, k) = IF q = p THEN HeldIn(m, q, k) \cup {n} ELSE HeldIn(m, q, k)
    BY <1>1 DEF HeldIn
  <1>6. ASSUME NEW e \in more \ members
        PROVE  /\ e \in people \X Eligible(k) /\ e[2] <= n
               /\ \A d \in more \ members : d[2] = e[2] => d = e
               /\ \A u \in HeldIn(more, e[1], k) : u # e[2] => {e[2], u} \notin apart
    <2>1. CASE e = <<p, n>>
      <3>1. \A d \in m \ members : d[2] # n
        BY <1>1, <1>2
      <3>2. \A d \in more \ members : d[2] = e[2] => d = e
        BY <1>4, <2>1, <3>1
      <3>3. \A u \in HeldIn(more, p, k) : u # n => {n, u} \notin apart
        BY <1>5
      <3>4. e[1] = p /\ e[2] = n
        BY <2>1
      <3>5. \A u \in HeldIn(more, e[1], k) : u # e[2] => {e[2], u} \notin apart
        BY <3>3, <3>4
      <3>6. e \in people \X Eligible(k) /\ e[2] <= n
        BY <1>1, <2>1, <3>4
      <3> QED BY <3>2, <3>5, <3>6
    <2>2. CASE e \in m \ members
      <3>1. /\ e \in people \X Eligible(k) /\ e[2] <= n - 1 /\ e[2] \in Nat
            /\ \A d \in m \ members : d[2] = e[2] => d = e
            /\ \A u \in HeldIn(m, e[1], k) : u # e[2] => {e[2], u} \notin apart
        BY <1>2, <2>2 DEF Grown
      <3>2. \A d \in more \ members : d[2] = e[2] => d = e
        BY <1>1, <1>4, <3>1
      <3>3. e[1] = p => {e[2], n} \notin apart
        <4>1. ASSUME e[1] = p PROVE e[2] \in HeldIn(m, p, k)
          BY <2>2, <3>1, <4>1, EligibleTracks DEF HeldIn
        <4>2. {n, e[2]} = {e[2], n}
          OBVIOUS
        <4> QED BY <4>1, <4>2
      <3>4. \A u \in HeldIn(more, e[1], k) : u # e[2] => {e[2], u} \notin apart
        BY <1>5, <3>1, <3>3
      <3>5. e[2] <= n
        BY <1>1, <3>1
      <3> QED BY <3>1, <3>2, <3>4, <3>5
    <2> QED BY <1>4, <2>1, <2>2
  <1>7. members \subseteq more
    BY DEF Grown
  <1> HIDE DEF more
  <1>8. Grown(k, more, n)
    BY <1>6, <1>7 DEF Grown
  <1> QED BY <1>8 DEF more

---------------------------------------------------------------------------
\* Face matching's plan.
FaceShape == [members : SUBSET (People \X Tracks), pending : SUBSET Tracks]
FaceStep(before, n) ==
  LET fits == FacePeople(n, before.members) IN
    IF n \notin Eligible("face") THEN before
    ELSE IF fits = {} THEN [before EXCEPT !.pending = @ \cup {n}]
    ELSE IF Cardinality(fits) > 1 THEN before
    ELSE [before EXCEPT !.members = @ \cup (fits \X {n})]
FaceBase == [members |-> members, pending |-> {}]

LEMMA FacePlanned ==
  ASSUME TracksAssumption, PeopleTypeOK
  PROVE  FacePlan = [n \in 0..Last |-> IF n = 0 THEN FaceBase ELSE FaceStep(FacePlan[n - 1], n)]
  <1> DEFINE next == [x \in FaceShape \X (1..Last) |-> FaceStep(x[1], x[2])]
             Plans(f) == f = [n \in 0..Last |-> IF n = 0 THEN FaceBase ELSE FaceStep(f[n - 1], n)]
  <1>1. Last \in Nat
    BY LastTrack
  <1>2. FaceBase \in FaceShape
    BY DEF FaceBase, FaceShape, PeopleTypeOK
  <1>3. ASSUME NEW b \in FaceShape, NEW n \in 1..Last
        PROVE  FaceStep(b, n) \in FaceShape
    <2>1. n \in Eligible("face") => n \in Tracks
      BY EligibleTracks DEF Kinds
    <2>2. FacePeople(n, b.members) \in SUBSET People
      BY DEF FacePeople, PeopleTypeOK
    <2> QED BY <2>1, <2>2 DEF FaceStep, FaceShape
  <1>4. next \in [FaceShape \X (1..Last) -> FaceShape]
    BY <1>3
  <1> HIDE DEF next
  <1>5. PICK f : Steps(Last, FaceShape, FaceBase, next, f)
    BY <1>1, <1>2, <1>4, StepsBuild
  <1>6. \A m \in 0..Last : m # 0 => next[<<f[m - 1], m>>] = FaceStep(f[m - 1], m)
    <2> SUFFICES ASSUME NEW m \in 0..Last, m # 0
                 PROVE  next[<<f[m - 1], m>>] = FaceStep(f[m - 1], m)
      OBVIOUS
    <2>1. m - 1 \in 0..Last /\ m \in 1..Last
      BY <1>1
    <2>2. f[m - 1] \in FaceShape
      BY <1>5, <2>1 DEF Steps
    <2> QED BY <2>1, <2>2 DEF next
  <1>7. Plans(f)
    <2>1. [m \in 0..Last |-> IF m = 0 THEN FaceBase ELSE next[<<f[m - 1], m>>]]
            = [m \in 0..Last |-> IF m = 0 THEN FaceBase ELSE FaceStep(f[m - 1], m)]
      BY <1>6
    <2> QED BY <1>5, <2>1 DEF Steps
  <1>8. FacePlan = CHOOSE g : Plans(g)
    BY DEF FacePlan, FaceBase, FaceStep
  <1> QED BY <1>7, <1>8

FacesUp(draft, n) ==
  /\ draft \in FaceShape /\ Grown("face", draft.members, n)
  /\ draft.pending \subseteq Eligible("face")
  /\ \A t \in draft.pending : t <= n /\ \A e \in draft.members \ members : e[2] # t

LEMMA FaceStepSound ==
  ASSUME TracksAssumption, PeopleTypeOK, NEW n \in Nat, n # 0, NEW b, FacesUp(b, n - 1)
  PROVE  FacesUp(FaceStep(b, n), n)
  <1> DEFINE fits == FacePeople(n, b.members)
             joined == [b EXCEPT !.members = @ \cup (fits \X {n})]
             pending == [b EXCEPT !.pending = @ \cup {n}]
  <1>1. "face" \in Kinds /\ Eligible("face") \subseteq Nat /\ Eligible("face") \subseteq Tracks
    BY EligibleTracks DEF Kinds
  <1>2. b \in FaceShape /\ Grown("face", b.members, n) /\ people \subseteq People
    BY <1>1, GrowsOn DEF FacesUp, PeopleTypeOK
  <1>3. /\ \A t \in b.pending : t \in Nat /\ t <= n - 1
        /\ \A e \in b.members \ members : e[2] \in Nat /\ e[2] <= n - 1
    BY <1>1 DEF FacesUp, Grown
  <1>4. FacesUp(b, n)
    BY <1>2, <1>3 DEF FacesUp
  <1>5. CASE n \in Eligible("face") /\ fits = {}
    <2>1. pending.members = b.members /\ pending.pending = b.pending \cup {n} /\ pending \in FaceShape
      BY <1>1, <1>2, <1>5 DEF FaceShape
    <2>2. \A t \in pending.pending : t <= n /\ \A e \in b.members \ members : e[2] # t
      BY <1>3, <1>4, <2>1 DEF FacesUp
    <2>3. pending.pending \subseteq Eligible("face")
      BY <1>4, <1>5, <2>1 DEF FacesUp
    <2> HIDE DEF pending
    <2>4. FacesUp(pending, n)
      BY <1>2, <2>1, <2>2, <2>3 DEF FacesUp
    <2>5. FaceStep(b, n) = pending
      BY <1>5 DEF FaceStep, pending
    <2> QED BY <2>4, <2>5
  <1>6. CASE n \in Eligible("face") /\ fits # {} /\ ~(Cardinality(fits) > 1)
    <2>1. IsFiniteSet(fits) /\ fits \subseteq people
      <3>1. fits \in SUBSET People /\ fits \subseteq people
        BY <1>2 DEF FacePeople
      <3> QED BY <3>1, FS_Subset DEF TracksAssumption
    <2>2. PICK p : fits = {p}
      BY <1>6, <2>1, OnlyOne
    <2>3. p \in people /\ \A u \in HeldIn(b.members, p, "face") : {n, u} \notin apart
      <3>1. p \in FacePeople(n, b.members)
        BY <2>2
      <3> QED BY <3>1 DEF FacePeople, Similar
    <2>4. fits \X {n} = {<<p, n>>}
      BY <2>2
    <2>5. /\ joined.members = b.members \cup {<<p, n>>} /\ joined.pending = b.pending
          /\ joined \in FaceShape
      BY <1>1, <1>2, <1>6, <2>3, <2>4 DEF FaceShape
    <2>6. Grown("face", b.members, n - 1)
      BY DEF FacesUp
    <2>7. Grown("face", joined.members, n)
      BY <1>1, <1>6, <2>3, <2>5, <2>6, GrowsByOne
    <2>8. \A t \in b.pending : t <= n /\ \A e \in joined.members \ members : e[2] # t
      BY <1>3, <1>4, <2>5 DEF FacesUp
    <2> HIDE DEF joined
    <2>9. FacesUp(joined, n)
      BY <1>4, <2>5, <2>7, <2>8 DEF FacesUp
    <2>10. FaceStep(b, n) = joined
      BY <1>6 DEF FaceStep, joined
    <2> QED BY <2>9, <2>10
  <1>7. CASE ~(n \in Eligible("face") /\ (fits = {} \/ ~(Cardinality(fits) > 1)))
    BY <1>4, <1>7 DEF FaceStep
  <1> QED BY <1>5, <1>6, <1>7

LEMMA FacesPlanned ==
  ASSUME TracksAssumption, PeopleTypeOK
  PROVE  FacesUp(FacePlan[Last], Last)
  <1> DEFINE S == {n \in 0..Last : FacesUp(FacePlan[n], n)}
  <1>1. Last \in Nat
    BY LastTrack
  <1>2. FacePlan[0] = FaceBase /\ \A n \in 1..Last : FacePlan[n] = FaceStep(FacePlan[n - 1], n)
    <2>1. \A n \in 0..Last :
            FacePlan[n] = IF n = 0 THEN FaceBase ELSE FaceStep(FacePlan[n - 1], n)
      BY FacePlanned, Zenon
    <2> QED BY <1>1, <2>1
  <1>3. 0 \in S
    <2>1. FacesUp(FaceBase, 0)
      BY DEF FacesUp, FaceBase, FaceShape, Grown, PeopleTypeOK
    <2> QED BY <1>1, <1>2, <2>1
  <1>4. \A n \in 1..Last : n - 1 \in S => n \in S
    <2> SUFFICES ASSUME NEW n \in 1..Last, n - 1 \in S
                 PROVE  n \in S
      OBVIOUS
    <2>1. FacesUp(FacePlan[n - 1], n - 1)
      OBVIOUS
    <2>2. FacesUp(FaceStep(FacePlan[n - 1], n), n)
      BY <2>1, FaceStepSound
    <2> QED BY <1>2, <2>2
  <1> HIDE DEF S
  <1>5. Last \in S
    BY <1>1, <1>3, <1>4, OneByOne
  <1> QED BY <1>5 DEF S

\* What keeps a plan sound besides its groups.
LEMMA JoinsAre ==
  ASSUME TracksAssumption, PeopleTypeOK, NEW k \in Kinds, NEW m, NEW n, Grown(k, m, n)
  PROVE  JoinsSound(k, m \ members) /\ m \ members \subseteq People \X Tracks
  <1>1. members \cup (m \ members) = m
    BY DEF Grown
  <1>2. people \subseteq made /\ made \subseteq People /\ members \subseteq people \X Tracks
    BY DEF PeopleTypeOK
  <1>3. \A e \in m \ members : e \in made \X TracksOf(k) /\ e \in People \X Tracks /\ Spare(e[2])
    BY <1>2, EligibleTracks DEF Grown, Spare
  <1> QED BY <1>1, <1>3 DEF Grown, JoinsSound

LEMMA FaceGroupsSound ==
  ASSUME TracksAssumption, PeopleTypeOK, NEW draft, draft.pending \subseteq Eligible("face")
  PROVE  /\ GroupsSound("face", FaceGroups(draft))
         /\ \A g \in FaceGroups(draft) : g \subseteq draft.pending
  <1> DEFINE Near(t) == {u \in draft.pending : u = t \/ Similar(t, u)}
             free == {t \in draft.pending : FacePeople(t, draft.members) = {}}
             Cluster(t) == {u \in free : Near(u) = Near(t)}
  <1>1. FaceGroups(draft) \subseteq {Cluster(t) : t \in free}
    BY DEF FaceGroups
  <1>2. free \subseteq draft.pending
    OBVIOUS
  <1>3. \A t \in draft.pending : t \in Near(t)
    OBVIOUS
  <1>4. \A t, u \in draft.pending : u \in Near(t) /\ u # t => {t, u} \notin apart
    BY DEF Similar
  <1> HIDE DEF Near, free
  <1>5. ASSUME NEW g \in FaceGroups(draft)
        PROVE  \E t \in free : g = Cluster(t)
    BY <1>1
  <1>6. ASSUME NEW g \in FaceGroups(draft), NEW h \in FaceGroups(draft), g \cap h # {}
        PROVE  g = h
    <2>1. PICK t \in free, u \in free : g = Cluster(t) /\ h = Cluster(u)
      BY <1>5
    <2>2. PICK w \in g : w \in h
      BY <1>6
    <2>3. Near(w) = Near(t) /\ Near(w) = Near(u)
      BY <2>1, <2>2
    <2> QED BY <2>1, <2>3
  <1>7. ASSUME NEW g \in FaceGroups(draft)
        PROVE  /\ g # {} /\ g \subseteq draft.pending
               /\ \A t \in g : \A u \in g : u # t => {t, u} \notin apart
    <2>1. PICK c \in free : g = Cluster(c)
      BY <1>5
    <2>2. c \in g /\ g \subseteq draft.pending
      BY <1>2, <2>1
    <2>3. ASSUME NEW t \in g, NEW u \in g, u # t
          PROVE  {t, u} \notin apart
      <3>1. Near(t) = Near(u)
        BY <2>1
      <3>2. u \in Near(t)
        BY <1>3, <2>2, <3>1
      <3> QED BY <1>4, <2>2, <2>3, <3>2
    <2> QED BY <2>2, <2>3
  <1>8. \A t \in draft.pending : Spare(t)
    BY EligibleTracks DEF Spare, Kinds, PeopleTypeOK
  <1>9. draft.pending \subseteq TracksOf("face")
    BY EligibleTracks DEF Kinds
  <1> HIDE DEF Cluster
  <1> QED BY <1>6, <1>7, <1>8, <1>9 DEF GroupsSound

LEMMA FacePlanSound ==
  ASSUME TracksAssumption, PeopleTypeOK
  PROVE  PlanSound("face", PlanOf("face"))
  <1> DEFINE m == FacePlan[Last].members
  <1>1. FacesUp(FacePlan[Last], Last) /\ "face" \in Kinds
    BY FacesPlanned DEF Kinds
  <1>2. FacePlan[Last].pending \subseteq Eligible("face") /\ Grown("face", m, Last)
    BY <1>1 DEF FacesUp
  <1>3. JoinsSound("face", m \ members) /\ m \ members \subseteq People \X Tracks
    BY <1>1, <1>2, JoinsAre
  <1>4. /\ GroupsSound("face", FaceGroups(FacePlan[Last]))
        /\ \A g \in FaceGroups(FacePlan[Last]) : g \subseteq FacePlan[Last].pending
    BY <1>2, FaceGroupsSound
  <1>5. \A e \in m \ members, g \in FaceGroups(FacePlan[Last]) : e[2] \notin g
    BY <1>1, <1>4 DEF FacesUp, m
  <1>6. FaceGroups(FacePlan[Last]) \subseteq SUBSET Tracks
    BY <1>4, EligibleTracks, <1>1 DEF GroupsSound
  <1>7. PlanOf("face") = [joins |-> m \ members, groups |-> FaceGroups(FacePlan[Last])]
    BY DEF PlanOf
  <1> HIDE DEF m
  <1>8. PlanOf("face") \in MatchPlans
    BY <1>3, <1>6, <1>7 DEF MatchPlans
  <1>9. PlanOf("face").joins = m \ members /\ PlanOf("face").groups = FaceGroups(FacePlan[Last])
    BY <1>7
  <1> QED BY <1>3, <1>4, <1>5, <1>8, <1>9, Zenon DEF PlanSound

---------------------------------------------------------------------------
\* Voice matching's plan.
VoiceShape == [members : SUBSET (People \X Tracks), groups : SUBSET SUBSET Tracks]
FitPeople(n, b) == {p \in people : VoiceFits(n, HeldIn(b.members, p, "voice"))}
FitGroups(n, b) == {g \in b.groups : VoiceFits(n, g)}
VoiceStep(before, n) ==
  LET fits == {p \in people : VoiceFits(n, HeldIn(before.members, p, "voice"))}
      groups == {g \in before.groups : VoiceFits(n, g)}
  IN IF n \notin Eligible("voice") THEN before
     ELSE CASE fits = {} /\ groups = {} -> [before EXCEPT !.groups = @ \cup {{n}}]
            [] Cardinality(fits) + Cardinality(groups) > 1 -> before
            [] groups = {} /\ Cardinality(fits) = 1 ->
                 [before EXCEPT !.members = @ \cup (fits \X {n})]
            [] fits = {} /\ Cardinality(groups) = 1 ->
                 [before EXCEPT !.groups = (@ \ groups) \cup {g \cup {n} : g \in groups}]
VoiceBase == [members |-> members, groups |-> {}]

\* A voice that no group took up changes nothing, founds a group, joins somebody or a group.
VoiceMoves(b, n, after) ==
  \/ after = b
  \/ n \in Eligible("voice") /\ after = [b EXCEPT !.groups = @ \cup {{n}}]
  \/ /\ n \in Eligible("voice")
     /\ \E p \in FitPeople(n, b) : after = [b EXCEPT !.members = @ \cup {<<p, n>>}]
  \/ /\ n \in Eligible("voice")
     /\ \E g \in FitGroups(n, b) : after = [b EXCEPT !.groups = (@ \ {g}) \cup {g \cup {n}}]

LEMMA VoiceStepIs ==
  ASSUME TracksAssumption, PeopleTypeOK, NEW n, NEW b \in VoiceShape
  PROVE  VoiceMoves(b, n, VoiceStep(b, n))
  <1> DEFINE fits == FitPeople(n, b)
             groups == FitGroups(n, b)
  <1>1. VoiceStep(b, n) =
          IF n \notin Eligible("voice") THEN b
          ELSE CASE fits = {} /\ groups = {} -> [b EXCEPT !.groups = @ \cup {{n}}]
                 [] Cardinality(fits) + Cardinality(groups) > 1 -> b
                 [] groups = {} /\ Cardinality(fits) = 1 ->
                      [b EXCEPT !.members = @ \cup (fits \X {n})]
                 [] fits = {} /\ Cardinality(groups) = 1 ->
                      [b EXCEPT !.groups = (@ \ groups) \cup {g \cup {n} : g \in groups}]
    BY DEF VoiceStep, FitPeople, FitGroups
  <1>2. IsFiniteSet(fits) /\ Cardinality(fits) \in Nat /\ (Cardinality(fits) = 0 <=> fits = {})
    <2>1. fits \in SUBSET People
      BY DEF FitPeople, PeopleTypeOK
    <2> QED BY <2>1, FS_Subset, FS_CardinalityType, FS_EmptySet DEF TracksAssumption
  <1>3. IsFiniteSet(groups) /\ Cardinality(groups) \in Nat /\ (Cardinality(groups) = 0 <=> groups = {})
    <2>1. groups \in SUBSET SUBSET Tracks
      BY DEF FitGroups, VoiceShape
    <2>2. IsFiniteSet(SUBSET Tracks)
      BY FS_SUBSET DEF TracksAssumption
    <2> QED BY <2>1, <2>2, FS_Subset, FS_CardinalityType, FS_EmptySet
  <1> HIDE DEF fits, groups
  <1>4. Cardinality({}) = 0
    BY FS_EmptySet
  <1> SUFFICES ASSUME n \in Eligible("voice") PROVE VoiceMoves(b, n, VoiceStep(b, n))
    BY <1>1 DEF VoiceMoves
  <1>5. CASE fits = {} /\ groups = {}
    <2>1. VoiceStep(b, n) = [b EXCEPT !.groups = @ \cup {{n}}]
      BY <1>1, <1>4, <1>5
    <2> QED BY <2>1 DEF VoiceMoves
  <1>6. CASE Cardinality(fits) + Cardinality(groups) > 1
    <2>1. ~(fits = {} /\ groups = {}) /\ ~(groups = {} /\ Cardinality(fits) = 1)
            /\ ~(fits = {} /\ Cardinality(groups) = 1)
      BY <1>2, <1>3, <1>4, <1>6
    <2>2. VoiceStep(b, n) = b
      BY <1>1, <1>6, <2>1
    <2> QED BY <2>2 DEF VoiceMoves
  <1>7. CASE groups = {} /\ Cardinality(fits) = 1
    <2>1. fits # {} /\ ~(Cardinality(fits) + Cardinality(groups) > 1)
      BY <1>2, <1>4, <1>7
    <2>2. VoiceStep(b, n) = [b EXCEPT !.members = @ \cup (fits \X {n})]
      BY <1>1, <1>7, <2>1
    <2>3. PICK p : fits = {p}
      BY <1>2, <1>7, FS_Singleton
    <2>4. fits \X {n} = {<<p, n>>} /\ p \in FitPeople(n, b)
      BY <2>3 DEF fits
    <2>5. VoiceStep(b, n) = [b EXCEPT !.members = @ \cup {<<p, n>>}]
      BY <2>2, <2>4
    <2> QED BY <2>4, <2>5 DEF VoiceMoves
  <1>8. CASE fits = {} /\ Cardinality(groups) = 1
    <2>1. groups # {} /\ ~(Cardinality(fits) + Cardinality(groups) > 1)
      BY <1>3, <1>4, <1>8
    <2>2. VoiceStep(b, n) = [b EXCEPT !.groups = (@ \ groups) \cup {g \cup {n} : g \in groups}]
      BY <1>1, <1>8, <2>1
    <2>3. PICK h : groups = {h}
      BY <1>3, <1>8, FS_Singleton
    <2>4. {g \cup {n} : g \in groups} = {h \cup {n}} /\ h \in FitGroups(n, b)
      BY <2>3 DEF groups
    <2>5. VoiceStep(b, n) = [b EXCEPT !.groups = (@ \ {h}) \cup {h \cup {n}}]
      BY <2>2, <2>3, <2>4
    <2> QED BY <2>4, <2>5 DEF VoiceMoves
  <1>9. \/ fits = {} /\ groups = {}
        \/ Cardinality(fits) + Cardinality(groups) > 1
        \/ groups = {} /\ Cardinality(fits) = 1
        \/ fits = {} /\ Cardinality(groups) = 1
    <2> DEFINE c == Cardinality(fits)
               d == Cardinality(groups)
    <2>1. c \in Nat /\ d \in Nat /\ (c = 0 <=> fits = {}) /\ (d = 0 <=> groups = {})
      BY <1>2, <1>3
    <2> HIDE DEF c, d
    <2>2. (c = 0 /\ d = 0) \/ c + d > 1 \/ (d = 0 /\ c = 1) \/ (c = 0 /\ d = 1)
      BY <2>1
    <2> QED BY <2>1, <2>2 DEF c, d
  <1> QED BY <1>5, <1>6, <1>7, <1>8, <1>9

LEMMA VoiceShaped ==
  ASSUME TracksAssumption, PeopleTypeOK, NEW n, NEW b \in VoiceShape
  PROVE  VoiceStep(b, n) \in VoiceShape
  <1>1. VoiceMoves(b, n, VoiceStep(b, n))
    BY VoiceStepIs
  <1>2. n \in Eligible("voice") => n \in Tracks
    BY EligibleTracks DEF Kinds
  <1>3. FitPeople(n, b) \subseteq People /\ FitGroups(n, b) \subseteq SUBSET Tracks
    BY DEF FitPeople, FitGroups, PeopleTypeOK, VoiceShape
  <1> QED BY <1>1, <1>2, <1>3 DEF VoiceMoves, VoiceShape

LEMMA VoicePlanned ==
  ASSUME TracksAssumption, PeopleTypeOK
  PROVE  VoicePlan = [n \in 0..Last |-> IF n = 0 THEN VoiceBase ELSE VoiceStep(VoicePlan[n - 1], n)]
  <1> DEFINE next == [x \in VoiceShape \X (1..Last) |-> VoiceStep(x[1], x[2])]
             Plans(f) == f = [n \in 0..Last |-> IF n = 0 THEN VoiceBase ELSE VoiceStep(f[n - 1], n)]
  <1>1. Last \in Nat
    BY LastTrack
  <1>2. VoiceBase \in VoiceShape
    BY DEF VoiceBase, VoiceShape, PeopleTypeOK
  <1>3. next \in [VoiceShape \X (1..Last) -> VoiceShape]
    BY VoiceShaped
  <1> HIDE DEF next
  <1>4. PICK f : Steps(Last, VoiceShape, VoiceBase, next, f)
    BY <1>1, <1>2, <1>3, StepsBuild
  <1>5. \A m \in 0..Last : m # 0 => next[<<f[m - 1], m>>] = VoiceStep(f[m - 1], m)
    <2> SUFFICES ASSUME NEW m \in 0..Last, m # 0
                 PROVE  next[<<f[m - 1], m>>] = VoiceStep(f[m - 1], m)
      OBVIOUS
    <2>1. m - 1 \in 0..Last /\ m \in 1..Last
      BY <1>1
    <2>2. f[m - 1] \in VoiceShape
      BY <1>4, <2>1 DEF Steps
    <2> QED BY <2>1, <2>2 DEF next
  <1>6. Plans(f)
    <2>1. [m \in 0..Last |-> IF m = 0 THEN VoiceBase ELSE next[<<f[m - 1], m>>]]
            = [m \in 0..Last |-> IF m = 0 THEN VoiceBase ELSE VoiceStep(f[m - 1], m)]
      BY <1>5
    <2> QED BY <1>4, <2>1 DEF Steps
  <1>7. VoicePlan = CHOOSE g : Plans(g)
    BY DEF VoicePlan, VoiceBase, VoiceStep
  <1> QED BY <1>6, <1>7

VoicesUp(draft, n) ==
  /\ draft \in VoiceShape /\ Grown("voice", draft.members, n)
  /\ \A g \in draft.groups :
       /\ g # {} /\ g \subseteq Eligible("voice")
       /\ \A h \in draft.groups : h # g => g \cap h = {}
       /\ \A t \in g : /\ t <= n /\ \A u \in g : u # t => {t, u} \notin apart
                       /\ \A e \in draft.members \ members : e[2] # t

LEMMA VoiceStepSound ==
  ASSUME TracksAssumption, PeopleTypeOK, NEW n \in Nat, n # 0, NEW b, VoicesUp(b, n - 1)
  PROVE  VoicesUp(VoiceStep(b, n), n)
  <1> DEFINE s == VoiceStep(b, n)
  <1>1. "voice" \in Kinds /\ Eligible("voice") \subseteq Nat /\ Eligible("voice") \subseteq Tracks
    BY EligibleTracks DEF Kinds
  <1>2. b \in VoiceShape /\ Grown("voice", b.members, n) /\ people \subseteq People
    BY <1>1, GrowsOn DEF VoicesUp, PeopleTypeOK
  <1>3. /\ \A g \in b.groups : \A t \in g : t \in Nat /\ t <= n - 1
        /\ \A e \in b.members \ members : e[2] \in Nat /\ e[2] <= n - 1
    BY <1>1 DEF VoicesUp, Grown
  <1>4. VoicesUp(b, n)
    BY <1>2, <1>3 DEF VoicesUp
  <1>5. VoiceMoves(b, n, s) /\ s \in VoiceShape
    BY <1>2, VoiceStepIs, VoiceShaped
  <1> HIDE DEF s
  <1>6. /\ \A g \in b.groups : n \notin g
        /\ \A e \in b.members \ members : e[2] # n
    BY <1>3
  <1>7. ASSUME n \in Eligible("voice"), s = [b EXCEPT !.groups = @ \cup {{n}}]
        PROVE  VoicesUp(s, n)
    <2>1. s.members = b.members /\ s.groups = b.groups \cup {{n}}
      BY <1>2, <1>7 DEF VoiceShape
    <2>2. ASSUME NEW g \in s.groups
          PROVE  /\ g # {} /\ g \subseteq Eligible("voice")
                 /\ \A h \in s.groups : h # g => g \cap h = {}
                 /\ \A t \in g : /\ t <= n /\ \A u \in g : u # t => {t, u} \notin apart
                                 /\ \A e \in s.members \ members : e[2] # t
      <3>1. CASE g \in b.groups
        BY <1>4, <1>6, <2>1, <3>1 DEF VoicesUp
      <3>2. CASE g = {n}
        BY <1>6, <1>7, <2>1, <3>2
      <3> QED BY <2>1, <3>1, <3>2
    <2> QED BY <1>2, <1>5, <2>1, <2>2 DEF VoicesUp
  <1>8. ASSUME n \in Eligible("voice"), NEW p \in FitPeople(n, b),
               s = [b EXCEPT !.members = @ \cup {<<p, n>>}]
        PROVE  VoicesUp(s, n)
    <2>1. s.members = b.members \cup {<<p, n>>} /\ s.groups = b.groups
      BY <1>2, <1>8 DEF VoiceShape
    <2>2. p \in people /\ \A u \in HeldIn(b.members, p, "voice") : {n, u} \notin apart
      BY DEF FitPeople, VoiceFits
    <2>3. Grown("voice", b.members, n - 1)
      BY DEF VoicesUp
    <2>4. Grown("voice", s.members, n)
      BY <1>1, <1>8, <2>1, <2>2, <2>3, GrowsByOne
    <2>5. \A g \in s.groups : \A t \in g : \A e \in s.members \ members : e[2] # t
      BY <1>4, <1>6, <2>1 DEF VoicesUp
    <2> QED BY <1>4, <1>5, <2>1, <2>4, <2>5 DEF VoicesUp
  <1>9. ASSUME n \in Eligible("voice"), NEW h \in FitGroups(n, b),
               s = [b EXCEPT !.groups = (@ \ {h}) \cup {h \cup {n}}]
        PROVE  VoicesUp(s, n)
    <2>1. s.members = b.members /\ s.groups = (b.groups \ {h}) \cup {h \cup {n}}
      BY <1>2, <1>9 DEF VoiceShape
    <2>2. h \in b.groups /\ \A u \in h : {n, u} \notin apart
      BY DEF FitGroups, VoiceFits
    <2>3. \A u \in h : {u, n} \notin apart
      <3>1. \A u \in h : {u, n} = {n, u}
        OBVIOUS
      <3> QED BY <2>2, <3>1
    <2>4. ASSUME NEW g \in s.groups
          PROVE  /\ g # {} /\ g \subseteq Eligible("voice")
                 /\ \A i \in s.groups : i # g => g \cap i = {}
                 /\ \A t \in g : /\ t <= n /\ \A u \in g : u # t => {t, u} \notin apart
                                 /\ \A e \in s.members \ members : e[2] # t
      <3>1. CASE g \in b.groups /\ g # h
        BY <1>4, <1>6, <2>1, <2>2, <3>1 DEF VoicesUp
      <3>2. CASE g = h \cup {n}
        <4>1. g # {} /\ g \subseteq Eligible("voice")
          BY <1>4, <1>9, <2>2, <3>2 DEF VoicesUp
        <4>2. \A i \in s.groups : i # g => g \cap i = {}
          BY <1>4, <1>6, <2>1, <2>2, <3>2 DEF VoicesUp
        <4>3. \A t \in g : t <= n /\ \A e \in s.members \ members : e[2] # t
          BY <1>4, <1>6, <2>1, <2>2, <3>2 DEF VoicesUp
        <4>4. \A t \in g : \A u \in g : u # t => {t, u} \notin apart
          BY <1>4, <2>2, <2>3, <3>2 DEF VoicesUp
        <4> QED BY <4>1, <4>2, <4>3, <4>4
      <3> QED BY <2>1, <3>1, <3>2
    <2> QED BY <1>2, <1>5, <2>1, <2>4 DEF VoicesUp
  <1>10. s = b => VoicesUp(s, n)
    BY <1>4
  <1>11. VoicesUp(s, n)
    BY <1>5, <1>7, <1>8, <1>9, <1>10 DEF VoiceMoves
  <1> QED BY <1>11 DEF s

LEMMA VoicesPlanned ==
  ASSUME TracksAssumption, PeopleTypeOK
  PROVE  VoicesUp(VoicePlan[Last], Last)
  <1> DEFINE S == {n \in 0..Last : VoicesUp(VoicePlan[n], n)}
  <1>1. Last \in Nat
    BY LastTrack
  <1>2. VoicePlan[0] = VoiceBase /\ \A n \in 1..Last : VoicePlan[n] = VoiceStep(VoicePlan[n - 1], n)
    <2>1. \A n \in 0..Last :
            VoicePlan[n] = IF n = 0 THEN VoiceBase ELSE VoiceStep(VoicePlan[n - 1], n)
      BY VoicePlanned, Zenon
    <2> QED BY <1>1, <2>1
  <1>3. 0 \in S
    <2>1. VoicesUp(VoiceBase, 0)
      BY DEF VoicesUp, VoiceBase, VoiceShape, Grown, PeopleTypeOK
    <2> QED BY <1>1, <1>2, <2>1
  <1>4. \A n \in 1..Last : n - 1 \in S => n \in S
    <2> SUFFICES ASSUME NEW n \in 1..Last, n - 1 \in S
                 PROVE  n \in S
      OBVIOUS
    <2>1. VoicesUp(VoicePlan[n - 1], n - 1)
      OBVIOUS
    <2>2. VoicesUp(VoiceStep(VoicePlan[n - 1], n), n)
      BY <2>1, VoiceStepSound
    <2> QED BY <1>2, <2>2
  <1> HIDE DEF S
  <1>5. Last \in S
    BY <1>1, <1>3, <1>4, OneByOne
  <1> QED BY <1>5 DEF S

LEMMA VoicePlanSound ==
  ASSUME TracksAssumption, PeopleTypeOK
  PROVE  PlanSound("voice", PlanOf("voice"))
  <1> DEFINE last == VoicePlan[Last]
             m == last.members
             chosen == VoiceGroups(last)
  <1>1. VoicesUp(last, Last) /\ "voice" \in Kinds
    BY VoicesPlanned DEF Kinds
  <1>2. PlanOf("voice") = [joins |-> m \ members, groups |-> chosen]
    BY DEF PlanOf
  <1>3. chosen \subseteq last.groups
    BY DEF VoiceGroups
  <1> HIDE DEF last, m, chosen
  <1>4. JoinsSound("voice", m \ members) /\ m \ members \subseteq People \X Tracks
    BY <1>1, JoinsAre DEF VoicesUp, m
  <1>5. \A t \in Eligible("voice") : Spare(t) /\ t \in TracksOf("voice")
    BY <1>1, EligibleTracks DEF Spare, PeopleTypeOK
  <1>6. GroupsSound("voice", chosen)
    BY <1>1, <1>3, <1>5 DEF GroupsSound, VoicesUp
  <1>7. \A e \in m \ members, g \in chosen : e[2] \notin g
    BY <1>1, <1>3 DEF VoicesUp, m
  <1>8. chosen \subseteq SUBSET Tracks
    BY <1>1, <1>3 DEF VoicesUp, VoiceShape
  <1>9. PlanOf("voice") \in MatchPlans
    <2>1. m \ members \in SUBSET (People \X Tracks) /\ chosen \in SUBSET SUBSET Tracks
      BY <1>4, <1>8
    <2>2. [joins |-> m \ members, groups |-> chosen] \in MatchPlans
      BY <2>1 DEF MatchPlans
    <2> QED BY <1>2, <2>2
  <1>10. PlanOf("voice").joins = m \ members /\ PlanOf("voice").groups = chosen
    BY <1>2
  <1> QED BY <1>4, <1>6, <1>7, <1>9, <1>10, Zenon DEF PlanSound

---------------------------------------------------------------------------
\* What others may do while a matching of kind k, or an inference, has its plan.
KindKept(k) ==
  /\ made \subseteq made'
  /\ \A t \in TracksOf(k) : decided'[t] = decided[t]
  /\ \A p \in People, t \in TracksOf(k) :
       <<p, t>> \in members' => <<p, t>> \in members \/ (k = "voice" /\ p \notin made)
  /\ \A pair \in apart' : pair \subseteq TracksOf(k) => pair \in apart

NamesKept ==
  /\ made \subseteq made' /\ rejected' \subseteq rejected
  /\ \A p \in people' : name'[p] = name[p] /\ (p \in people \/ name[p] = None)

JobsKept ==
  /\ job' = [j \in Kinds \cup {"names"} |-> job'[j]]
  /\ \A k \in Kinds : job'[k] # None => PlanSound(k, job'[k]) /\ KindKept(k)
  /\ job'["names"] # None => NamingSound(job'["names"]) /\ NamesKept

LEMMA PlanKept ==
  ASSUME TracksAssumption, PeopleTypeOK, NEW k \in Kinds, NEW draft, KindKept(k),
         made' \subseteq People, PlanSound(k, draft)
  PROVE  PlanSound(k, draft)'
  <1>1. TracksOf(k) \subseteq Tracks /\ (k = "voice" => TracksOf(k) \cap Faces = {}) /\ k \in {"face", "voice"}
    BY EligibleTracks DEF TracksOf, Kinds, TracksAssumption
  <1>2. \A t \in TracksOf(k) : Spare(t) => Spare(t)'
    BY <1>1 DEF KindKept, Spare, TracksAssumption, PeopleTypeOK
  <1>3. JoinsSound(k, draft.joins)'
    <2> SUFFICES ASSUME NEW e \in draft.joins
                 PROVE  /\ e \in made' \X TracksOf(k) /\ Spare(e[2])'
                        /\ \A d \in draft.joins : d[2] = e[2] => d = e
                        /\ \A u \in HeldIn(members' \cup draft.joins, e[1], k) :
                             u # e[2] => {e[2], u} \notin apart'
      BY DEF JoinsSound, HeldIn
    <2>1. /\ e \in made \X TracksOf(k) /\ Spare(e[2])
          /\ \A d \in draft.joins : d[2] = e[2] => d = e
          /\ \A u \in HeldIn(members \cup draft.joins, e[1], k) : u # e[2] => {e[2], u} \notin apart
      BY DEF PlanSound, JoinsSound
    <2>2. e[1] \in made /\ e[1] \in People /\ e[2] \in TracksOf(k)
      BY <2>1 DEF PeopleTypeOK
    <2>3. \A u \in HeldIn(members' \cup draft.joins, e[1], k) :
            u \in TracksOf(k) /\ u \in HeldIn(members \cup draft.joins, e[1], k)
      BY <2>2 DEF HeldIn, KindKept
    <2>4. \A u \in TracksOf(k) : {e[2], u} \in apart' => {e[2], u} \in apart
      BY <2>2 DEF KindKept
    <2>5. e \in made' \X TracksOf(k) /\ Spare(e[2])'
      BY <1>2, <2>1, <2>2 DEF KindKept
    <2> QED BY <2>1, <2>3, <2>4, <2>5
  <1>4. GroupsSound(k, draft.groups)'
    <2> SUFFICES ASSUME NEW g \in draft.groups
                 PROVE  /\ g # {} /\ g \subseteq TracksOf(k)
                        /\ \A h \in draft.groups : h # g => g \cap h = {}
                        /\ \A t \in g : Spare(t)' /\ \A u \in g : u # t => {t, u} \notin apart'
      BY DEF GroupsSound
    <2>1. /\ g # {} /\ g \subseteq TracksOf(k)
          /\ \A h \in draft.groups : h # g => g \cap h = {}
          /\ \A t \in g : Spare(t) /\ \A u \in g : u # t => {t, u} \notin apart
      BY DEF PlanSound, GroupsSound
    <2>2. \A t \in g : \A u \in g : {t, u} \in apart' => {t, u} \in apart
      BY <2>1 DEF KindKept
    <2> QED BY <1>2, <2>1, <2>2
  <1> QED BY <1>3, <1>4 DEF PlanSound, MatchPlans

LEMMA NamingKept ==
  ASSUME PeopleTypeOK, NEW draft, NamesKept, NamingSound(draft)
  PROVE  NamingSound(draft)'
  <1>1. draft \in NamePlans /\ draft.seen \subseteq made'
        /\ draft.given \subseteq (made' \cup Voices) \X Keys /\ draft.given \cap rejected' = {}
    BY DEF NamingSound, NamesKept
  <1>2. ASSUME NEW p \in people'
        PROVE  /\ name'[p] # None => Protected(p)' # (p \in draft.seen)
               /\ Protected(p)' => \A g \in draft.given : g[1] # p /\ g[2] # name'[p].key
    <2>1. name'[p] = name[p] /\ (p \in people \/ name[p] = None)
      BY DEF NamesKept
    <2>2. Protected(p)' = Protected(p) /\ (Protected(p) => name[p] # None)
      BY <2>1 DEF Protected
    <2> QED BY <2>1, <2>2 DEF NamingSound
  <1> QED BY <1>1, <1>2 DEF NamingSound, NamePlans

LEMMA JobsKeepSound ==
  ASSUME TracksAssumption, PeopleTypeOK, JobsKept, made' \subseteq People
  PROVE  JobsSound'
  BY PlanKept, NamingKept DEF JobsKept, JobsSound

---------------------------------------------------------------------------
\* What a plan assigns when it is written.
AssignedSound(k, draft) ==
  LET founders == Founders(draft.groups) IN
  /\ founders \subseteq People \ made
  /\ \A e \in Assigned(draft) :
       /\ e \in People \X TracksOf(k) /\ Spare(e[2])
       /\ e \in draft.joins \/ e[1] \in founders
       /\ \A d \in Assigned(draft) :
            /\ d[2] = e[2] => d = e
            /\ d[1] = e[1] /\ e[1] \in founders /\ d[2] # e[2] => {e[2], d[2]} \notin apart
  /\ JoinsSound(k, draft.joins)

LEMMA GroupsFinite ==
  ASSUME TracksAssumption, NEW groups \in SUBSET SUBSET Tracks
  PROVE  IsFiniteSet(groups)
  <1>1. IsFiniteSet(SUBSET Tracks)
    BY FS_SUBSET DEF TracksAssumption
  <1> QED BY <1>1, FS_Subset

LEMMA AssignedIs ==
  ASSUME TracksAssumption, PeopleTypeOK, NEW k \in Kinds, NEW draft, PlanSound(k, draft),
         Cardinality(People \ made) >= Cardinality(draft.groups)
  PROVE  AssignedSound(k, draft)
  <1> DEFINE groups == draft.groups
             Founder(g) == PersonOf(g, groups)
  <1>1. groups \in SUBSET SUBSET Tracks
    BY DEF PlanSound, MatchPlans
  <1>2. IsFiniteSet(groups)
    BY <1>1, GroupsFinite
  <1>3. /\ \A g \in groups : g # {} /\ g \subseteq Tracks
        /\ \A g, h \in groups : g # h => g \cap h = {}
    BY <1>1 DEF PlanSound, GroupsSound
  <1>4. Cardinality(groups) <= Cardinality(People \ made)
    <2>1. Cardinality(groups) \in Nat /\ Cardinality(People \ made) \in Nat
      BY <1>2, FS_CardinalityType, FS_Subset DEF TracksAssumption
    <2> QED BY <2>1
  <1>5. /\ \A g \in groups : Founder(g) \in People \ made
        /\ \A g, h \in groups : Founder(g) = Founder(h) => g = h
    BY <1>2, <1>3, <1>4, FoundersFit
  <1>6. Founders(groups) = {Founder(g) : g \in groups}
    BY DEF Founders
  <1>7. Founded(groups) = UNION {{Founder(g)} \X g : g \in groups}
    BY DEF Founded
  <1> HIDE DEF Founder
  <1>8. ASSUME NEW e \in Founded(groups)
        PROVE  \E g \in groups : e[1] = Founder(g) /\ e[2] \in g /\ e = <<e[1], e[2]>>
    BY <1>7
  <1>9. JoinsSound(k, draft.joins) /\ draft.joins \subseteq People \X Tracks
    BY DEF PlanSound, MatchPlans
  <1>10. ASSUME NEW e \in Assigned(draft)
         PROVE  /\ e \in People \X TracksOf(k) /\ Spare(e[2])
                /\ e \in draft.joins \/ e[1] \in Founders(groups)
                /\ \A d \in Assigned(draft) :
                     /\ d[2] = e[2] => d = e
                     /\ d[1] = e[1] /\ e[1] \in Founders(groups) /\ d[2] # e[2]
                          => {e[2], d[2]} \notin apart
    <2>1. CASE e \in draft.joins
      <3>1. e \in People \X TracksOf(k) /\ Spare(e[2]) /\ e[1] \in made
        BY <1>9, <2>1 DEF JoinsSound
      <3>2. e[1] \notin Founders(groups)
        BY <1>5, <1>6, <3>1
      <3>3. ASSUME NEW d \in Assigned(draft), d[2] = e[2]
            PROVE  d = e
        <4>1. d \in Founded(groups) => \E g \in groups : d[2] \in g
          BY <1>8
        <4>2. d \notin Founded(groups)
          BY <2>1, <3>3, <4>1 DEF PlanSound
        <4>3. d \in draft.joins
          BY <4>2 DEF Assigned
        <4> QED BY <1>9, <2>1, <3>3, <4>3 DEF JoinsSound
      <3> QED BY <2>1, <3>1, <3>2, <3>3
    <2>2. CASE e \in Founded(groups)
      <3>1. PICK g \in groups : e[1] = Founder(g) /\ e[2] \in g /\ e = <<e[1], e[2]>>
        BY <1>8, <2>2
      <3>2. g \subseteq TracksOf(k) /\ Spare(e[2]) /\ \A u \in g : u # e[2] => {e[2], u} \notin apart
        BY <3>1 DEF PlanSound, GroupsSound
      <3>3. e[1] \in Founders(groups) /\ e[1] \in People \ made
        BY <1>5, <1>6, <3>1
      <3>4. ASSUME NEW d \in draft.joins
            PROVE  d[2] # e[2] /\ d[1] # e[1]
        BY <1>9, <3>1, <3>3 DEF JoinsSound, PlanSound
      <3>5. ASSUME NEW d \in Founded(groups)
            PROVE  /\ d[2] = e[2] => d = e
                   /\ d[1] = e[1] /\ d[2] # e[2] => {e[2], d[2]} \notin apart
        <4>1. PICK h \in groups : d[1] = Founder(h) /\ d[2] \in h /\ d = <<d[1], d[2]>>
          BY <1>8
        <4>2. d[2] = e[2] => g = h
          BY <1>3, <3>1, <4>1
        <4>3. d[1] = e[1] => g = h
          BY <1>5, <3>1, <4>1
        <4> QED BY <3>1, <3>2, <4>1, <4>2, <4>3
      <3>6. e \in People \X TracksOf(k)
        BY <3>1, <3>2, <3>3
      <3> QED BY <3>2, <3>3, <3>4, <3>5, <3>6 DEF Assigned
    <2> QED BY <2>1, <2>2 DEF Assigned
  <1>11. Founders(groups) \subseteq People \ made
    BY <1>5, <1>6
  <1> HIDE DEF groups
  <1> QED BY <1>9, <1>10, <1>11 DEF AssignedSound, groups

---------------------------------------------------------------------------

---------------------------------------------------------------------------
\* The invariant without what is planned.
TablesSound ==
  PeopleTypeOK /\ FacesSingle /\ PlacedHeld /\ ApartSound /\ LinksSound /\ NamesAllowed

LEMMA InvParts == PeopleInv <=> TablesSound /\ JobsSound
  BY DEF PeopleInv, TablesSound

LEMMA KindsAre ==
  /\ Kinds = {"face", "voice"} /\ "names" \notin Kinds
  /\ "face" \in Kinds /\ "voice" \in Kinds /\ TracksOf("face") = Faces /\ TracksOf("voice") = Voices
  BY DEF Kinds, TracksOf

\* Nothing but what is planned changes.
LEMMA TablesStay ==
  ASSUME TablesSound, UNCHANGED <<reprocessed, matchVars, nameVars, acts>>,
         \A k \in Kinds : job'[k] = None \/ job'[k] \in MatchPlans,
         job'["names"] = None \/ job'["names"] \in NamePlans
  PROVE  TablesSound' /\ made' \subseteq People /\ NamesKept /\ \A k \in Kinds : KindKept(k)
  <1>1. PeopleTypeOK'
    BY DEF TablesSound, PeopleTypeOK, matchVars, nameVars
  <1>2. FacesSingle' /\ PlacedHeld' /\ ApartSound' /\ LinksSound' /\ NamesAllowed'
    BY DEF TablesSound, FacesSingle, PlacedHeld, ApartSound, LinksSound, NamesAllowed,
           matchVars, nameVars
  <1>3. made' \subseteq People /\ NamesKept
    BY DEF TablesSound, PeopleTypeOK, matchVars, nameVars, NamesKept
  <1>4. \A k \in Kinds : KindKept(k)
    BY DEF matchVars, KindKept
  <1> QED BY <1>1, <1>2, <1>3, <1>4 DEF TablesSound

LEMMA ReadMatchesSound ==
  ASSUME TracksAssumption, PeopleInv, NEW k \in Kinds, ReadMatches(k)
  PROVE  PeopleInv'
  <1> DEFINE draft == PlanOf(k)
  <1>1. TablesSound /\ JobsSound /\ PeopleTypeOK
    BY InvParts DEF TablesSound
  <1>2. PlanSound(k, draft)
    BY <1>1, FacePlanSound, VoicePlanSound, KindsAre
  <1> HIDE DEF draft
  <1>3. /\ job' = [job EXCEPT ![k] = draft]
        /\ UNCHANGED <<reprocessed, matchVars, nameVars, acts>>
    BY DEF ReadMatches, draft
  <1>4. /\ job' = [j \in Kinds \cup {"names"} |-> job'[j]] /\ job'[k] = draft
        /\ \A j \in Kinds \cup {"names"} : j # k => job'[j] = job[j]
    BY <1>1, <1>3 DEF JobsSound
  <1>5. TablesSound' /\ made' \subseteq People /\ NamesKept /\ \A j \in Kinds : KindKept(j)
    <2>1. \A j \in Kinds : job'[j] = None \/ job'[j] \in MatchPlans
      BY <1>1, <1>2, <1>4 DEF PlanSound, PeopleTypeOK
    <2>2. job'["names"] = None \/ job'["names"] \in NamePlans
      BY <1>1, <1>4, KindsAre DEF PeopleTypeOK
    <2> QED BY <1>1, <1>3, <2>1, <2>2, TablesStay
  <1>6. JobsKept
    <2>1. \A j \in Kinds : job'[j] # None => PlanSound(j, job'[j])
      BY <1>1, <1>2, <1>4 DEF JobsSound
    <2>2. job'["names"] # None => NamingSound(job'["names"])
      BY <1>1, <1>4, KindsAre DEF JobsSound
    <2> QED BY <1>4, <1>5, <2>1, <2>2 DEF JobsKept
  <1> QED BY <1>1, <1>5, <1>6, JobsKeepSound DEF PeopleInv, TablesSound

\* What an inference plans: no subject and no name twice, and nobody's protected name.
LEMMA NamingIsSound ==
  ASSUME TracksAssumption, PeopleTypeOK, NamesAllowed,
         NEW draft, draft.seen = {p \in people : ~Protected(p)},
         draft.given = {g \in Subjects \X Keys :
                         /\ KeysOf(g[1]) = {g[2]} /\ Unrivalled(g[1], g[2])
                         /\ g[1] \in people => ~Protected(g[1])},
         draft \in NamePlans
  PROVE  NamingSound(draft)
  <1>1. people \subseteq made /\ people \subseteq People /\ rejected \subseteq people \X Keys
    BY DEF PeopleTypeOK
  <1>2. Subjects \subseteq people \cup Voices /\ Voices \cap People = {}
    BY EligibleTracks, KindsAre DEF Subjects, TracksAssumption, Tracks
  <1>3. draft.given \cap rejected = {}
    <2>1. \A s, k : k \in KeysOf(s) => <<s, k>> \notin rejected
      BY DEF KeysOf
    <2> QED BY <2>1, <1>1
  <1>4. ASSUME NEW g \in draft.given, NEW h \in draft.given, g[1] = h[1] \/ g[2] = h[2]
        PROVE  g = h
    <2>1. /\ g \in Subjects \X Keys /\ KeysOf(g[1]) = {g[2]} /\ Unrivalled(g[1], g[2])
          /\ h \in Subjects \X Keys /\ KeysOf(h[1]) = {h[2]} /\ Unrivalled(h[1], h[2])
      OBVIOUS
    <2>2. CASE g[1] = h[1]
      BY <2>1, <2>2
    <2>3. CASE g[2] = h[2]
      <3>1. g[1] \in Claimants(g[2]) /\ h[1] \in Claimants(g[2])
        BY <2>1, <2>3 DEF Claimants
      <3>2. g[1] = h[1]
        BY <2>1, <2>3, <3>1 DEF Unrivalled
      <3> QED BY <2>1, <2>3, <3>2
    <2> QED BY <1>4, <2>2, <2>3
  <1>5. ASSUME NEW p \in people, Protected(p), NEW g \in draft.given
        PROVE  g[1] # p /\ g[2] # name[p].key
    <2>1. KeysOf(g[1]) = {g[2]} /\ Unrivalled(g[1], g[2]) /\ (g[1] \in people => ~Protected(g[1]))
      OBVIOUS
    <2>2. g[1] # p
      BY <1>5, <2>1
    <2>3. ASSUME g[2] = name[p].key
          PROVE  FALSE
      <3>1. p \in Claimants(g[2])
        BY <1>5, <2>3 DEF Claimants
      <3> QED BY <2>1, <2>2, <3>1 DEF Unrivalled
    <2> QED BY <2>2, <2>3
  <1>6. \A p \in people : Protected(p) # (p \in draft.seen)
    OBVIOUS
  <1> QED BY <1>1, <1>2, <1>3, <1>4, <1>5, <1>6 DEF NamingSound

LEMMA ReadNamesSound ==
  ASSUME TracksAssumption, PeopleInv, ReadNames
  PROVE  PeopleInv'
  <1> DEFINE draft == [seen |-> {p \in people : ~Protected(p)},
                      given |-> {g \in Subjects \X Keys :
                                   /\ KeysOf(g[1]) = {g[2]} /\ Unrivalled(g[1], g[2])
                                   /\ g[1] \in people => ~Protected(g[1])}]
  <1>1. TablesSound /\ JobsSound /\ PeopleTypeOK /\ NamesAllowed
    BY InvParts DEF TablesSound
  <1>2. Subjects \subseteq People \cup Voices /\ people \subseteq People
    BY <1>1, EligibleTracks, KindsAre DEF Subjects, PeopleTypeOK
  <1>3. draft \in NamePlans
    BY <1>2 DEF NamePlans
  <1>4. NamingSound(draft)
    BY <1>1, <1>3, NamingIsSound
  <1>5. /\ job' = [job EXCEPT !["names"] = draft]
        /\ UNCHANGED <<reprocessed, matchVars, nameVars, acts>>
    BY DEF ReadNames
  <1> HIDE DEF draft
  <1>6. /\ job' = [j \in Kinds \cup {"names"} |-> job'[j]] /\ job'["names"] = draft
        /\ \A j \in Kinds : job'[j] = job[j]
    BY <1>1, <1>5, KindsAre DEF JobsSound
  <1>7. TablesSound' /\ made' \subseteq People /\ NamesKept /\ \A j \in Kinds : KindKept(j)
    <2>1. \A j \in Kinds : job'[j] = None \/ job'[j] \in MatchPlans
      BY <1>1, <1>6 DEF PeopleTypeOK
    <2> QED BY <1>1, <1>3, <1>5, <1>6, <2>1, TablesStay
  <1>8. JobsKept
    <2>1. \A j \in Kinds : job'[j] # None => PlanSound(j, job'[j])
      BY <1>1, <1>6 DEF JobsSound
    <2> QED BY <1>4, <1>6, <1>7, <2>1 DEF JobsKept
  <1> QED BY <1>1, <1>7, <1>8, JobsKeepSound DEF PeopleInv, TablesSound

---------------------------------------------------------------------------
\* A matching writes: members of its kind come and go, people come.
Wrote(k, draft) ==
  /\ members' \subseteq members \cup Assigned(draft)
  /\ \A e \in members \cup Assigned(draft) :
       e \in members' \/ (e[2] \in TracksOf(k) /\ decided[e[2]] = "none")
  /\ people' = people \cup Founders(draft.groups) /\ made' = made \cup Founders(draft.groups)
  /\ {e[1] : e \in draft.joins} \subseteq people
  /\ \/ suggested' = suggested
     \/ k = "voice" /\ suggested' = Supported(members', people') \ refused

LEMMA WriteMatchesIs ==
  ASSUME PeopleTypeOK, NEW k \in Kinds, WriteMatches(k)
  PROVE  \/ Wrote(k, job[k])
         \/ UNCHANGED <<people, made, members, suggested>>
  <1> DEFINE draft == job[k]
             kept == Joined(draft) \ Replaced(Joined(draft), k)
  <1>1. CASE {e[1] : e \in draft.joins} \subseteq people
    <2>1. /\ people' = people \cup Founders(draft.groups) /\ made' = made \cup Founders(draft.groups)
          /\ members' = kept
          /\ suggested' = IF k = "voice" THEN LinksAfter(Supported(kept, people')) ELSE suggested
      BY <1>1 DEF WriteMatches
    <2>2. Joined(draft) = members \cup Assigned(draft)
      BY DEF Joined
    <2>3. \A e \in Replaced(Joined(draft), k) : e[2] \in TracksOf(k) /\ decided[e[2]] = "none"
      BY DEF Replaced
    <2> HIDE DEF draft
    <2> QED BY <1>1, <2>1, <2>2, <2>3 DEF Wrote, LinksAfter, draft
  <1>2. CASE ~({e[1] : e \in draft.joins} \subseteq people)
    BY <1>2 DEF WriteMatches
  <1> QED BY <1>1, <1>2

LEMMA SupportedPairs ==
  ASSUME NEW m, NEW ids
  PROVE  Supported(m, ids) \subseteq ids \X ids /\ \A l \in Supported(m, ids) : l[1] # l[2]
  BY DEF Supported

LEMMA OtherKind ==
  ASSUME TracksAssumption, NEW k \in Kinds, NEW j \in Kinds, j # k
  PROVE  TracksOf(j) \cap TracksOf(k) = {}
  BY KindsAre DEF TracksAssumption

LEMMA WrittenSound ==
  ASSUME TracksAssumption, PeopleInv, NEW k \in Kinds, WriteMatches(k),
         Wrote(k, job[k]), AssignedSound(k, job[k])
  PROVE  TablesSound' /\ made' \subseteq People /\ NamesKept
         /\ \A j \in Kinds : j # k => KindKept(j)
  <1> DEFINE draft == job[k]
             assigned == Assigned(draft)
             founders == Founders(draft.groups)
  <1>1. TablesSound /\ JobsSound /\ PeopleTypeOK
    BY InvParts DEF TablesSound
  <1>2. /\ UNCHANGED <<reprocessed, decided, apart, refused, name, rejected, acts>>
        /\ job' = [job EXCEPT ![k] = None]
    BY DEF WriteMatches, nameVars
  <1>3. /\ founders \subseteq People \ made
        /\ \A e \in assigned :
             /\ e \in People \X TracksOf(k) /\ Spare(e[2])
             /\ e \in draft.joins \/ e[1] \in founders
             /\ \A d \in assigned : d[2] = e[2] => d = e
    BY DEF AssignedSound
  <1>4. /\ members' \subseteq members \cup assigned
        /\ \A e \in members : e \in members' \/ (e[2] \in TracksOf(k) /\ decided[e[2]] = "none")
        /\ people' = people \cup founders /\ made' = made \cup founders
        /\ {e[1] : e \in draft.joins} \subseteq people
        /\ \/ suggested' = suggested
           \/ suggested' = Supported(members', people') \ refused
    BY DEF Wrote
  <1>5. TracksOf(k) \subseteq Tracks
    BY EligibleTracks
  <1> HIDE DEF draft, assigned, founders
  <1>6. PeopleTypeOK'
    <2>1. people' \subseteq made' /\ made' \subseteq People /\ people \subseteq people'
      BY <1>1, <1>3, <1>4 DEF PeopleTypeOK
    <2>2. members' \subseteq people' \X Tracks
      <3>1. \A e \in assigned : e \in people' \X Tracks
        BY <1>3, <1>4, <1>5
      <3>2. \A e \in members : e \in people' \X Tracks
        BY <1>1, <2>1 DEF PeopleTypeOK
      <3> QED BY <1>4, <3>1, <3>2
    <2>3. suggested' \subseteq people' \X people' /\ refused' \subseteq people' \X people'
      BY <1>1, <1>2, <1>4, <2>1, SupportedPairs DEF PeopleTypeOK
    <2>4. rejected' \subseteq people' \X Keys /\ \A p \in People \ people' : name'[p] = None
      BY <1>1, <1>2, <2>1 DEF PeopleTypeOK
    <2>5. /\ \A j \in Kinds : job'[j] = None \/ job'[j] \in MatchPlans
          /\ job'["names"] = None \/ job'["names"] \in NamePlans
      BY <1>1, <1>2, KindsAre DEF PeopleTypeOK, JobsSound
    <2> QED BY <1>1, <1>2, <2>1, <2>2, <2>3, <2>4, <2>5 DEF PeopleTypeOK
  <1>7. FacesSingle'
    <2> SUFFICES ASSUME NEW f \in Faces, NEW p \in People, NEW q \in People,
                        <<p, f>> \in members', <<q, f>> \in members'
                 PROVE  p = q
      BY DEF FacesSingle
    <2>1. \A o \in People : <<o, f>> \in assigned => \A r \in People : <<r, f>> \notin members
      BY <1>3 DEF Spare
    <2>2. CASE <<p, f>> \in members
      BY <1>1, <1>4, <2>1, <2>2 DEF TablesSound, FacesSingle
    <2>3. CASE <<p, f>> \in assigned
      <3>1. <<q, f>> \in assigned
        BY <1>4, <2>1, <2>3
      <3> QED BY <1>3, <2>3, <3>1
    <2> QED BY <1>4, <2>2, <2>3
  <1>8. PlacedHeld'
    BY <1>1, <1>2, <1>4 DEF TablesSound, PlacedHeld
  <1>9. ApartSound' /\ LinksSound' /\ NamesAllowed'
    <2>1. ApartSound'
      BY <1>1, <1>2 DEF TablesSound, ApartSound
    <2>2. LinksSound'
      BY <1>1, <1>2, <1>4, SupportedPairs DEF TablesSound, LinksSound
    <2>3. NamesAllowed'
      BY <1>1, <1>2, <1>3, <1>4 DEF TablesSound, NamesAllowed, PeopleTypeOK
    <2> QED BY <2>1, <2>2, <2>3
  <1>10. NamesKept
    BY <1>1, <1>2, <1>3, <1>4 DEF NamesKept, PeopleTypeOK
  <1>11. \A j \in Kinds : j # k => KindKept(j)
    <2> SUFFICES ASSUME NEW j \in Kinds, j # k
                 PROVE  KindKept(j)
      OBVIOUS
    <2>1. TracksOf(j) \cap TracksOf(k) = {}
      BY OtherKind
    <2>2. \A e \in assigned : e[2] \notin TracksOf(j)
      BY <1>3, <2>1
    <2>3. \A p \in People, t \in TracksOf(j) : <<p, t>> \in members' => <<p, t>> \in members
      BY <1>4, <2>2
    <2> QED BY <1>2, <1>4, <2>3 DEF KindKept
  <1> QED BY <1>6, <1>7, <1>8, <1>9, <1>10, <1>11 DEF TablesSound, PeopleTypeOK

LEMMA WriteMatchesSound ==
  ASSUME TracksAssumption, PeopleInv, NEW k \in Kinds, WriteMatches(k)
  PROVE  PeopleInv'
  <1>1. TablesSound /\ JobsSound /\ PeopleTypeOK
    BY InvParts DEF TablesSound
  <1>2. /\ UNCHANGED <<reprocessed, decided, apart, refused, name, rejected, acts>>
        /\ job' = [job EXCEPT ![k] = None] /\ job[k] # None
        /\ Cardinality(People \ made) >= Cardinality(job[k].groups)
    BY DEF WriteMatches, nameVars
  <1>3. /\ job' = [j \in Kinds \cup {"names"} |-> job'[j]] /\ job'[k] = None
        /\ \A j \in Kinds \cup {"names"} : j # k => job'[j] = job[j]
    BY <1>1, <1>2 DEF JobsSound
  <1>4. AssignedSound(k, job[k])
    BY <1>1, <1>2, AssignedIs DEF JobsSound
  <1>5. TablesSound' /\ made' \subseteq People /\ NamesKept /\ \A j \in Kinds : j # k => KindKept(j)
    <2>1. CASE Wrote(k, job[k])
      BY <1>4, <2>1, WrittenSound
    <2>2. CASE UNCHANGED <<people, made, members, suggested>>
      <3>1. \A j \in Kinds : job'[j] = None \/ job'[j] \in MatchPlans
        BY <1>1, <1>3 DEF PeopleTypeOK
      <3>2. job'["names"] = None \/ job'["names"] \in NamePlans
        BY <1>1, <1>3, KindsAre DEF PeopleTypeOK
      <3>3. UNCHANGED <<reprocessed, matchVars, nameVars, acts>>
        BY <1>2, <2>2 DEF matchVars, nameVars
      <3> QED BY <1>1, <3>1, <3>2, <3>3, TablesStay
    <2> QED BY <1>1, <2>1, <2>2, WriteMatchesIs
  <1>6. JobsKept
    <2>1. \A j \in Kinds : job'[j] # None => PlanSound(j, job'[j]) /\ j # k
      BY <1>1, <1>3 DEF JobsSound
    <2>2. job'["names"] # None => NamingSound(job'["names"])
      BY <1>1, <1>3, KindsAre DEF JobsSound
    <2> QED BY <1>3, <1>5, <2>1, <2>2 DEF JobsKept
  <1> QED BY <1>1, <1>5, <1>6, JobsKeepSound DEF PeopleInv, TablesSound

---------------------------------------------------------------------------
\* An inference writes: voices that name themselves become people, and whom it saw unnamed
\* or inferred is named afresh.
Newcomers(draft) == {{g[1]} : g \in {h \in draft.given : h[1] \in Voices}}
NamedBy(draft, g) == IF g[1] \in Voices THEN PersonOf({g[1]}, Newcomers(draft)) ELSE g[1]
Inferred(k) == [key |-> k, status |-> "inferred"]

Named(draft) ==
  /\ {g[1] : g \in draft.given} \ Voices \subseteq people
  /\ people' = people \cup Founders(Newcomers(draft))
  /\ made' = made \cup Founders(Newcomers(draft))
  /\ members' = members \cup Founded(Newcomers(draft))
  /\ name' = [p \in People |-> name'[p]]
  /\ \A p \in People :
       \/ \E g \in draft.given : NamedBy(draft, g) = p /\ name'[p] = Inferred(g[2])
       \/ /\ \A g \in draft.given : NamedBy(draft, g) # p
          /\ name'[p] = IF p \in draft.seen THEN None ELSE name[p]

LEMMA WriteNamesIs ==
  ASSUME WriteNames
  PROVE  \/ Named(job["names"])
         \/ /\ UNCHANGED <<people, made, members, name>>
            /\ ~({g[1] : g \in job["names"].given} \ Voices \subseteq people)
  <1> DEFINE draft == job["names"]
             given == {<<NamedBy(draft, g), g[2]>> : g \in draft.given}
  <1>1. CASE {g[1] : g \in draft.given} \ Voices \subseteq people
    <2>1. /\ people' = people \cup Founders(Newcomers(draft))
          /\ made' = made \cup Founders(Newcomers(draft))
          /\ members' = members \cup Founded(Newcomers(draft))
          /\ name' = [p \in People |->
               IF \E g \in given : g[1] = p
               THEN [key |-> (CHOOSE g \in given : g[1] = p)[2], status |-> "inferred"]
               ELSE IF p \in draft.seen THEN None ELSE name[p]]
      BY <1>1 DEF WriteNames, Newcomers, NamedBy
    <2>2. ASSUME NEW p \in People
          PROVE  \/ \E g \in draft.given : NamedBy(draft, g) = p /\ name'[p] = Inferred(g[2])
                 \/ /\ \A g \in draft.given : NamedBy(draft, g) # p
                    /\ name'[p] = IF p \in draft.seen THEN None ELSE name[p]
      <3>1. CASE \E g \in given : g[1] = p
        <4>1. name'[p] = Inferred((CHOOSE g \in given : g[1] = p)[2])
          BY <2>1, <3>1 DEF Inferred
        <4>2. PICK d \in given : d[1] = p /\ name'[p] = Inferred(d[2])
          BY <3>1, <4>1
        <4>3. PICK g \in draft.given : d = <<NamedBy(draft, g), g[2]>>
          BY <4>2
        <4> QED BY <4>2, <4>3
      <3>2. CASE ~\E g \in given : g[1] = p
        <4>1. ASSUME NEW g \in draft.given
              PROVE  NamedBy(draft, g) # p
          <5>1. <<NamedBy(draft, g), g[2]>> \in given
            OBVIOUS
          <5> QED BY <3>2, <5>1
        <4> QED BY <2>1, <3>2, <4>1
      <3> QED BY <3>1, <3>2
    <2>3. name' = [p \in People |-> name'[p]]
      BY <2>1
    <2> HIDE DEF given, draft
    <2>4. Named(draft)
      BY <1>1, <2>1, <2>2, <2>3 DEF Named
    <2> QED BY <2>4 DEF draft
  <1>2. CASE ~({g[1] : g \in draft.given} \ Voices \subseteq people)
    BY <1>2 DEF WriteNames
  <1> QED BY <1>1, <1>2

\* Who is named: old people or newcomers, each of these with one voice, and nobody twice.
LEMMA NewcomersAre ==
  ASSUME TracksAssumption, PeopleTypeOK, NEW draft, NamingSound(draft),
         Cardinality(People \ made) >= Cardinality(Newcomers(draft))
  PROVE  /\ Founders(Newcomers(draft)) \subseteq People \ made
         /\ \A e \in Founded(Newcomers(draft)) :
              e \in Founders(Newcomers(draft)) \X Voices
         /\ \A e, d \in Founded(Newcomers(draft)) : e[1] = d[1] => e = d
         /\ \A g \in draft.given : g[1] \in Voices => NamedBy(draft, g) \in Founders(Newcomers(draft))
         /\ \A g, h \in draft.given :
              g[1] \in Voices /\ h[1] \in Voices /\ NamedBy(draft, g) = NamedBy(draft, h) => g = h
  <1> DEFINE groups == Newcomers(draft)
             Founder(g) == PersonOf(g, groups)
  <1>1. groups \in SUBSET SUBSET Tracks
    BY DEF Newcomers, Tracks
  <1>2. IsFiniteSet(groups)
    BY <1>1, GroupsFinite
  <1>3. /\ \A g \in groups : \E v \in Voices : g = {v}
        /\ \A g \in draft.given : g[1] \in Voices => {g[1]} \in groups
    BY DEF Newcomers
  <1>4. /\ \A g \in groups : g # {} /\ g \subseteq Tracks
        /\ \A g, h \in groups : g # h => g \cap h = {}
    <2> SUFFICES ASSUME NEW g \in groups, NEW h \in groups
                 PROVE  g # {} /\ g \subseteq Tracks /\ (g # h => g \cap h = {})
      OBVIOUS
    <2>1. PICK v, w : g = {v} /\ h = {w}
      BY <1>3
    <2>2. g \subseteq Tracks
      BY <1>1
    <2> QED BY <2>1, <2>2
  <1>5. Cardinality(groups) <= Cardinality(People \ made)
    <2>1. Cardinality(groups) \in Nat /\ Cardinality(People \ made) \in Nat
      BY <1>2, FS_CardinalityType, FS_Subset DEF TracksAssumption
    <2> QED BY <2>1
  <1> HIDE DEF groups
  <1>6. /\ \A g \in groups : Founder(g) \in People \ made
        /\ \A g, h \in groups : Founder(g) = Founder(h) => g = h
    BY <1>2, <1>4, <1>5, FoundersFit
  <1>7. Founders(groups) = {Founder(g) : g \in groups}
    BY DEF Founders
  <1>8. Founded(groups) = UNION {{Founder(g)} \X g : g \in groups}
    BY DEF Founded
  <1>9. \A g \in draft.given : g[1] \in Voices => NamedBy(draft, g) = Founder({g[1]})
    BY DEF NamedBy, groups
  <1> HIDE DEF Founder
  <1>10. ASSUME NEW e \in Founded(groups)
         PROVE  \E v \in Voices : {v} \in groups /\ e = <<Founder({v}), v>>
    <2>1. PICK g \in groups : e \in {Founder(g)} \X g
      BY <1>8
    <2>2. PICK v \in Voices : g = {v}
      BY <1>3
    <2>3. e = <<Founder({v}), v>>
      BY <2>1, <2>2
    <2> QED BY <2>2, <2>3
  <1>11. ASSUME NEW e \in Founded(groups)
         PROVE  e \in Founders(groups) \X Voices
    <2>1. PICK v \in Voices : {v} \in groups /\ e = <<Founder({v}), v>>
      BY <1>10
    <2>2. Founder({v}) \in Founders(groups)
      BY <1>7, <2>1
    <2> QED BY <2>1, <2>2
  <1>12. \A e, d \in Founded(groups) : e[1] = d[1] => e = d
    <2> SUFFICES ASSUME NEW e \in Founded(groups), NEW d \in Founded(groups), e[1] = d[1]
                 PROVE  e = d
      OBVIOUS
    <2>1. PICK v \in Voices : {v} \in groups /\ e = <<Founder({v}), v>>
      BY <1>10
    <2>2. PICK w \in Voices : {w} \in groups /\ d = <<Founder({w}), w>>
      BY <1>10
    <2>3. {v} = {w}
      BY <1>6, <2>1, <2>2
    <2> QED BY <2>1, <2>2, <2>3
  <1>13. ASSUME NEW g \in draft.given, NEW h \in draft.given,
                g[1] \in Voices, h[1] \in Voices, NamedBy(draft, g) = NamedBy(draft, h)
         PROVE  g = h
    <2>1. {g[1]} = {h[1]}
      BY <1>3, <1>6, <1>9, <1>13
    <2>2. g[1] = h[1]
      BY <2>1
    <2> QED BY <2>2 DEF NamingSound
  <1>14. \A g \in draft.given : g[1] \in Voices => NamedBy(draft, g) \in Founders(groups)
    BY <1>3, <1>7, <1>9
  <1>15. Founders(groups) \subseteq People \ made
    BY <1>6, <1>7
  <1> QED BY <1>11, <1>12, <1>13, <1>14, <1>15 DEF groups

LEMMA NamedSound ==
  ASSUME TracksAssumption, PeopleInv, WriteNames, Named(job["names"])
  PROVE  TablesSound' /\ made' \subseteq People /\ \A j \in Kinds : KindKept(j)
  <1> DEFINE draft == job["names"]
             founders == Founders(Newcomers(draft))
             founded == Founded(Newcomers(draft))
  <1>1. TablesSound /\ JobsSound /\ PeopleTypeOK
    BY InvParts DEF TablesSound
  <1>2. /\ UNCHANGED <<reprocessed, decided, apart, suggested, refused, rejected, acts>>
        /\ job' = [job EXCEPT !["names"] = None] /\ job["names"] # None
    BY DEF WriteNames
  <1>3. NamingSound(draft)
    BY <1>1, <1>2 DEF JobsSound
  <1>4. /\ founders \subseteq People \ made
        /\ \A e \in founded : e \in founders \X Voices
        /\ \A g \in draft.given : g[1] \in Voices => NamedBy(draft, g) \in founders
    <2>1. Cardinality(People \ made) >= Cardinality(Newcomers(draft))
      BY DEF WriteNames, Newcomers, Named
    <2> QED BY <1>1, <1>3, <2>1, NewcomersAre
  <1>5. /\ people' = people \cup founders /\ made' = made \cup founders
        /\ members' = members \cup founded /\ name' = [p \in People |-> name'[p]]
        /\ {g[1] : g \in draft.given} \ Voices \subseteq people
    BY DEF Named
  <1>6. ASSUME NEW p \in People
        PROVE  \/ \E g \in draft.given : NamedBy(draft, g) = p /\ name'[p] = Inferred(g[2])
               \/ name'[p] = None
               \/ name'[p] = name[p] /\ \A g \in draft.given : NamedBy(draft, g) # p
    BY DEF Named
  <1> HIDE DEF founders, founded, draft
  <1>7. \A g \in draft.given :
          /\ g[1] \in Voices \/ (g[1] \in people /\ NamedBy(draft, g) = g[1])
          /\ g = <<g[1], g[2]>> /\ g[2] \in Keys /\ g \notin rejected
    BY <1>3, <1>5 DEF NamedBy, NamingSound
  <1>8. founders \cap people = {} /\ founders \subseteq People
    BY <1>1, <1>4 DEF PeopleTypeOK
  <1>9. PeopleTypeOK'
    <2>1. people' \subseteq made' /\ made' \subseteq People
      BY <1>1, <1>4, <1>5 DEF PeopleTypeOK
    <2>2. members' \subseteq people' \X Tracks
      BY <1>1, <1>4, <1>5, KindsAre, EligibleTracks DEF PeopleTypeOK
    <2>3. /\ suggested' \subseteq people' \X people' /\ refused' \subseteq people' \X people'
          /\ rejected' \subseteq people' \X Keys
      BY <1>1, <1>2, <1>5 DEF PeopleTypeOK
    <2>4. \A g \in draft.given : NamedBy(draft, g) \in people'
      BY <1>4, <1>5, <1>7
    <2>5. ASSUME NEW p \in People
          PROVE  name'[p] \in Names \cup {None} /\ (p \notin people' => name'[p] = None)
      <3>1. \A g \in draft.given : Inferred(g[2]) \in Names
        BY <1>7 DEF Inferred, Names, Statuses
      <3>2. name[p] \in Names \cup {None} /\ (p \notin people' => name[p] = None)
        BY <1>1, <1>5 DEF PeopleTypeOK
      <3>3. CASE \E g \in draft.given : NamedBy(draft, g) = p /\ name'[p] = Inferred(g[2])
        BY <2>4, <3>1, <3>3
      <3>4. CASE name'[p] = None \/ name'[p] = name[p]
        BY <3>2, <3>4
      <3> QED BY <1>6, <3>3, <3>4
    <2>6. /\ \A j \in Kinds : job'[j] = None \/ job'[j] \in MatchPlans
          /\ job'["names"] = None \/ job'["names"] \in NamePlans
      BY <1>1, <1>2, KindsAre DEF PeopleTypeOK, JobsSound
    <2>7. name' \in [People -> Names \cup {None}]
      BY <1>5, <2>5
    <2> QED BY <1>1, <1>2, <2>1, <2>2, <2>3, <2>5, <2>6, <2>7 DEF PeopleTypeOK
  <1>10. FacesSingle'
    BY <1>1, <1>4, <1>5 DEF TablesSound, FacesSingle, TracksAssumption
  <1>11. PlacedHeld' /\ ApartSound' /\ LinksSound'
    BY <1>1, <1>2, <1>5 DEF TablesSound, PlacedHeld, ApartSound, LinksSound
  <1>12. NamesAllowed'
    <2> SUFFICES ASSUME NEW p \in people', name'[p] # None
                 PROVE  <<p, name'[p].key>> \notin rejected
      BY <1>2 DEF NamesAllowed
    <2>1. p \in People
      BY <1>5, <1>8, <1>1 DEF PeopleTypeOK
    <2>2. CASE p \in founders
      BY <1>1, <1>8, <2>2 DEF PeopleTypeOK
    <2>3. ASSUME NEW g \in draft.given, NamedBy(draft, g) = p, name'[p] = Inferred(g[2]), p \in people
          PROVE  <<p, name'[p].key>> \notin rejected
      <3>1. g[1] = p
        BY <1>4, <1>7, <1>8, <2>3
      <3> QED BY <1>7, <2>3, <3>1 DEF Inferred
    <2>4. CASE p \in people /\ name'[p] = name[p]
      BY <1>1, <2>4 DEF TablesSound, NamesAllowed
    <2> QED BY <1>5, <1>6, <2>1, <2>2, <2>3, <2>4
  <1>13. \A j \in Kinds : KindKept(j)
    <2>1. KindKept("face")
      BY <1>2, <1>4, <1>5, KindsAre DEF KindKept, TracksAssumption
    <2>2. KindKept("voice")
      BY <1>2, <1>4, <1>5, KindsAre DEF KindKept
    <2> QED BY <2>1, <2>2, KindsAre
  <1> QED BY <1>9, <1>10, <1>11, <1>12, <1>13 DEF TablesSound, PeopleTypeOK

LEMMA WriteNamesSound ==
  ASSUME TracksAssumption, PeopleInv, WriteNames
  PROVE  PeopleInv'
  <1>1. TablesSound /\ JobsSound /\ PeopleTypeOK
    BY InvParts DEF TablesSound
  <1>2. /\ UNCHANGED <<reprocessed, decided, apart, suggested, refused, rejected, acts>>
        /\ job' = [job EXCEPT !["names"] = None]
    BY DEF WriteNames
  <1>3. /\ job' = [j \in Kinds \cup {"names"} |-> job'[j]] /\ job'["names"] = None
        /\ \A j \in Kinds : job'[j] = job[j]
    BY <1>1, <1>2, KindsAre DEF JobsSound
  <1>4. TablesSound' /\ made' \subseteq People /\ \A j \in Kinds : KindKept(j)
    <2>1. CASE Named(job["names"])
      BY <2>1, NamedSound
    <2>2. CASE UNCHANGED <<people, made, members, name>>
      <3>1. \A j \in Kinds : job'[j] = None \/ job'[j] \in MatchPlans
        BY <1>1, <1>3 DEF PeopleTypeOK
      <3>2. job'["names"] = None \/ job'["names"] \in NamePlans
        BY <1>3
      <3>3. UNCHANGED <<reprocessed, matchVars, nameVars, acts>>
        BY <1>2, <2>2 DEF matchVars, nameVars
      <3> QED BY <1>1, <3>1, <3>2, <3>3, TablesStay
    <2> QED BY <2>1, <2>2, WriteNamesIs
  <1>5. JobsKept
    <2>1. \A j \in Kinds : job'[j] # None => PlanSound(j, job'[j])
      BY <1>1, <1>3 DEF JobsSound
    <2> QED BY <1>3, <1>4, <2>1 DEF JobsKept
  <1> QED BY <1>1, <1>4, <1>5, JobsKeepSound DEF PeopleInv, TablesSound

---------------------------------------------------------------------------
\* Corrections of tracks.
LEMMA CorrectedSound ==
  ASSUME TracksAssumption, PeopleInv, NEW k \in Kinds, NEW selected \in SUBSET TracksOf(k),
         NEW decision \in {"unlink", "placed"}, Correct(k, selected, decision),
         NEW to, to \subseteq people', \A p, q \in to : p = q, decision = "placed" => to # {},
         members' = Moved(selected, to), apart' \subseteq apart \cup Left(selected, k),
         NEW new \in SUBSET (People \ made),
         people' = people \cup new, made' = made \cup new
  PROVE  PeopleInv'
  <1>1. TablesSound /\ JobsSound /\ PeopleTypeOK /\ TracksOf(k) \subseteq Tracks
    BY InvParts, EligibleTracks DEF TablesSound
  <1>2. /\ UNCHANGED <<reprocessed, suggested, refused, name, rejected, job>> /\ job[k] = None
        /\ acts' = acts + 1 /\ acts < MaxActs
        /\ decided' = [t \in Tracks |-> IF t \in selected THEN decision ELSE decided[t]]
    BY DEF Correct, Acts, nameVars
  <1>3. \A p, t : <<p, t>> \in members' <=> IF t \in selected THEN p \in to ELSE <<p, t>> \in members
    BY <1>1 DEF Moved, PeopleTypeOK
  <1>4. \A e \in members' : e \in people' \X Tracks
    <2>1. \A e \in members : e \in people' \X Tracks
      BY <1>1 DEF PeopleTypeOK
    <2>2. to \X selected \subseteq people' \X Tracks
      BY <1>1
    <2>3. \A e \in members' : e \in members \/ e \in to \X selected
      BY DEF Moved
    <2> QED BY <2>1, <2>2, <2>3
  <1>5. \A pair \in Left(selected, k) : \E a, b \in TracksOf(k) : a # b /\ pair = {a, b}
    BY DEF Left
  <1>6. PeopleTypeOK'
    <2>1. people' \subseteq made' /\ made' \subseteq People /\ people \subseteq people'
      BY <1>1 DEF PeopleTypeOK
    <2>2. decided' \in [Tracks -> {"none", "unlink", "placed"}]
      BY <1>1, <1>2 DEF PeopleTypeOK
    <2>3. \A pair \in apart' : \E a, b \in Tracks : a # b /\ pair = {a, b}
      <3>1. \A pair \in Left(selected, k) : \E a, b \in Tracks : a # b /\ pair = {a, b}
        BY <1>1, <1>5
      <3>2. \A pair \in apart : \E a, b \in Tracks : a # b /\ pair = {a, b}
        BY <1>1 DEF PeopleTypeOK
      <3>3. \A pair \in apart' : pair \in apart \/ pair \in Left(selected, k)
        OBVIOUS
      <3> QED BY <3>1, <3>2, <3>3
    <2>4. acts' \in 0..MaxActs
      BY <1>1, <1>2, PeopleBounds DEF PeopleTypeOK
    <2>5. /\ suggested' \subseteq people' \X people' /\ refused' \subseteq people' \X people'
          /\ rejected' \subseteq people' \X Keys /\ \A p \in People \ people' : name'[p] = None
      BY <1>1, <1>2, <2>1 DEF PeopleTypeOK
    <2> QED BY <1>1, <1>2, <1>4, <2>1, <2>2, <2>3, <2>4, <2>5 DEF PeopleTypeOK
  <1>7. FacesSingle'
    BY <1>1, <1>3 DEF TablesSound, FacesSingle
  <1>8. PlacedHeld'
    <2> SUFFICES ASSUME NEW v \in Voices, decided'[v] = "placed"
                 PROVE  \E p \in People : <<p, v>> \in members'
      BY DEF PlacedHeld
    <2>1. v \in Tracks
      BY DEF Tracks
    <2>2. CASE v \in selected
      <3>1. PICK p \in to : TRUE
        BY <1>2, <2>1, <2>2
      <3>2. p \in People
        BY <1>6 DEF PeopleTypeOK
      <3> QED BY <1>3, <2>2, <3>1, <3>2
    <2>3. CASE v \notin selected
      BY <1>1, <1>2, <1>3, <2>1, <2>3 DEF TablesSound, PlacedHeld
    <2> QED BY <2>2, <2>3
  <1>9. ApartSound'
    <2>1. \A pair \in Left(selected, k) : pair \subseteq Faces \/ pair \subseteq Voices
      BY <1>5, KindsAre
    <2> QED BY <1>1, <2>1 DEF TablesSound, ApartSound
  <1>10. LinksSound' /\ NamesAllowed' /\ NamesKept
    <2>1. LinksSound'
      BY <1>1, <1>2 DEF TablesSound, LinksSound
    <2>2. \A p \in new : p \notin people /\ p \in People
      BY <1>1 DEF PeopleTypeOK
    <2>3. NamesAllowed'
      BY <1>1, <1>2, <2>2 DEF TablesSound, NamesAllowed, PeopleTypeOK
    <2>4. NamesKept
      BY <1>1, <1>2, <2>2 DEF NamesKept, PeopleTypeOK
    <2> QED BY <2>1, <2>3, <2>4
  <1>11. ASSUME NEW j \in Kinds, j # k
         PROVE  KindKept(j)
    <2>1. TracksOf(j) \cap TracksOf(k) = {} /\ TracksOf(j) \subseteq Tracks
      BY <1>11, OtherKind, EligibleTracks
    <2>2. \A pair \in Left(selected, k) : ~(pair \subseteq TracksOf(j))
      BY <1>5, <2>1
    <2>3. \A t \in TracksOf(j) : t \notin selected /\ decided'[t] = decided[t]
      BY <1>2, <2>1
    <2> QED BY <1>3, <2>2, <2>3 DEF KindKept
  <1>12. JobsKept
    <2>1. \A j \in Kinds : job'[j] # None => PlanSound(j, job'[j]) /\ j # k
      BY <1>1, <1>2 DEF JobsSound
    <2> QED BY <1>1, <1>2, <1>10, <1>11, <2>1 DEF JobsKept, JobsSound
  <1>13. JobsSound'
    BY <1>1, <1>6, <1>12, JobsKeepSound DEF PeopleTypeOK
  <1> QED BY <1>6, <1>7, <1>8, <1>9, <1>10, <1>13 DEF PeopleInv

LEMMA TrackCorrectionsSound ==
  ASSUME TracksAssumption, PeopleInv, NEW k \in Kinds, Unlink(k) \/ Link(k) \/ Split(k) \/ Confirm(k)
  PROVE  PeopleInv'
  <1>1. PeopleTypeOK /\ people \cup {} = people /\ made \cup {} = made
    BY DEF PeopleInv
  <1>2. CASE Unlink(k)
    <2>1. PICK selected \in SUBSET TracksOf(k) :
            /\ Correct(k, selected, "unlink")
            /\ apart' = apart \cup Left(selected, k)
            /\ members' = Moved(selected, {})
            /\ UNCHANGED <<people, made>>
      BY <1>2 DEF Unlink
    <2>2. people' = people \cup {} /\ made' = made \cup {}
      BY <2>1
    <2> QED BY <2>1, <2>2, CorrectedSound
  <1>3. ASSUME Link(k)
        PROVE  PeopleInv'
    <2>1. PICK selected \in SUBSET TracksOf(k), p \in people :
            PlaceWith(p, k, selected) /\ UNCHANGED <<people, made>>
      BY <1>3 DEF Link
    <2>2. people' = people \cup {} /\ made' = made \cup {} /\ {p} \subseteq people'
      BY <2>1
    <2>3. /\ Correct(k, selected, "placed") /\ members' = Moved(selected, {p})
          /\ apart' \subseteq apart \cup Left(selected, k)
      BY <2>1 DEF PlaceWith
    <2> QED BY <2>2, <2>3, CorrectedSound
  <1>4. ASSUME Split(k)
        PROVE  PeopleInv'
    <2>1. PICK selected \in SUBSET TracksOf(k), p \in Fresh(1) :
            PlaceWith(p, k, selected) /\ people' = people \cup {p} /\ made' = made \cup {p}
      BY <1>4 DEF Split
    <2>2. {p} \subseteq people' /\ {p} \in SUBSET (People \ made)
      BY <2>1 DEF Fresh
    <2>3. /\ Correct(k, selected, "placed") /\ members' = Moved(selected, {p})
          /\ apart' \subseteq apart \cup Left(selected, k)
      BY <2>1 DEF PlaceWith
    <2> QED BY <2>1, <2>2, <2>3, CorrectedSound
  <1>5. ASSUME Confirm(k)
        PROVE  PeopleInv'
    <2>1. PICK p \in people :
            /\ Correct(k, HeldIn(members, p, k), "placed")
            /\ apart' = apart \ Superseded(HeldIn(members, p, k), p, k)
            /\ members' = Moved(HeldIn(members, p, k), {p})
            /\ UNCHANGED <<people, made>>
      BY <1>5 DEF Confirm
    <2>2. people' = people \cup {} /\ made' = made \cup {} /\ {p} \subseteq people'
          /\ HeldIn(members, p, k) \in SUBSET TracksOf(k)
      BY <2>1 DEF HeldIn
    <2>3. apart' \subseteq apart \cup Left(HeldIn(members, p, k), k)
      BY <2>1
    <2> QED BY <2>1, <2>2, <2>3, CorrectedSound
  <1> QED BY <1>2, <1>3, <1>4, <1>5

\* Corrections of links and names, and new runs.
LEMMA RefuseLinkSound ==
  ASSUME TracksAssumption, PeopleInv, RefuseLink
  PROVE  PeopleInv'
  <1>1. TablesSound /\ JobsSound /\ PeopleTypeOK
    BY InvParts DEF TablesSound
  <1>2. PICK l \in suggested : suggested' = suggested \ {l} /\ refused' = refused \cup {l}
    BY DEF RefuseLink
  <1>3. /\ UNCHANGED <<reprocessed, people, made, members, decided, apart, name, rejected, job>>
        /\ acts' = acts + 1 /\ acts < MaxActs
    BY DEF RefuseLink, Acts, nameVars
  <1>4. PeopleTypeOK'
    <2>1. acts' \in 0..MaxActs
      BY <1>1, <1>3, PeopleBounds DEF PeopleTypeOK
    <2>2. suggested' \subseteq people' \X people' /\ refused' \subseteq people' \X people'
      BY <1>1, <1>2, <1>3 DEF PeopleTypeOK
    <2> QED BY <1>1, <1>3, <2>1, <2>2 DEF PeopleTypeOK
  <1>5. FacesSingle' /\ PlacedHeld' /\ ApartSound' /\ NamesAllowed'
    BY <1>1, <1>3 DEF TablesSound, FacesSingle, PlacedHeld, ApartSound, NamesAllowed
  <1>6. LinksSound'
    BY <1>1, <1>2 DEF TablesSound, LinksSound
  <1>7. NamesKept /\ \A k \in Kinds : KindKept(k)
    BY <1>1, <1>3 DEF NamesKept, KindKept, PeopleTypeOK
  <1>8. JobsKept
    BY <1>1, <1>3, <1>7 DEF JobsKept, JobsSound
  <1>9. JobsSound'
    BY <1>1, <1>4, <1>8, JobsKeepSound DEF PeopleTypeOK
  <1> QED BY <1>4, <1>5, <1>6, <1>9 DEF PeopleInv

LEMMA ConfirmLinkSound ==
  ASSUME TracksAssumption, PeopleInv, ConfirmLink
  PROVE  PeopleInv'
  <1>1. TablesSound /\ JobsSound /\ PeopleTypeOK
    BY InvParts DEF TablesSound
  <1>2. PICK l \in suggested :
          /\ people' = people \ {l[2]}
          /\ members' = {e \in members : e[1] # l[2]}
                          \cup ({l[1]} \X HeldIn(members, l[2], "voice"))
          /\ suggested' = {e \in suggested : l[2] \notin {e[1], e[2]}}
          /\ refused' = {e \in refused : l[2] \notin {e[1], e[2]}}
          /\ name' = [name EXCEPT ![l[2]] = None]
          /\ rejected' = {e \in rejected : e[1] # l[2]}
    BY DEF ConfirmLink
  <1>3. /\ UNCHANGED <<reprocessed, made, decided, apart, job>> /\ job["voice"] = None
        /\ acts' = acts + 1 /\ acts < MaxActs
    BY DEF ConfirmLink, Acts
  <1>4. l[1] \in people' /\ l[2] \in people /\ l[2] \in People /\ l[1] \in People
    BY <1>1, <1>2 DEF TablesSound, LinksSound, PeopleTypeOK
  <1>5. \A p, t : <<p, t>> \in members' <=>
          \/ p # l[2] /\ <<p, t>> \in members
          \/ p = l[1] /\ t \in Voices /\ <<l[2], t>> \in members
    BY <1>2, KindsAre DEF HeldIn
  <1>6. name' = [p \in People |-> IF p = l[2] THEN None ELSE name[p]]
    BY <1>1, <1>2, <1>4 DEF PeopleTypeOK
  <1>7. PeopleTypeOK'
    <2>1. acts' \in 0..MaxActs
      BY <1>1, <1>3, PeopleBounds DEF PeopleTypeOK
    <2>2. people' \subseteq made' /\ made' \subseteq People
      BY <1>1, <1>2, <1>3 DEF PeopleTypeOK
    <2>3. members' \subseteq people' \X Tracks
      <3>1. \A e \in members : e[1] # l[2] => e \in people' \X Tracks
        BY <1>1, <1>2 DEF PeopleTypeOK
      <3>2. HeldIn(members, l[2], "voice") \subseteq Tracks
        BY KindsAre DEF HeldIn, Tracks
      <3> QED BY <1>2, <1>4, <3>1, <3>2
    <2>4. suggested' \subseteq people' \X people' /\ refused' \subseteq people' \X people'
      BY <1>1, <1>2 DEF PeopleTypeOK
    <2>5. rejected' \subseteq people' \X Keys
      BY <1>1, <1>2 DEF PeopleTypeOK
    <2>6. name' \in [People -> Names \cup {None}] /\ \A p \in People \ people' : name'[p] = None
      BY <1>1, <1>2, <1>6 DEF PeopleTypeOK
    <2> QED BY <1>1, <1>3, <2>1, <2>2, <2>3, <2>4, <2>5, <2>6 DEF PeopleTypeOK
  <1>8. FacesSingle'
    <2>1. \A p, f : f \in Faces /\ <<p, f>> \in members' => <<p, f>> \in members
      BY <1>5 DEF TracksAssumption
    <2> QED BY <1>1, <2>1 DEF TablesSound, FacesSingle
  <1>9. PlacedHeld'
    <2> SUFFICES ASSUME NEW v \in Voices, decided[v] = "placed"
                 PROVE  \E p \in People : <<p, v>> \in members'
      BY <1>3 DEF PlacedHeld
    <2>1. PICK p \in People : <<p, v>> \in members
      BY <1>1 DEF TablesSound, PlacedHeld
    <2> QED BY <1>4, <1>5, <2>1
  <1>10. ApartSound' /\ LinksSound'
    BY <1>1, <1>2, <1>3 DEF TablesSound, ApartSound, LinksSound
  <1>11. NamesAllowed' /\ NamesKept
    <2>1. \A p \in people' : p \in People /\ p \in people /\ name'[p] = name[p]
      BY <1>1, <1>2, <1>6 DEF PeopleTypeOK
    <2> QED BY <1>1, <1>2, <1>3, <2>1 DEF TablesSound, NamesAllowed, NamesKept
  <1>12. KindKept("face")
    BY <1>3, <1>5, KindsAre DEF KindKept, TracksAssumption
  <1>13. JobsKept
    BY <1>1, <1>3, <1>11, <1>12, KindsAre DEF JobsKept, JobsSound
  <1>14. JobsSound'
    BY <1>1, <1>7, <1>13, JobsKeepSound DEF PeopleTypeOK
  <1> QED BY <1>7, <1>8, <1>9, <1>10, <1>11, <1>14 DEF PeopleInv

LEMMA NameCorrectionsSound ==
  ASSUME TracksAssumption, PeopleInv, NEW p \in people,
         ConfirmName(p) \/ RejectName(p) \/ \E k \in Keys : ReplaceName(p, k)
  PROVE  PeopleInv'
  <1>1. TablesSound /\ JobsSound /\ PeopleTypeOK /\ p \in People
    BY InvParts DEF TablesSound, PeopleTypeOK
  <1>2. /\ job["names"] = None /\ acts' = acts + 1 /\ acts < MaxActs
        /\ UNCHANGED <<reprocessed, people, made, members, decided, apart, suggested, refused, job>>
    <2>1. CorrectName(p)
      BY DEF ConfirmName, RejectName, ReplaceName
    <2> QED BY <2>1 DEF CorrectName, Acts, matchVars
  <1>3. name[p] \in Names \cup {None} /\ Reject(p) \subseteq people \X Keys
    <2>1. name[p] \in Names \cup {None}
      BY <1>1 DEF PeopleTypeOK
    <2>2. name[p] # None => name[p].key \in Keys
      BY <2>1 DEF Names
    <2> QED BY <2>1, <2>2 DEF Reject
  <1>4. /\ name' = [name EXCEPT ![p] = name'[p]] /\ name'[p] \in Names \cup {None}
        /\ rejected' \subseteq people \X Keys
        /\ \A e \in rejected' : e \in rejected \/ e[1] = p
        /\ name'[p] # None => <<p, name'[p].key>> \notin rejected'
    <2>1. CASE ConfirmName(p)
      <3>1. name[p] # None /\ name' = [name EXCEPT ![p].status = "confirmed"] /\ rejected' = rejected
        BY <2>1 DEF ConfirmName
      <3>2. name'[p] = [name[p] EXCEPT !.status = "confirmed"] /\ name[p] \in Names
        BY <1>1, <1>3, <3>1 DEF PeopleTypeOK
      <3>3. name' = [name EXCEPT ![p] = name'[p]]
        BY <1>1, <3>1 DEF PeopleTypeOK
      <3>4. name'[p] \in Names /\ name'[p].key = name[p].key
        BY <3>2 DEF Names, Statuses
      <3> QED BY <1>1, <3>1, <3>3, <3>4 DEF TablesSound, NamesAllowed, PeopleTypeOK
    <2>2. CASE RejectName(p)
      <3>1. name' = [name EXCEPT ![p] = None] /\ rejected' = rejected \cup Reject(p)
        BY <2>2 DEF RejectName
      <3>2. name'[p] = None
        BY <1>1, <3>1 DEF PeopleTypeOK
      <3> QED BY <1>1, <1>3, <3>1, <3>2 DEF PeopleTypeOK, Reject
    <2>3. ASSUME NEW k \in Keys, ReplaceName(p, k)
          PROVE  /\ name' = [name EXCEPT ![p] = name'[p]] /\ name'[p] \in Names \cup {None}
                 /\ rejected' \subseteq people \X Keys
                 /\ \A e \in rejected' : e \in rejected \/ e[1] = p
                 /\ name'[p] # None => <<p, name'[p].key>> \notin rejected'
      <3>1. /\ name' = [name EXCEPT ![p] = [key |-> k, status |-> "user_provided"]]
            /\ rejected' = (rejected \cup Reject(p)) \ {<<p, k>>}
        BY <2>3 DEF ReplaceName
      <3>2. name'[p] = [key |-> k, status |-> "user_provided"] /\ name'[p] \in Names
        BY <1>1, <3>1 DEF PeopleTypeOK, Names, Statuses
      <3> QED BY <1>1, <1>3, <3>1, <3>2 DEF PeopleTypeOK, Reject
    <2> QED BY <2>1, <2>2, <2>3
  <1>5. \A q \in People : q # p => name'[q] = name[q]
    BY <1>1, <1>4 DEF PeopleTypeOK
  <1>6. PeopleTypeOK'
    <2>1. acts' \in 0..MaxActs
      BY <1>1, <1>2, PeopleBounds DEF PeopleTypeOK
    <2>2. name' \in [People -> Names \cup {None}] /\ \A q \in People \ people : name'[q] = None
      BY <1>1, <1>4, <1>5 DEF PeopleTypeOK
    <2> QED BY <1>1, <1>2, <1>4, <2>1, <2>2 DEF PeopleTypeOK
  <1>7. FacesSingle' /\ PlacedHeld' /\ ApartSound' /\ LinksSound'
    BY <1>1, <1>2 DEF TablesSound, FacesSingle, PlacedHeld, ApartSound, LinksSound
  <1>8. NamesAllowed'
    <2> SUFFICES ASSUME NEW q \in people, name'[q] # None
                 PROVE  <<q, name'[q].key>> \notin rejected'
      BY <1>2 DEF NamesAllowed
    <2>1. CASE q # p
      BY <1>1, <1>4, <1>5, <2>1 DEF TablesSound, NamesAllowed, PeopleTypeOK
    <2> QED BY <1>4, <2>1
  <1>9. \A k \in Kinds : KindKept(k)
    BY <1>2 DEF KindKept
  <1>10. JobsKept
    BY <1>1, <1>2, <1>9 DEF JobsKept, JobsSound
  <1>11. JobsSound'
    BY <1>1, <1>6, <1>10, JobsKeepSound DEF PeopleTypeOK
  <1> QED BY <1>6, <1>7, <1>8, <1>11 DEF PeopleInv

LEMMA ReprocessSound ==
  ASSUME TracksAssumption, PeopleInv, Reprocess
  PROVE  PeopleInv'
  <1>1. TablesSound /\ JobsSound /\ PeopleTypeOK
    BY InvParts DEF TablesSound
  <1>2. /\ acts' = acts + 1 /\ acts < MaxActs /\ reprocessed' \subseteq Slots
        /\ UNCHANGED <<people, made, members, decided, apart, suggested, refused, name, rejected, job>>
    BY <1>1 DEF Reprocess, Acts, matchVars, nameVars, Slots, PeopleTypeOK
  <1>3. PeopleTypeOK'
    <2>1. acts' \in 0..MaxActs
      BY <1>1, <1>2, PeopleBounds DEF PeopleTypeOK
    <2> QED BY <1>1, <1>2, <2>1 DEF PeopleTypeOK
  <1>4. FacesSingle' /\ PlacedHeld' /\ ApartSound' /\ LinksSound' /\ NamesAllowed'
    BY <1>1, <1>2 DEF TablesSound, FacesSingle, PlacedHeld, ApartSound, LinksSound, NamesAllowed
  <1>5. NamesKept /\ \A k \in Kinds : KindKept(k)
    BY <1>1, <1>2 DEF NamesKept, KindKept, PeopleTypeOK
  <1>6. JobsKept
    BY <1>1, <1>2, <1>5 DEF JobsKept, JobsSound
  <1>7. JobsSound'
    BY <1>1, <1>3, <1>6, JobsKeepSound DEF PeopleTypeOK
  <1> QED BY <1>3, <1>4, <1>7 DEF PeopleInv

---------------------------------------------------------------------------
LEMMA PeopleStart == PeopleInit => PeopleInv
  <1> SUFFICES ASSUME PeopleInit
               PROVE  PeopleInv
    OBVIOUS
  <1>1. \A k \in Kinds : job[k] = None
    BY DEF PeopleInit
  <1>2. job["names"] = None /\ job = [j \in Kinds \cup {"names"} |-> job[j]]
    BY DEF PeopleInit
  <1>3. PeopleTypeOK
    BY <1>1, <1>2, PeopleBounds DEF PeopleInit, PeopleTypeOK
  <1>4. FacesSingle /\ PlacedHeld /\ ApartSound /\ LinksSound /\ NamesAllowed
    BY DEF PeopleInit, FacesSingle, PlacedHeld, ApartSound, LinksSound, NamesAllowed, Tracks
  <1> QED BY <1>1, <1>2, <1>3, <1>4 DEF PeopleInv, JobsSound

LEMMA NothingHappens ==
  ASSUME PeopleInv, UNCHANGED peopleVars
  PROVE  PeopleInv'
  <1>1. UNCHANGED <<reprocessed, people, made, members, decided, apart, suggested, refused,
                    name, rejected, job, acts>>
    BY DEF peopleVars, matchVars, nameVars
  <1>2. PeopleTypeOK'
    BY <1>1 DEF PeopleInv, PeopleTypeOK
  <1>3. FacesSingle' /\ PlacedHeld' /\ ApartSound' /\ LinksSound' /\ NamesAllowed'
    BY <1>1 DEF PeopleInv, FacesSingle, PlacedHeld, ApartSound, LinksSound, NamesAllowed
  <1>4. NamesKept /\ \A k \in Kinds : KindKept(k)
    BY <1>1 DEF PeopleInv, PeopleTypeOK, NamesKept, KindKept
  <1>5. JobsKept
    BY <1>1, <1>4 DEF PeopleInv, JobsKept, JobsSound
  <1>6. PeopleTypeOK /\ made' \subseteq People
    BY <1>1 DEF PeopleInv, PeopleTypeOK
  <1>7. JobsSound'
    BY <1>5, <1>6, TracksAssumption, JobsKeepSound
  <1> QED BY <1>2, <1>3, <1>7 DEF PeopleInv

LEMMA PeopleSteps == PeopleInv /\ [PeopleNext]_peopleVars => PeopleInv'
  <1> SUFFICES ASSUME PeopleInv, [PeopleNext]_peopleVars
               PROVE  PeopleInv'
    OBVIOUS
  <1> USE TracksAssumption
  <1>1. CASE Match
    BY <1>1, ReadMatchesSound, WriteMatchesSound DEF Match
  <1>2. CASE ReadNames
    BY <1>2, ReadNamesSound
  <1>3. CASE WriteNames
    BY <1>3, WriteNamesSound
  <1>4. CASE Correction
    BY <1>4, TrackCorrectionsSound, RefuseLinkSound, ConfirmLinkSound, NameCorrectionsSound
    DEF Correction
  <1>5. CASE Reprocess
    BY <1>5, ReprocessSound
  <1>6. CASE UNCHANGED peopleVars
    BY <1>6, NothingHappens
  <1> QED BY <1>1, <1>2, <1>3, <1>4, <1>5, <1>6 DEF PeopleNext

(* The tables of people and what is planned for them are sound in every    *)
(* state: no correction, of whatever kind, spoils a plan that a matching   *)
(* or an inference has yet to write (src/face_matching.rs,                 *)
(* src/voice_matching.rs, src/person_names.rs).                            *)
THEOREM PeopleAlwaysSound == PeopleSpec => []PeopleInv
  BY PeopleStart, PeopleSteps, PTL DEF PeopleSpec

---------------------------------------------------------------------------
LEMMA HoldersAre ==
  ASSUME PeopleTypeOK
  PROVE  \A p, t : p \in Holders(t) <=> <<p, t>> \in members
  BY DEF Holders, PeopleTypeOK

LEMMA FaceHolders ==
  ASSUME PeopleInv, NEW f \in Faces
  PROVE  Holders(f) = {} \/ \E p \in people : Holders(f) = {p}
  <1>1. \A p, q \in Holders(f) : p = q
    BY HoldersAre DEF PeopleInv, FacesSingle, Holders, PeopleTypeOK
  <1>2. ASSUME NEW p \in Holders(f)
        PROVE  p \in people /\ Holders(f) = {p}
    BY <1>1 DEF Holders
  <1>3. CASE Holders(f) # {}
    <2>1. PICK p : p \in Holders(f)
      BY <1>3
    <2> QED BY <1>2, <2>1
  <1>4. CASE Holders(f) = {}
    BY <1>4
  <1> QED BY <1>3, <1>4

LEMMA OneOrNone ==
  ASSUME NEW S, S = {} \/ \E p : S = {p}
  PROVE  Cardinality(S) <= 1 /\ Cardinality(S) = IF S = {} THEN 0 ELSE 1
  <1>1. CASE S = {}
    <2>1. Cardinality(S) = 0
      BY <1>1, FS_EmptySet
    <2> QED BY <1>1, <2>1
  <1>2. ASSUME NEW p, S = {p}
        PROVE  Cardinality(S) = 1 /\ S # {}
    <2>1. Cardinality({p}) = 1
      BY FS_Singleton
    <2> QED BY <1>2, <2>1
  <1> QED BY <1>1, <1>2

LEMMA ShownIs ==
  ASSUME PeopleTypeOK, NEW k \in Kinds, NEW t \in TracksOf(k)
  PROVE  {g.person : g \in {h \in MatchReview(k).groups : t \in h.tracks}} = Holders(t)
  <1> DEFINE Group(p) == [person |-> p, tracks |-> HeldIn(members, p, k)]
  <1>1. MatchReview(k).groups = {Group(p) : p \in {q \in people : HeldIn(members, q, k) # {}}}
    BY DEF MatchReview
  <1>2. \A p : Group(p).person = p /\ (t \in Group(p).tracks <=> <<p, t>> \in members)
    BY DEF HeldIn
  <1> HIDE DEF Group
  <1>3. ASSUME NEW p \in Holders(t)
        PROVE  p \in {g.person : g \in {h \in MatchReview(k).groups : t \in h.tracks}}
    <2>1. p \in people /\ t \in HeldIn(members, p, k)
      BY DEF Holders, HeldIn
    <2>2. Group(p) \in MatchReview(k).groups /\ t \in Group(p).tracks
      BY <1>1, <1>2, <2>1 DEF Holders
    <2> QED BY <1>2, <2>2
  <1>4. ASSUME NEW g \in MatchReview(k).groups, t \in g.tracks
        PROVE  g.person \in Holders(t)
    BY <1>1, <1>2, <1>4 DEF Holders
  <1> QED BY <1>3, <1>4

LEMMA OpenIs ==
  ASSUME NEW k \in Kinds
  PROVE  {u.track : u \in MatchReview(k).unresolved}
           = {t \in TracksOf(k) : Current(t) /\ Holders(t) = {}}
  <1> DEFINE Listed(t) == [track |-> t, rejected |-> decided[t] # "none"]
             open == {t \in TracksOf(k) : Current(t) /\ Holders(t) = {}}
  <1>1. MatchReview(k).unresolved = {Listed(t) : t \in open}
    BY DEF MatchReview, Unresolved
  <1>2. \A t : Listed(t).track = t
    OBVIOUS
  <1> HIDE DEF Listed, open
  <1>3. {u.track : u \in MatchReview(k).unresolved} = open
    BY <1>1, <1>2
  <1> QED BY <1>3 DEF open

LEMMA ReviewsComplete == PeopleInv => ReviewsAreComplete
  <1> SUFFICES ASSUME PeopleInv
               PROVE  ReviewsAreComplete
    OBVIOUS
  <1> DEFINE faces == MatchReview("face")
             voices == MatchReview("voice")
             Review(k) == IF k = "face" THEN faces ELSE voices
             ShownIn(k, t) == {g.person : g \in {h \in Review(k).groups : t \in h.tracks}}
             openFaces == {u.track : u \in faces.unresolved}
             openVoices == {u.track : u \in voices.unresolved}
  <1>1. PeopleTypeOK
    BY DEF PeopleInv
  <1>2. /\ \A f \in Faces : ShownIn("face", f) = Holders(f)
        /\ \A v \in Voices : ShownIn("voice", v) = Holders(v)
    BY <1>1, ShownIs, KindsAre
  <1>3. /\ openFaces = {f \in Faces : Current(f) /\ Holders(f) = {}}
        /\ openVoices = {v \in Voices : Current(v) /\ Holders(v) = {}}
    BY OpenIs, KindsAre
  <1>4. ASSUME NEW f \in Faces, Current(f)
        PROVE  Cardinality(Holders(f)) = IF f \in openFaces THEN 0 ELSE 1
    BY <1>3, <1>4, FaceHolders, OneOrNone
  <1>5. \A v \in Voices : Current(v) => (Holders(v) = {}) = (v \in openVoices)
    BY <1>3
  <1>6. openVoices \subseteq Eligible("voice")
    <2>1. \A v \in Voices : Holders(v) = {} => decided[v] # "placed"
      BY <1>1, HoldersAre DEF PeopleInv, PlacedHeld
    <2> QED BY <1>3, <2>1, KindsAre DEF Eligible
  <1>7. \A f \in openFaces \ Eligible("face") : decided[f] = "placed"
    BY <1>3, KindsAre DEF Eligible
  <1>8. ASSUME NEW p \in people, name[p] # None
        PROVE  name[p].key \notin {e[2] : e \in {r \in rejected : r[1] = p}}
    BY <1>1, <1>8 DEF PeopleInv, NamesAllowed, PeopleTypeOK
  <1>9. \A p \in people : LET shown == NameReview(p) IN
          shown.name # None => shown.name.key \notin shown.rejected /\ shown.candidates = {}
    BY <1>8 DEF NameReview, UnresolvedName
  <1>10. \A p \in people : LET o == Occurrences(p) IN
          /\ o.shown = {f \in Faces : p \in Holders(f)}
          /\ o.heard = {v \in Voices : p \in Holders(v)}
    BY DEF Occurrences
  <1> HIDE DEF faces, voices, ShownIn, openFaces, openVoices
  <1>11. \A p \in people : LET o == Occurrences(p) IN
          /\ o.shown = {f \in Faces : p \in ShownIn("face", f)}
          /\ o.heard = {v \in Voices : p \in ShownIn("voice", v)}
    BY <1>2, <1>10
  <1>12. \A f \in Faces : Current(f) =>
           Cardinality(ShownIn("face", f)) = IF f \in openFaces THEN 0 ELSE 1
    BY <1>2, <1>4
  <1>13. \A v \in Voices : Current(v) => (ShownIn("voice", v) = {}) = (v \in openVoices)
    BY <1>2, <1>5
  <1> USE DEF faces, voices, ShownIn, openFaces, openVoices
  <1> QED BY <1>6, <1>7, <1>9, <1>11, <1>12, <1>13 DEF ReviewsAreComplete

(* A face belongs to one person at most, only people who exist hold        *)
(* anything, and the reviews show what there is (review_face_matches,      *)
(* review_voice_matches, review_person_names).                             *)
THEOREM FacesHaveOnePerson == PeopleSpec => []OneFacePerson
  <1>1. PeopleInv => OneFacePerson
    <2> SUFFICES ASSUME PeopleInv
                 PROVE  OneFacePerson
      OBVIOUS
    <2>1. \A f \in Faces : Cardinality(Holders(f)) <= 1
      BY FaceHolders, OneOrNone
    <2> QED BY <2>1, ReviewsComplete DEF OneFacePerson, PeopleInv
  <1> QED BY <1>1, PeopleAlwaysSound, PTL

---------------------------------------------------------------------------
\* A step of a matching or an inference; a correction and a new run count.
LEMMA AutomaticSteps ==
  ASSUME PeopleTypeOK, PeopleNext, Automatic
  PROVE  (\E k \in Kinds : ReadMatches(k) \/ WriteMatches(k)) \/ ReadNames \/ WriteNames
  <1>1. acts' # acts + 1
    BY PeopleBounds DEF PeopleTypeOK, Automatic
  <1>2. ~Correction /\ ~Reprocess
    BY <1>1 DEF Correction, Reprocess, Unlink, Link, Split, Confirm, PlaceWith, Correct, RefuseLink,
      ConfirmLink, ConfirmName, RejectName, ReplaceName, CorrectName, Acts
  <1> QED BY <1>2 DEF PeopleNext, Match

\* What is placed is not up for a matching.
LEMMA PlacedStays ==
  ASSUME PeopleInv, PeopleTypeOK', PeopleNext, Automatic, NEW t \in Tracks, decided[t] = "placed"
  PROVE  /\ Holders(t) \subseteq Holders(t)'
         /\ job'["names"] = job["names"] => Holders(t)' = Holders(t)
  <1>1. TablesSound /\ JobsSound /\ PeopleTypeOK
    BY InvParts DEF TablesSound
  <1>2. /\ \A p : p \in Holders(t) <=> <<p, t>> \in members
        /\ \A p : p \in Holders(t)' <=> <<p, t>> \in members'
    BY <1>1, HoldersAre DEF Holders, PeopleTypeOK
  <1>3. ASSUME members' = members
        PROVE  Holders(t)' = Holders(t)
    BY <1>2, <1>3
  <1>4. ASSUME NEW k \in Kinds, ReadMatches(k)
        PROVE  Holders(t)' = Holders(t)
    BY <1>3, <1>4 DEF ReadMatches, matchVars
  <1>5. ASSUME NEW k \in Kinds, WriteMatches(k)
        PROVE  Holders(t)' = Holders(t)
    <2>1. CASE UNCHANGED <<people, made, members, suggested>>
      BY <1>3, <2>1
    <2>2. ASSUME Wrote(k, job[k])
          PROVE  Holders(t)' = Holders(t)
      <3>1. AssignedSound(k, job[k])
        BY <1>1, <1>5, AssignedIs, TracksAssumption DEF JobsSound, WriteMatches
      <3>2. \A p : <<p, t>> \notin Assigned(job[k])
        BY <3>1 DEF AssignedSound, Spare
      <3>3. \A p : <<p, t>> \in members' <=> <<p, t>> \in members
        BY <2>2, <3>2 DEF Wrote
      <3> QED BY <1>2, <3>3
    <2> QED BY <1>1, <1>5, <2>1, <2>2, WriteMatchesIs
  <1>6. CASE ReadNames
    BY <1>3, <1>6 DEF ReadNames, matchVars
  <1>7. CASE WriteNames
    <2>1. job["names"] # None /\ job'["names"] = None
      BY <1>1, <1>7 DEF WriteNames, JobsSound
    <2>2. members \subseteq members'
      BY <1>7, WriteNamesIs DEF Named
    <2> QED BY <1>2, <2>1, <2>2
  <1> QED BY <1>1, <1>4, <1>5, <1>6, <1>7, AutomaticSteps

LEMMA SameKind ==
  ASSUME ApartSound, NEW k \in Kinds, NEW t, NEW u, {t, u} \in apart,
         t \in TracksOf(k) \/ u \in TracksOf(k)
  PROVE  t \in TracksOf(k) /\ u \in TracksOf(k)
  <1>1. {t, u} \subseteq Faces \/ {t, u} \subseteq Voices
    BY DEF ApartSound
  <1> QED BY <1>1, KindsAre, TracksAssumption DEF TracksAssumption

\* What a matching brings together no researcher keeps apart.
LEMMA MatchedTogether ==
  ASSUME PeopleInv, NEW k \in Kinds, Wrote(k, job[k]), AssignedSound(k, job[k]),
         NEW t \in Tracks, NEW u \in Tracks, t # u, {t, u} \in apart,
         NEW p, <<p, t>> \in members', <<p, u>> \in members'
  PROVE  <<p, t>> \in members
  <1> SUFFICES ASSUME <<p, t>> \notin members
               PROVE  FALSE
    OBVIOUS
  <1> DEFINE draft == job[k]
  <1>1. PeopleTypeOK /\ ApartSound
    BY DEF PeopleInv
  <1>2. <<p, t>> \in Assigned(draft) /\ (<<p, u>> \in members \/ <<p, u>> \in Assigned(draft))
    BY DEF Wrote
  <1> HIDE DEF draft
  <1>3. /\ t \in TracksOf(k) /\ p \in People
        /\ <<p, t>> \in draft.joins \/ p \in Founders(draft.groups)
        /\ Founders(draft.groups) \subseteq People \ made /\ JoinsSound(k, draft.joins)
    BY <1>2 DEF AssignedSound, draft
  <1>4. u \in TracksOf(k)
    BY <1>1, <1>3, SameKind
  <1>5. CASE <<p, t>> \in draft.joins
    <2>1. p \in made /\ p \notin Founders(draft.groups)
      BY <1>3, <1>5 DEF JoinsSound
    <2>2. <<p, u>> \in members \cup draft.joins
      BY <1>2, <2>1 DEF AssignedSound, draft
    <2>3. u \in HeldIn(members \cup draft.joins, p, k)
      BY <1>4, <2>2 DEF HeldIn
    <2> QED BY <1>3, <1>5, <2>3 DEF JoinsSound
  <1>6. CASE p \in Founders(draft.groups)
    <2>1. <<p, u>> \in Assigned(draft)
      BY <1>1, <1>2, <1>3, <1>6 DEF PeopleTypeOK
    <2> QED BY <1>2, <1>6, <2>1 DEF AssignedSound, draft
  <1> QED BY <1>3, <1>5, <1>6

\* A correction that moves tracks brings them together with those of their new person, and
\* ends what kept them apart.
LEMMA PlacedTogether ==
  ASSUME PeopleInv, NEW k \in Kinds, NEW selected \in SUBSET TracksOf(k), NEW p0,
         members' = Moved(selected, {p0}), apart' \cap Superseded(selected, p0, k) = {},
         NEW t \in Tracks, NEW u \in Tracks, {t, u} \in apart,
         NEW p, <<p, t>> \in members', <<p, u>> \in members'
  PROVE  (<<p, t>> \in members /\ <<p, u>> \in members) \/ {t, u} \notin apart'
  <1>1. \A s : \/ <<p, s>> \in members' => <<p, s>> \in members
               \/ p = p0 /\ s \in selected
    BY DEF Moved
  <1>2. ASSUME p = p0, t \in selected \/ u \in selected
        PROVE  {t, u} \notin apart'
    <2>1. t \in TracksOf(k) /\ u \in TracksOf(k)
      BY <1>2, SameKind DEF PeopleInv
    <2>2. \A s \in {t, u} : s \in selected \/ s \in HeldIn(members, p0, k)
      BY <1>2, <2>1 DEF Moved, HeldIn
    <2>3. {t, u} \in Superseded(selected, p0, k)
      BY <1>2, <2>2 DEF Superseded
    <2> QED BY <2>3
  <1> QED BY <1>1, <1>2

LEMMA ApartStays ==
  ASSUME PeopleInv, PeopleNext, people \subseteq people',
         NEW t \in Tracks, NEW u \in Tracks, t # u, {t, u} \in apart,
         NEW p, <<p, t>> \in members', <<p, u>> \in members'
  PROVE  (<<p, t>> \in members /\ <<p, u>> \in members) \/ {t, u} \notin apart'
  <1> DEFINE Before == <<p, t>> \in members /\ <<p, u>> \in members
  <1>1. TablesSound /\ JobsSound /\ PeopleTypeOK
    BY InvParts DEF TablesSound
  <1>2. CASE members' \subseteq members
    BY <1>2
  <1> HIDE DEF Before
  <1>3. ASSUME NEW k \in Kinds, WriteMatches(k)
        PROVE  Before
    <2>1. AssignedSound(k, job[k])
      BY <1>1, <1>3, AssignedIs, TracksAssumption DEF JobsSound, WriteMatches
    <2>2. CASE Wrote(k, job[k])
      <3>1. {u, t} \in apart
        OBVIOUS
      <3> QED BY <2>1, <2>2, <3>1, MatchedTogether DEF Before
    <2> QED BY <1>1, <1>3, <2>2, WriteMatchesIs DEF Before
  <1>4. CASE WriteNames
    <2>1. CASE UNCHANGED members
      BY <2>1 DEF Before
    <2>2. CASE Named(job["names"])
      <3> DEFINE founded == Founded(Newcomers(job["names"]))
                 founders == Founders(Newcomers(job["names"]))
      <3>1. /\ founders \subseteq People \ made /\ \A e \in founded : e \in founders \X Voices
            /\ \A e, d \in founded : e[1] = d[1] => e = d
        <4>1. NamingSound(job["names"])
          BY <1>1, <1>4 DEF JobsSound, WriteNames
        <4>2. Cardinality(People \ made) >= Cardinality(Newcomers(job["names"]))
          BY <1>4 DEF WriteNames, Newcomers
        <4> QED BY <1>1, <4>1, <4>2, NewcomersAre, TracksAssumption
      <3>2. members' = members \cup founded
        BY <2>2 DEF Named
      <3> HIDE DEF founded, founders
      <3>3. \A e \in members : e[1] \notin founders
        BY <1>1, <3>1 DEF PeopleTypeOK
      <3>4. CASE p \in founders
        <4>1. <<p, t>> \in founded /\ <<p, u>> \in founded
          BY <3>2, <3>3, <3>4
        <4> QED BY <3>1, <4>1
      <3>5. CASE p \notin founders
        BY <3>1, <3>2, <3>5 DEF Before
      <3> QED BY <3>4, <3>5
    <2> QED BY <1>4, <2>1, <2>2, WriteNamesIs
  <1>5. ASSUME NEW k \in Kinds, Unlink(k) \/ Link(k) \/ Split(k) \/ Confirm(k)
        PROVE  Before \/ {t, u} \notin apart'
    <2>1. CASE Unlink(k)
      BY <1>2, <2>1 DEF Unlink, Moved, Before
    <2>2. ASSUME NEW q, NEW selected \in SUBSET TracksOf(k), PlaceWith(q, k, selected)
          PROVE  Before \/ {t, u} \notin apart'
      <3>1. members' = Moved(selected, {q}) /\ apart' \cap Superseded(selected, q, k) = {}
        BY <2>2 DEF PlaceWith
      <3> QED BY <3>1, PlacedTogether DEF Before
    <2>3. CASE Confirm(k)
      <3>1. PICK q \in people :
              /\ apart' = apart \ Superseded(HeldIn(members, q, k), q, k)
              /\ members' = Moved(HeldIn(members, q, k), {q})
        BY <2>3 DEF Confirm
      <3>2. HeldIn(members, q, k) \in SUBSET TracksOf(k)
        BY DEF HeldIn
      <3>3. apart' \cap Superseded(HeldIn(members, q, k), q, k) = {}
        BY <3>1
      <3> QED BY <3>1, <3>2, <3>3, PlacedTogether DEF Before
    <2> QED BY <1>5, <2>1, <2>2, <2>3 DEF Link, Split
  <1>6. ~ConfirmLink
    BY <1>1 DEF ConfirmLink, PeopleTypeOK
  <1>7. ASSUME \/ \E k \in Kinds : ReadMatches(k)
               \/ ReadNames \/ RefuseLink \/ Reprocess
               \/ \E q \in people : \/ ConfirmName(q) \/ RejectName(q)
                                    \/ \E k \in Keys : ReplaceName(q, k)
        PROVE  Before
    <2>1. members' = members
      BY <1>7 DEF ReadMatches, ReadNames, RefuseLink, Reprocess, ConfirmName, RejectName,
        ReplaceName, CorrectName, matchVars
    <2> QED BY <2>1 DEF Before
  <1> QED BY <1>3, <1>4, <1>5, <1>6, <1>7 DEF PeopleNext, Match, Correction, Before

(* What a researcher placed no matching, naming or newer run takes away,   *)
(* and tracks kept apart come together only when researchers place them    *)
(* together (match_corpus_faces, match_corpus_voices, infer_person_names   *)
(* and the corrections).                                                   *)
THEOREM ResearchersPlacementsStand == PeopleSpec => PlacementsStand
  <1>1. PeopleInv /\ PeopleTypeOK' /\ PeopleNext =>
          /\ Automatic => \A t \in Tracks : decided[t] = "placed" =>
               /\ Holders(t) \subseteq Holders(t)'
               /\ job'["names"] = job["names"] => Holders(t)' = Holders(t)
          /\ people \subseteq people' =>
               \A t, u \in Tracks : {t, u} \in apart /\ Together(t, u)' /\ t # u =>
                 Together(t, u) \/ {t, u} \notin apart'
    <2> SUFFICES ASSUME PeopleInv, PeopleTypeOK', PeopleNext
                 PROVE  /\ Automatic => \A t \in Tracks : decided[t] = "placed" =>
                             /\ Holders(t) \subseteq Holders(t)'
                             /\ job'["names"] = job["names"] => Holders(t)' = Holders(t)
                        /\ people \subseteq people' =>
                             \A t, u \in Tracks : {t, u} \in apart /\ Together(t, u)' /\ t # u =>
                               Together(t, u) \/ {t, u} \notin apart'
      OBVIOUS
    <2>1. ASSUME people \subseteq people', NEW t \in Tracks, NEW u \in Tracks,
                 {t, u} \in apart, Together(t, u)', t # u
          PROVE  Together(t, u) \/ {t, u} \notin apart'
      <3>1. PICK p : <<p, t>> \in members' /\ <<p, u>> \in members'
        BY <2>1 DEF Together, Holders
      <3>2. ASSUME <<p, t>> \in members, <<p, u>> \in members
            PROVE  Together(t, u)
        BY <3>2, HoldersAre DEF Together, PeopleInv
      <3> QED BY <2>1, <3>1, <3>2, ApartStays
    <2> QED BY <2>1, PlacedStays
  <1>2. PeopleInv => PeopleTypeOK
    BY DEF PeopleInv
  <1> QED BY <1>1, <1>2, PeopleAlwaysSound, PTL DEF PeopleSpec, PlacementsStand

---------------------------------------------------------------------------
\* Only who is merged into somebody else loses a refused link.
LEMMA RefusedStays ==
  ASSUME PeopleInv, PeopleNext, NEW l \in refused, l \in people' \X people'
  PROVE  l \in refused'
  <1>1. CASE ConfirmLink
    <2>1. PICK m \in suggested :
            /\ people' = people \ {m[2]}
            /\ refused' = {e \in refused : m[2] \notin {e[1], e[2]}}
      BY <1>1 DEF ConfirmLink
    <2>2. l[1] \in people' /\ l[2] \in people'
      OBVIOUS
    <2> QED BY <2>1, <2>2
  <1>2. CASE RefuseLink
    BY <1>2 DEF RefuseLink
  <1>3. CASE UNCHANGED refused
    BY <1>3
  <1>4. ConfirmLink \/ RefuseLink \/ UNCHANGED refused
    BY DEF PeopleNext, Match, ReadMatches, WriteMatches, ReadNames, WriteNames, Correction, Unlink,
      Link, Split, Confirm, PlaceWith, Correct, ConfirmName, RejectName, ReplaceName, CorrectName,
      Reprocess, matchVars
  <1> QED BY <1>1, <1>2, <1>3, <1>4

\* Who an inference names: nobody protected, whoever else has a name keeps it by right.
LEMMA NamedAfresh ==
  ASSUME PeopleInv, WriteNames, Named(job["names"]), NEW p \in People
  PROVE  \/ /\ ~(p \in people /\ Protected(p))
            /\ \E g \in job["names"].given : NamedBy(job["names"], g) = p /\ name'[p] = Inferred(g[2])
         \/ name'[p] = None /\ ~(p \in people /\ Protected(p))
         \/ /\ p \in people /\ Protected(p) /\ name'[p] = name[p]
            /\ \A g \in job["names"].given : g[2] # name[p].key
  <1> DEFINE draft == job["names"]
  <1>1. PeopleTypeOK /\ NamingSound(draft)
    BY DEF PeopleInv, JobsSound, WriteNames
  <1>2. /\ Founders(Newcomers(draft)) \subseteq People \ made
        /\ \A g \in draft.given :
             g[1] \in Voices => NamedBy(draft, g) \in Founders(Newcomers(draft))
    <2>1. Cardinality(People \ made) >= Cardinality(Newcomers(draft))
      BY DEF WriteNames, Newcomers
    <2> QED BY <1>1, <2>1, NewcomersAre, TracksAssumption
  <1>3. \/ \E g \in draft.given : NamedBy(draft, g) = p /\ name'[p] = Inferred(g[2])
        \/ name'[p] = IF p \in draft.seen THEN None ELSE name[p]
    BY DEF Named
  <1> HIDE DEF draft
  <1>4. ASSUME p \in people, Protected(p)
        PROVE  /\ p \notin draft.seen /\ \A g \in draft.given : g[2] # name[p].key
               /\ \A g \in draft.given : NamedBy(draft, g) # p
    <2>1. p \notin draft.seen /\ \A g \in draft.given : g[1] # p /\ g[2] # name[p].key
      BY <1>1, <1>4 DEF NamingSound, Protected
    <2>2. \A g \in draft.given : NamedBy(draft, g) # p
      BY <1>1, <1>2, <1>4, <2>1 DEF NamedBy, PeopleTypeOK
    <2> QED BY <2>1, <2>2
  <1>5. ASSUME ~(p \in people /\ Protected(p))
        PROVE  p \in draft.seen \/ name[p] = None
    BY <1>1, <1>5 DEF NamingSound, PeopleTypeOK, Protected
  <1> QED BY <1>3, <1>4, <1>5 DEF draft

LEMMA InferencesAreWritten ==
  ASSUME PeopleInv, PeopleNext, NamesAreWritten
  PROVE  WriteNames /\ Named(job["names"])
  <1>1. job = [j \in Kinds \cup {"names"} |-> job[j]] /\ "names" \notin Kinds
    BY KindsAre DEF PeopleInv, JobsSound
  <1>2. ASSUME NEW k \in Kinds, ReadMatches(k) \/ WriteMatches(k)
        PROVE  job'["names"] = job["names"]
    BY <1>1, <1>2 DEF ReadMatches, WriteMatches
  <1>3. WriteNames
    BY <1>2 DEF NamesAreWritten, PeopleNext, Match, ReadNames, Correction, Unlink, Link, Split, Confirm,
      PlaceWith, Correct, RefuseLink, ConfirmLink, ConfirmName, RejectName, ReplaceName, CorrectName,
      Reprocess
  <1> QED BY <1>3, WriteNamesIs DEF NamesAreWritten

LEMMA NamedApart ==
  ASSUME PeopleInv, PeopleInv', PeopleNext, NamesAreWritten,
         NEW p \in people', NEW q \in people', p # q, name'[p] # None, name'[q] # None,
         name'[p].status = "inferred"
  PROVE  name'[p].key # name'[q].key
  <1> DEFINE draft == job["names"]
  <1>1. WriteNames /\ Named(draft)
    BY InferencesAreWritten
  <1>2. p \in People /\ q \in People /\ NamingSound(draft)
    BY <1>1 DEF PeopleInv, PeopleTypeOK, JobsSound, WriteNames
  <1>3. PICK g \in draft.given : NamedBy(draft, g) = p /\ name'[p] = Inferred(g[2])
    BY <1>1, <1>2, NamedAfresh DEF Protected
  <1>4. CASE \E h \in draft.given : NamedBy(draft, h) = q /\ name'[q] = Inferred(h[2])
    <2>1. PICK h \in draft.given : NamedBy(draft, h) = q /\ name'[q] = Inferred(h[2])
      BY <1>4
    <2>2. g[2] # h[2]
      BY <1>2, <1>3, <2>1 DEF NamingSound
    <2> QED BY <1>3, <2>1, <2>2 DEF Inferred
  <1>5. CASE name'[q] = name[q] /\ \A h \in draft.given : h[2] # name[q].key
    BY <1>3, <1>5 DEF Inferred
  <1> QED BY <1>1, <1>2, <1>4, <1>5, NamedAfresh

LEMMA ProtectedNamesStay ==
  ASSUME PeopleInv, PeopleNext, Automatic, NEW p \in people, Protected(p)
  PROVE  name'[p] = name[p]
  <1>1. PeopleTypeOK /\ p \in People
    BY DEF PeopleInv, PeopleTypeOK
  <1>2. CASE WriteNames
    BY <1>1, <1>2, NamedAfresh, WriteNamesIs
  <1>3. CASE UNCHANGED name
    BY <1>3
  <1>4. WriteNames \/ UNCHANGED name
    BY <1>1, AutomaticSteps DEF ReadMatches, WriteMatches, ReadNames, nameVars
  <1> QED BY <1>2, <1>3, <1>4

(* Rejected links and names stay rejected, confirmed names stay, and an    *)
(* inference leaves nobody else with a name it gave                        *)
(* (review_face_voice_link, correct_person_name, infer_person_names).      *)
THEOREM ResearchersReviewsStand == PeopleSpec => ReviewsStand
  <1>1. ASSUME PeopleInv, PeopleInv', PeopleNext
        PROVE  /\ \A l \in refused : l \in people' \X people' => l \in refused' \ suggested'
               /\ \A p \in people : name'[p] # None /\ name'[p].status = "inferred" =>
                     <<p, name'[p].key>> \notin rejected'
               /\ Automatic => \A p \in people : Protected(p) => name'[p] = name[p]
               /\ NamesAreWritten =>
                    \A p, q \in people' :
                      /\ p # q /\ name'[p] # None /\ name'[q] # None
                      /\ name'[p].status = "inferred"
                      => name'[p].key # name'[q].key
    <2>1. \A l \in refused : l \in people' \X people' => l \in refused' \ suggested'
      BY <1>1, RefusedStays DEF PeopleInv, LinksSound
    <2>2. \A p \in people : name'[p] # None => <<p, name'[p].key>> \notin rejected'
      BY <1>1 DEF PeopleInv, PeopleTypeOK, NamesAllowed
    <2> QED BY <1>1, <2>1, <2>2, ProtectedNamesStay, NamedApart
  <1> QED BY <1>1, PeopleAlwaysSound, PTL DEF PeopleSpec, ReviewsStand
=============================================================================
