--------------------------- MODULE MediaLifecycle ---------------------------
(***************************************************************************)
(* The life of one remote video's downloaded source media: the runs that   *)
(* acquire it, read it and release it (src/media_acquisition.rs,           *)
(* src/detectors.rs, src/media_extracts.rs, src/ingest/core.rs) and the    *)
(* attempts they record (src/detector_status.rs).                          *)
(*                                                                         *)
(* A run is a plan run (run_video_plan), an ingest with ASR (ingest_item), *)
(* a media extract, or a workflow's processing of a video (process_video): *)
(* a plan run that keeps the media, an extract cut from it, and a release. *)
(* Runs belong to different processes (the server, a command line), share  *)
(* the video's row and its media directory, and stop at any step in a      *)
(* crash.  Postgres drops a stopped process's advisory locks: the shared   *)
(* lease, the exclusive release lock, the stage locks.                     *)
(*                                                                         *)
(* Bytes are numbered: every download yields bytes of its own, named by    *)
(* the order of the downloads.  Runs, downloads and crashes are bounded.   *)
(***************************************************************************)
EXTENDS MediaNeed, FiniteSets

CONSTANTS
  Runs,          \* the runs; each starts at most once
  Settings,      \* what is asked for: see Setting
  ExtractNeed,   \* what an extract cuts from
  AudioPaths, VideoPaths,  \* where a download may land (stem, id, extension)
  MaxDownloads,
  None           \* SQL NULL and "no such thing"

Stages == {"asr", "voices", "scenes", "faces", "ocr"}
Paths == AudioPaths \cup VideoPaths
Contents == 1..MaxDownloads
Files == [path : Paths, content : Contents]

\* kind: what each run is; selected: the stages a plan run runs; enabled: the
\* enabled media stages of the plans containing the video; refresh, keep: the
\* runs asked to refresh, or to keep the media; start: what may be stored
\* already; overlapping: may a run start while another is under way?
IsSetting(s) ==
  /\ s.kind \in [Runs -> {"plan", "ingest", "extract", "process"}]
  /\ s.enabled \subseteq Stages
  /\ s.selected \in [Runs -> SUBSET s.enabled]
  /\ s.refresh \subseteq Runs /\ s.keep \subseteq Runs
  /\ s.start \in {"absent", "audio", "video"}
  /\ s.overlapping \in BOOLEAN /\ s.maxCrashes \in Nat

ASSUME LifecycleAssumption ==
  /\ \A s \in Settings : IsSetting(s)
  /\ ExtractNeed.kind \in {"audio", "video"}
  /\ MaxDownloads \in Nat \ {0}

\* What a run may acquire, and the records of that (MediaAcquisition).
Needs == {Nothing, Audio, Video(DetailHeight), ExtractNeed}
           \cup {ForDetectors(D) : D \in SUBSET Stages}
Records == [need : Needs, path : Paths, content : Contents, deleted : BOOLEAN,
            fingerprint : BOOLEAN, superseded : SUBSET Files]

\* None is nothing that a row, a lock or a run may name.
ASSUME NoneAssumption == None \notin Paths \cup Files \cup Records \cup Stages \cup Runs

VARIABLES
  setting,    \* the runs of this behaviour; never changes
  row,        \* videos: local_video_path and media_acquisition
  files,      \* the bytes at each path of the media directory; 0 if no file
  downloads,  \* downloads made: the number of the newest bytes
  stored,     \* per stage, its stored outputs: the input they name (label)
              \* and the bytes they were computed from (actual)
  attempt,    \* per stage, its newest detector_attempts row
  lock,       \* per stage, the run that holds its advisory lock
  run,        \* per run, where it is and what it has read
  crashes

vars == <<setting, row, files, downloads, stored, attempt, lock, run, crashes>>

Kind == setting.kind
Selected == setting.selected
Enabled == setting.enabled
Refresh == setting.refresh
Keep == setting.keep
Overlapping == setting.overlapping

-----------------------------------------------------------------------------
(***************************************************************************)
(* What a run reads from the row and the media directory.                  *)
(***************************************************************************)

\* released: the record of deleted media that no file has replaced.
IsReleased == row.path = None /\ row.record # None /\ row.record.deleted

\* The file at local_video_path, if there is one.
FileNow ==
  IF row.path # None /\ files[row.path] # 0
    THEN [path |-> row.path, content |-> files[row.path]] ELSE None

\* source_identity: hashed from the file, else as the released record says.
SourceIdentity ==
  IF FileNow # None THEN FileNow
  ELSE IF IsReleased THEN [path |-> row.record.path, content |-> row.record.content]
  ELSE None

\* media_serves.  Sizes stand in for bytes: a file of other bytes in the
\* recorded place is told apart by its length.
Serves(need) ==
  \/ need = Nothing
  \/ /\ row.record # None
     /\ IsCoveredBy(need, row.record.need)
     /\ row.path = row.record.path
     /\ files[row.path] = row.record.content
  \/ row.record = None /\ FileNow # None

\* existing_output: has the stage stored output of the video's present media?
\* The transcript names path and bytes; scenes of released media need the
\* fingerprint taken when the file was deleted.
ExistingOutput(d) ==
  LET source == SourceIdentity IN
  /\ source # None
  /\ d = "scenes" /\ FileNow = None => row.record.fingerprint
  /\ \E o \in stored[d] :
       /\ o.label.content = source.content
       /\ d = "asr" => o.label.path = source.path

\* stage_identity's input: what BeginStage notes and FinishStage compares.
StageInput(d) == IF d = "ocr" THEN SourceIdentity ELSE FileNow

\* The state video_status derives: a running row without its lock held was
\* interrupted.
StageState(d) ==
  IF attempt[d].state = "running" /\ lock[d] # attempt[d].run
    THEN "interrupted" ELSE attempt[d].state

\* Mutant of StillNeeded: only the attempts are asked, not the stored output.
StillNeededByState ==
  \E d \in Enabled : StageState(d) \in {"failed", "interrupted", "running"}

\* media_still_needed, over the enabled media stages.
StillNeeded ==
  \E d \in Enabled :
    \/ StageState(d) \in {"failed", "interrupted", "running"}
    \/ ~ExistingOutput(d)

-----------------------------------------------------------------------------
(***************************************************************************)
(* Locks.  A run holds its lease from TakeLease to the end of its work and *)
(* the exclusive lock while it releases.                                   *)
(***************************************************************************)
Reading == {"decide", "serve", "ensure", "download", "record", "stages", "open",
            "analyze", "persist", "finish", "transcribe", "commit", "settle", "cut"}
Releasing == {"releasing", "removed"}
Leased(r) == run[r].pc \in Reading
NobodyReleases == \A q \in Runs : run[q].pc \notin Releasing

\* What a run is doing: a workflow's run is a plan run first, then an extract,
\* and last a release.
Work(r) == IF Kind[r] = "process" THEN run[r].part ELSE Kind[r]

\* keep_media, which a workflow asks of its plan run, for the extracts to come.
Keeps(r) == r \in Keep \/ (Kind[r] = "process" /\ Work(r) = "plan")

Idle == [pc |-> "idle", part |-> "plan", todo |-> {}, media |-> {}, failed |-> {}, stage |-> None,
         need |-> Nothing, previous |-> None, got |-> None, mediaError |-> FALSE,
         seen |-> None, actual |-> 0, outcome |-> "none", acquired |-> FALSE, next |-> None]

\* The run moves to pc, changing the fields of `change`.
Move(r, pc, change) ==
  run' = [run EXCEPT ![r] = [f \in DOMAIN @ |->
            IF f = "pc" THEN pc ELSE IF f \in DOMAIN change THEN change[f] ELSE @[f]]]

\* The run, or its part, ends; what it had read is gone.
EndPart(r, pc, part) == run' = [run EXCEPT ![r] = [Idle EXCEPT !.pc = pc, !.part = part]]
End(r, pc) == EndPart(r, pc, run[r].part)

\* The release is over: after its plan run a workflow goes on to its extract.
Released(r) ==
  IF Kind[r] = "process" /\ Work(r) = "plan" THEN EndPart(r, "lease", "extract")
  ELSE End(r, "done")

-----------------------------------------------------------------------------
(***************************************************************************)
(* A plan run: run_video_plan up to the acquisition.                       *)
(***************************************************************************)
MayStart(r) ==
  /\ run[r].pc = "idle"
  /\ Overlapping \/ \A q \in Runs : run[q].pc \in {"idle", "done", "crashed"}

\* The status is read before the lease is taken.
ReadStatus(r) ==
  /\ MayStart(r) /\ Kind[r] \in {"plan", "process"}
  /\ Move(r, "lease", [failed |-> {d \in Enabled : StageState(d) \in {"failed", "interrupted"}}])
  /\ UNCHANGED <<setting, row, files, downloads, stored, attempt, lock, crashes>>

\* lease: waits while a release is deleting the media.
TakeLease(r) ==
  /\ IF Kind[r] \in {"plan", "process"} THEN run[r].pc = "lease" ELSE MayStart(r)
  /\ NobodyReleases
  /\ CASE Work(r) = "plan"    -> Move(r, "decide", <<>>)
       [] Work(r) = "ingest"  -> Move(r, "stages", [todo |-> {"asr"}])
       [] Work(r) = "extract" -> Move(r, "serve", [need |-> ExtractNeed])
  /\ UNCHANGED <<setting, row, files, downloads, stored, attempt, lock, crashes>>

\* Which stages run, and which of them need media.  Faces always runs, for
\* corpus matching, but reuses current observations without media.
Decide(r) ==
  LET current == {d \in Selected[r] :
                    ExistingOutput(d) /\ r \notin Refresh /\ d \notin run[r].failed}
      media == Selected[r] \ current
  IN  /\ run[r].pc = "decide"
      /\ Move(r, "serve", [todo  |-> media \cup (current \cap {"faces"}),
                           media |-> media,
                           need  |-> ForDetectors(media)])
      /\ UNCHANGED <<setting, row, files, downloads, stored, attempt, lock, crashes>>

\* media_serves.  For a plan, a new download reruns the reused stages as well;
\* an extract remembers whether it is the one that acquires.
CheckServes(r) ==
  LET acquires == run[r].need # Nothing /\ ~Serves(run[r].need) IN
  /\ run[r].pc = "serve"
  /\ IF Work(r) = "extract" THEN Move(r, "ensure", [acquired |-> acquires])
     ELSE IF acquires
       THEN Move(r, "ensure", [todo |-> Selected[r], media |-> Selected[r],
                               need |-> ForDetectors(Selected[r])])
     ELSE Move(r, "ensure", <<>>)
  /\ UNCHANGED <<setting, row, files, downloads, stored, attempt, lock, crashes>>

-----------------------------------------------------------------------------
(***************************************************************************)
(* ensure_media, for the plan as a whole, for the ASR stage and for an     *)
(* extract.  `path` is what it returned; None after an error.              *)
(***************************************************************************)
Ensured(r, path) ==
  IF run[r].stage = "asr"
    THEN Move(r, IF path = None THEN "commit" ELSE "transcribe",
              [got |-> path, previous |-> None,
               outcome |-> IF path = None THEN "failed" ELSE "none"])
  ELSE IF Work(r) = "extract"
    THEN Move(r, "cut", [got |-> path, previous |-> None])
  ELSE Move(r, "stages", [got |-> None, previous |-> None,
                          mediaError |-> path = None /\ run[r].need # Nothing])

\* Reads the row; the record it finds is the one it will supersede.
EnsureMedia(r) ==
  /\ run[r].pc = "ensure"
  /\ IF Serves(run[r].need) THEN Ensured(r, row.path)
     ELSE Move(r, "download", [previous |-> row.record])
  /\ UNCHANGED <<setting, row, files, downloads, stored, attempt, lock, crashes>>

\* download: probed and hashed in a temporary directory, then renamed into
\* place over whatever is there.
Download(r) ==
  /\ run[r].pc = "download" /\ downloads < MaxDownloads
  /\ \E p \in IF run[r].need = Audio THEN AudioPaths ELSE VideoPaths :
       /\ files' = [files EXCEPT ![p] = downloads + 1]
       /\ downloads' = downloads + 1
       /\ Move(r, "record", [got |-> [path |-> p, content |-> downloads + 1]])
  /\ UNCHANGED <<setting, row, stored, attempt, lock, crashes>>

DownloadFails(r) ==
  /\ run[r].pc = "download"
  /\ Ensured(r, None)
  /\ UNCHANGED <<setting, row, files, downloads, stored, attempt, lock, crashes>>

\* Mutant of Superseded: the history is dropped.
SupersededForgotten(previous, path) == {}

\* The acquisitions the new one supersedes, as the run read them before its
\* download; what it overwrote is marked deleted.
Superseded(previous, path) ==
  IF previous = None THEN {}
  ELSE {e \in previous.superseded \cup
             (IF previous.deleted THEN {}
              ELSE {[path |-> previous.path, content |-> previous.content]}) : e.path # path}

RecordMedia(r) ==
  LET got == run[r].got IN
  /\ run[r].pc = "record"
  /\ row' = [path |-> got.path,
             record |-> [need |-> run[r].need, path |-> got.path, content |-> got.content,
                         deleted |-> FALSE, fingerprint |-> FALSE,
                         superseded |-> Superseded(run[r].previous, got.path)]]
  /\ Ensured(r, got.path)
  /\ UNCHANGED <<setting, files, downloads, stored, attempt, lock, crashes>>

-----------------------------------------------------------------------------
(***************************************************************************)
(* The stages of a run, one after the other (run_stage, Attempt).          *)
(***************************************************************************)
StageOrder == <<"asr", "scenes", "faces", "voices", "ocr">>

NextStage(r) ==
  LET place(d) == CHOOSE i \in DOMAIN StageOrder : StageOrder[i] = d
  IN  CHOOSE d \in run[r].todo : \A e \in run[r].todo : place(d) <= place(e)

\* The run is through with its stage.
StageDone(r) ==
  IF Kind[r] = "ingest"
    THEN IF run[r].outcome = "completed" THEN End(r, "release") ELSE End(r, "done")
  ELSE Move(r, "stages", [todo |-> run[r].todo \ {run[r].stage}, stage |-> None, got |-> None,
                          seen |-> None, actual |-> 0, outcome |-> "none"])

\* Attempt::begin: the stage lock, or an error and no row.
BeginStage(r) ==
  LET d == NextStage(r) IN
  /\ run[r].pc = "stages" /\ run[r].todo # {}
  /\ IF lock[d] # None
       THEN /\ IF Kind[r] = "ingest" THEN End(r, "done")
               ELSE Move(r, "stages", [todo |-> run[r].todo \ {d}])
            /\ UNCHANGED <<setting, attempt, lock>>
     ELSE /\ lock' = [lock EXCEPT ![d] = r]
          /\ attempt' = [attempt EXCEPT ![d] = [state |-> "running", run |-> r]]
          /\ CASE d = "asr" ->
                    Move(r, "ensure", [stage |-> d, need |-> Audio])
               [] d # "asr" /\ run[r].mediaError /\ d \in run[r].media ->
                    Move(r, "finish", [stage |-> d, outcome |-> "failed"])
               [] OTHER ->
                    Move(r, "open", [stage |-> d, seen |-> StageInput(d)])
  /\ UNCHANGED <<setting, row, files, downloads, stored, crashes>>

\* The producer fingerprints its input.  Faces and OCR reuse output of released
\* media; voices needs the file to reuse; scenes always analyzes.
OpenInput(r) ==
  LET d == run[r].stage
      input == IF d \in {"faces", "ocr"} THEN SourceIdentity ELSE FileNow
      reuse == /\ d # "scenes" /\ r \notin Refresh /\ input # None
               /\ \E o \in stored[d] : o.label.content = input.content
  IN  /\ run[r].pc = "open"
      /\ IF reuse THEN Move(r, "finish", [outcome |-> "completed"])
         ELSE IF FileNow = None THEN Move(r, "finish", [outcome |-> "failed"])
         ELSE Move(r, "analyze", [got |-> FileNow])
      /\ UNCHANGED <<setting, row, files, downloads, stored, attempt, lock, crashes>>

\* Inference reopens the path: it sees the bytes that are there then.
Analyze(r) ==
  /\ run[r].pc = "analyze" /\ files[run[r].got.path] # 0
  /\ Move(r, "persist", [actual |-> files[run[r].got.path]])
  /\ UNCHANGED <<setting, row, files, downloads, stored, attempt, lock, crashes>>

StageFails(r) ==
  /\ run[r].pc = "analyze"
  /\ Move(r, "finish", [outcome |-> "failed"])
  /\ UNCHANGED <<setting, row, files, downloads, stored, attempt, lock, crashes>>

\* The bytes are hashed again before the output is stored under their hash.
Unchanged(r) == files[run[r].got.path] = run[r].got.content

Persist(r) ==
  LET d == run[r].stage
      output == [label |-> run[r].got, actual |-> run[r].actual]
  IN  /\ run[r].pc = "persist"
      /\ IF Unchanged(r)
           THEN /\ stored' = [stored EXCEPT ![d] = {o \in @ : o.label.content # output.label.content}
                                                  \cup {output}]
                /\ Move(r, "finish", [outcome |-> "completed"])
           ELSE /\ Move(r, "finish", [outcome |-> "failed"])
                /\ UNCHANGED stored
      /\ UNCHANGED <<setting, row, files, downloads, attempt, lock, crashes>>

\* Faces and voices keep their observations when the matching of the corpus or
\* the inference of names fails after them.
MatchingFails(r) ==
  /\ run[r].pc = "finish" /\ run[r].stage \in {"faces", "voices"}
  /\ run[r].outcome = "completed"
  /\ Move(r, "finish", [outcome |-> "failed"])
  /\ UNCHANGED <<setting, row, files, downloads, stored, attempt, lock, crashes>>

\* stage_identity again, then Attempt::finish.
FinishStage(r) ==
  LET d == run[r].stage
      outcome == IF run[r].outcome = "completed" /\ StageInput(d) # run[r].seen
                   THEN "failed" ELSE run[r].outcome
  IN  /\ run[r].pc = "finish"
      /\ attempt' = [attempt EXCEPT ![d] = [state |-> outcome, run |-> r]]
      /\ lock' = [lock EXCEPT ![d] = None]
      /\ StageDone(r)
      /\ UNCHANGED <<setting, row, files, downloads, stored, crashes>>

-----------------------------------------------------------------------------
(***************************************************************************)
(* The ASR stage: ingest_item, called by an ingest or by a plan's stage.   *)
(***************************************************************************)
Transcribe(r) ==
  /\ run[r].pc = "transcribe"
  /\ \E outcome \in {"completed", "skipped", "failed"} :
       /\ outcome # "failed" => files[run[r].got] # 0
       /\ Move(r, "commit", [outcome |-> outcome,
                             actual  |-> IF outcome = "completed" THEN files[run[r].got] ELSE 0])
  /\ UNCHANGED <<setting, row, files, downloads, stored, attempt, lock, crashes>>

\* upsert_video keeps the path it knows when it is given none.
WithPath(path) == IF path = None THEN row ELSE [row EXCEPT !.path = path]

\* The transaction that stores the transcript; its input is hashed now.
CommitTranscript(r) ==
  LET path == run[r].got
      output == [label |-> [path |-> path, content |-> files[path]], actual |-> run[r].actual]
  IN  /\ run[r].pc = "commit"
      /\ run[r].outcome = "completed" => files[path] # 0
      /\ row' = WithPath(path)
      /\ stored' = IF run[r].outcome = "completed" THEN [stored EXCEPT !["asr"] = {output}]
                   ELSE stored
      /\ Move(r, "settle", [actual |-> 0])
      /\ UNCHANGED <<setting, files, downloads, attempt, lock, crashes>>

\* The attempt, then an ingest's own lease ends.  Inside a plan the ingest's
\* release does nothing: the plan still holds its lease.
SettleTranscript(r) ==
  /\ run[r].pc = "settle"
  /\ attempt' = [attempt EXCEPT !["asr"] = [state |-> run[r].outcome, run |-> r]]
  /\ lock' = [lock EXCEPT !["asr"] = None]
  /\ StageDone(r)
  /\ UNCHANGED <<setting, row, files, downloads, stored, crashes>>

-----------------------------------------------------------------------------
(***************************************************************************)
(* An extract cuts from the media; the end of every run's work.            *)
(***************************************************************************)
\* run_extract keeps the media and reports an extract's failure at most; an extract of
\* its own releases what it acquired.
ExtractDone(r) ==
  IF Kind[r] = "process" THEN EndPart(r, "release", "last")
  ELSE IF run[r].acquired /\ ~Keeps(r) THEN End(r, "release") ELSE End(r, "done")

Cut(r) ==
  /\ run[r].pc = "cut"
  /\ ExtractDone(r)
  /\ UNCHANGED <<setting, row, files, downloads, stored, attempt, lock, crashes>>

\* An extract whose manifest is there already, or that is refused, cuts nothing.
SkipExtract(r) ==
  /\ run[r].pc = "lease" /\ Work(r) = "extract"
  /\ ExtractDone(r)
  /\ UNCHANGED <<setting, row, files, downloads, stored, attempt, lock, crashes>>

EndLease(r) ==
  /\ run[r].pc = "stages" /\ run[r].todo = {} /\ Work(r) = "plan"
  /\ End(r, "release")
  /\ UNCHANGED <<setting, row, files, downloads, stored, attempt, lock, crashes>>

-----------------------------------------------------------------------------
(***************************************************************************)
(* Release: try_release_lock, then ReleaseLock::finish.                    *)
(***************************************************************************)
\* Mutants of NobodyReads: a run waiting to release counts as a reader; the
\* lock is taken shared.
NobodyReadsOrWaits == \A q \in Runs : ~Leased(q) /\ run[q].pc # "release"
NobodyReadsAssumed == TRUE
NobodyReads == \A q \in Runs : ~Leased(q)

TryRelease(r) ==
  /\ run[r].pc = "release"
  /\ IF NobodyReads /\ NobodyReleases THEN Move(r, "releasing", <<>>) ELSE Released(r)
  /\ UNCHANGED <<setting, row, files, downloads, stored, attempt, lock, crashes>>

\* Is there a reason to delete the current media?  An extract does not ask.
MayDelete(r) == Work(r) = "extract" \/ (~Keeps(r) /\ ~StillNeeded)

\* remove_acquired_file deletes recorded bytes only.
Holds(file) == files[file.path] = file.content
Absent(file) == files[file.path] = 0

\* The superseded files that go now: not what the record itself names, and
\* only while they are the recorded bytes.
SupersededToDelete == {e \in row.record.superseded : e.path # row.record.path /\ Holds(e)}

\* Those that were overwritten or are gone already are only marked.
SupersededToMark ==
  SupersededToDelete \cup {e \in row.record.superseded : e.path = row.record.path \/ Absent(e)}

DeletesCurrent(r) ==
  MayDelete(r) /\ ~row.record.deleted /\ row.path = row.record.path

\* The deletions; the record follows when they are done.
RemoveFiles(r) ==
  LET current == DeletesCurrent(r) /\ Holds(row.record)
      cleared == DeletesCurrent(r) /\ (Holds(row.record) \/ Absent(row.record))
      gone == {e.path : e \in SupersededToDelete} \cup (IF current THEN {row.path} ELSE {})
      record == [row.record EXCEPT
                   !.superseded = @ \ SupersededToMark,
                   !.deleted = @ \/ cleared,
                   !.fingerprint = @ \/ current]
  IN  /\ run[r].pc = "releasing" /\ row.record # None
      /\ files' = [p \in Paths |-> IF p \in gone THEN 0 ELSE files[p]]
      /\ Move(r, "removed", [next |-> [path   |-> IF cleared THEN None ELSE row.path,
                                       record |-> record]])
      /\ UNCHANGED <<setting, row, downloads, stored, attempt, lock, crashes>>

NothingToRelease(r) ==
  /\ run[r].pc = "releasing" /\ row.record = None
  /\ Released(r)
  /\ UNCHANGED <<setting, row, files, downloads, stored, attempt, lock, crashes>>

CommitRelease(r) ==
  /\ run[r].pc = "removed"
  /\ row' = run[r].next
  /\ Released(r)
  /\ UNCHANGED <<setting, files, downloads, stored, attempt, lock, crashes>>

-----------------------------------------------------------------------------
\* The run's process stops: its locks are dropped, its rows stay.
Crash(r) ==
  /\ crashes < setting.maxCrashes /\ run[r].pc \notin {"idle", "done", "crashed"}
  /\ crashes' = crashes + 1
  /\ End(r, "crashed")
  /\ lock' = [d \in Stages |-> IF lock[d] = r THEN None ELSE lock[d]]
  /\ UNCHANGED <<setting, row, files, downloads, stored, attempt>>

\* Acquired before: a file of one need, no stage has run on it.
Acquired(need, p) ==
  [path |-> p, record |-> [need |-> need, path |-> p, content |-> 1, deleted |-> FALSE,
                           fingerprint |-> FALSE, superseded |-> {}]]

Init ==
  /\ setting \in Settings
  /\ \/ /\ setting.start = "absent" /\ downloads = 0
        /\ row = [path |-> None, record |-> None]
     \/ /\ setting.start = "audio" /\ downloads = 1
        /\ \E p \in AudioPaths : row = Acquired(Audio, p)
     \/ /\ setting.start = "video" /\ downloads = 1
        /\ \E p \in VideoPaths : row = Acquired(Video(DetailHeight), p)
  /\ files = [p \in Paths |-> IF p = row.path THEN downloads ELSE 0]
  /\ stored = [d \in Stages |-> {}]
  /\ attempt = [d \in Stages |-> [state |-> "none", run |-> None]]
  /\ lock = [d \in Stages |-> None]
  /\ run = [r \in Runs |-> Idle]
  /\ crashes = 0

Next ==
  \E r \in Runs :
    \/ ReadStatus(r) \/ TakeLease(r) \/ Decide(r) \/ CheckServes(r)
    \/ EnsureMedia(r) \/ Download(r) \/ DownloadFails(r) \/ RecordMedia(r)
    \/ BeginStage(r) \/ OpenInput(r) \/ Analyze(r) \/ StageFails(r) \/ Persist(r)
    \/ MatchingFails(r) \/ FinishStage(r)
    \/ Transcribe(r) \/ CommitTranscript(r) \/ SettleTranscript(r)
    \/ Cut(r) \/ SkipExtract(r) \/ EndLease(r)
    \/ TryRelease(r) \/ RemoveFiles(r) \/ NothingToRelease(r) \/ CommitRelease(r)
    \/ Crash(r)

Spec == Init /\ [][Next]_vars

-----------------------------------------------------------------------------
(***************************************************************************)
(* Properties.                                                             *)
(***************************************************************************)
\* Types of the row, the directory, the outputs and the attempts; a stage lock
\* is held by a run that is in that stage and has its attempt running.
MediaTypeOK ==
  /\ row \in [path : Paths \cup {None}, record : Records \cup {None}]
  /\ files \in [Paths -> 0..MaxDownloads] /\ downloads \in 0..MaxDownloads
  /\ \A d \in Stages :
       /\ \A o \in stored[d] : o.label \in Files /\ o.actual \in Contents
       /\ attempt[d].state \in {"none", "running", "completed", "skipped", "failed"}
       /\ lock[d] # None =>
            /\ Leased(lock[d]) /\ run[lock[d]].stage = d
            /\ attempt[d] = [state |-> "running", run |-> lock[d]]
  /\ crashes \in 0..setting.maxCrashes /\ setting \in Settings

Over(r) == run[r].pc \in {"idle", "done"}

\* A file leaves the media directory only while no run holds the media, so a
\* stage never loses the file it is reading: lease and release lock exclude
\* each other across processes, at every step and after every crash.
ReadersKeepTheirMedia ==
  [][(\E p \in Paths : files[p] # 0 /\ files'[p] = 0) => \A r \in Runs : ~Leased(r)]_vars

\* Stored output names the bytes it was computed from: hashing the input
\* before and after the analysis notices a file another run put in its place.
\* The transcript is left out: its input is hashed once, when it is stored, so
\* an overlapping download makes it name bytes it was not made from.
OutputsMatchInput ==
  \A d \in Stages \ {"asr"} : \A o \in stored[d] : o.label.content = o.actual

\* Media the corpus deleted has been served: every enabled media stage has
\* stored output of those very bytes and is reused from the record without the
\* file, whichever runs, failures, refreshes, overlapping downloads and crashes
\* came before.  (An extract deletes what it acquired without asking.)
ReleasedMediaServed ==
  IsReleased /\ (\A r \in Runs : Kind[r] # "extract") => \A d \in Enabled : ExistingOutput(d)

\* When no run is under way and none crashed, media that every enabled stage
\* has stored current output of is gone: of several plan runs that share it,
\* one releases it.  A file that another download replaced is not the recorded
\* media, and a row that an overlapping transcript pointed back at a file of
\* its own no longer names it; an extract leaves media it did not acquire, and
\* an ingest that had nothing to transcribe leaves what it found.
UnneededMediaIsReleased ==
  (/\ \A r \in Runs : Over(r) /\ (Kind[r] \in {"ingest", "extract"} => run[r].pc = "idle")
   /\ \E r \in Runs : run[r].pc = "done"
   /\ row.record # None /\ row.path \in {None, row.record.path}
   /\ ~StillNeeded /\ Keep = {})
    => ~Holds(row.record)

\* When no run is under way and none crashed, every file of the media directory
\* is one the video's record names, so that a later release can delete it.
FilesAreRecorded ==
  MediaTypeOK /\ (~Overlapping /\ (\A r \in Runs : Over(r)) =>
    \A p \in Paths : files[p] # 0 =>
      /\ row.record # None
      /\ [path |-> p, content |-> files[p]] \in row.record.superseded \cup
           {[path |-> row.record.path, content |-> row.record.content]})

\* What the database says of media is true of the bytes: no file is unknown to
\* the record when the runs are over, and at no step does output name bytes it
\* was not computed from.
RecordsAreTrue == FilesAreRecorded /\ OutputsMatchInput
=============================================================================
