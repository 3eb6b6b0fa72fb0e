------------------------ MODULE MediaLifecycleProofs ------------------------
(***************************************************************************)
(* For any number of runs of any kinds, any plans, paths and needs, and    *)
(* crashes at any step: no file leaves the media directory while a run     *)
(* holds the media (ReadersKeep); what the database says of the files and  *)
(* of the stored output is true of the bytes (RecordsTrue); media that was *)
(* deleted has been served (ReleasedIsServed); and media that every stage  *)
(* is done with is deleted by the last run (UnneededIsReleased).           *)
(***************************************************************************)
EXTENDS MediaLifecycle, TLAPS

\* Every run has a place and a part; one that has not started is at its first part,
\* and none takes its lease in its last.
RunsTyped ==
  /\ run = [r \in Runs |-> run[r]]
  /\ \A r \in Runs :
       /\ {"pc", "part"} \subseteq DOMAIN run[r]
       /\ run[r].part \in {"plan", "extract", "last"}
       /\ run[r].pc = "idle" => run[r].part = "plan"
       /\ run[r].pc = "lease" => run[r].part # "last"

\* The lock of a release excludes every lease and every other release.
LocksExclude ==
  \A r, q \in Runs : run[r].pc \in Releasing => ~Leased(q) /\ (q # r => run[q].pc \notin Releasing)

LocksInv ==
  /\ setting \in Settings /\ downloads \in Nat /\ files = [p \in Paths |-> files[p]]
  /\ RunsTyped /\ LocksExclude

---------------------------------------------------------------------------
(* What a step does to the places of the runs.                             *)

\* Only r moves, from the place it is at to pc, in the given part.
Moves(r, pc, part) ==
  /\ run' = [q \in Runs |-> run'[q]]
  /\ {"pc", "part"} \subseteq DOMAIN run'[r]
  /\ run'[r].pc = pc /\ run'[r].part = part
  /\ \A q \in Runs \ {r} : run'[q] = run[q]

LEMMA MoveEffect ==
  ASSUME RunsTyped, NEW r \in Runs, NEW pc, NEW change, "part" \notin DOMAIN change,
         Move(r, pc, change)
  PROVE  Moves(r, pc, run[r].part)
  BY DEF RunsTyped, Move, Moves

LEMMA EndPartEffect ==
  ASSUME RunsTyped, NEW r \in Runs, NEW pc, NEW part, EndPart(r, pc, part)
  PROVE  Moves(r, pc, part)
  BY DEF RunsTyped, EndPart, Moves, Idle

LEMMA EndEffect ==
  ASSUME RunsTyped, NEW r \in Runs, NEW pc, End(r, pc)
  PROVE  Moves(r, pc, run[r].part)
  BY EndPartEffect DEF End

\* The places a run may come to: one that takes its lease finds no release, one that
\* begins its release finds neither a lease nor a release.
Allowed(r, pc) ==
  \/ Leased(r) /\ pc \notin Releasing
  \/ pc \notin Reading \cup Releasing
  \/ pc \in Reading /\ NobodyReleases
  \/ pc = "releasing" /\ NobodyReads /\ NobodyReleases
  \/ pc = "removed" /\ run[r].pc \in Releasing

Comes(r, pc, part) ==
  /\ Moves(r, pc, part) /\ Allowed(r, pc)
  /\ pc # "idle" /\ part \in {"plan", "extract", "last"}
  /\ pc = "lease" => part # "last"

ComesSomewhere(r) == \E pc, part : Comes(r, pc, part)

\* A run that holds the media goes on holding it, waits for its release, or is over.
LEMMA WorkComes ==
  ASSUME RunsTyped, NEW r \in Runs, Leased(r), NEW pc \in Reading \cup {"release", "done", "crashed"},
         NEW part \in {"plan", "extract", "last"}, Moves(r, pc, part)
  PROVE  ComesSomewhere(r)
  <1>1. pc \notin Releasing /\ pc # "idle" /\ pc # "lease"
    BY DEF Reading, Releasing
  <1> QED
    BY <1>1 DEF ComesSomewhere, Comes, Allowed

LEMMA ReleasedComes ==
  ASSUME RunsTyped, NEW r \in Runs, Released(r)
  PROVE  ComesSomewhere(r)
  <1>1. run[r].part \in {"plan", "extract", "last"}
    BY DEF RunsTyped
  <1>2. Moves(r, "lease", "extract") \/ Moves(r, "done", run[r].part)
    BY EndEffect, EndPartEffect DEF Released
  <1> QED
    BY <1>1, <1>2 DEF ComesSomewhere, Comes, Allowed, Reading, Releasing

LEMMA MoveComes ==
  ASSUME RunsTyped, NEW r \in Runs, Leased(r), NEW pc \in Reading \cup {"release", "done", "crashed"},
         NEW change, "part" \notin DOMAIN change, Move(r, pc, change)
  PROVE  ComesSomewhere(r)
  BY MoveEffect, WorkComes DEF RunsTyped

LEMMA EndComes ==
  ASSUME RunsTyped, NEW r \in Runs, Leased(r), NEW pc \in {"release", "done", "crashed"}, End(r, pc)
  PROVE  ComesSomewhere(r)
  BY EndEffect, WorkComes DEF RunsTyped

LEMMA EnsuredComes ==
  ASSUME RunsTyped, NEW r \in Runs, Leased(r), NEW path, Ensured(r, path)
  PROVE  ComesSomewhere(r)
  BY MoveComes DEF Ensured, Reading

LEMMA StageDoneComes ==
  ASSUME RunsTyped, NEW r \in Runs, Leased(r), StageDone(r)
  PROVE  ComesSomewhere(r)
  BY MoveComes, EndComes DEF StageDone, Reading

---------------------------------------------------------------------------
(* Every step takes one run from its place to an allowed one.              *)

LEMMA PlanComes ==
  ASSUME RunsTyped, NEW r \in Runs,
         Decide(r) \/ CheckServes(r) \/ EnsureMedia(r) \/ DownloadFails(r) \/ RecordMedia(r)
  PROVE  ComesSomewhere(r)
  <1>1. Leased(r)
    BY DEF Decide, CheckServes, EnsureMedia, DownloadFails, RecordMedia, Leased, Reading
  <1>2. CASE Decide(r)
    BY <1>1, <1>2, MoveComes DEF Decide, Reading
  <1>3. CASE CheckServes(r)
    BY <1>1, <1>3, MoveComes DEF CheckServes, Reading
  <1>4. CASE EnsureMedia(r)
    BY <1>1, <1>4, MoveComes, EnsuredComes DEF EnsureMedia, Reading
  <1>5. CASE DownloadFails(r)
    BY <1>1, <1>5, EnsuredComes DEF DownloadFails
  <1>6. CASE RecordMedia(r)
    BY <1>1, <1>6, EnsuredComes DEF RecordMedia
  <1> QED
    BY <1>2, <1>3, <1>4, <1>5, <1>6

LEMMA StageComes ==
  ASSUME RunsTyped, NEW r \in Runs,
         \/ BeginStage(r) \/ OpenInput(r) \/ Analyze(r) \/ StageFails(r) \/ Persist(r)
         \/ MatchingFails(r) \/ FinishStage(r)
         \/ Transcribe(r) \/ CommitTranscript(r) \/ SettleTranscript(r)
  PROVE  ComesSomewhere(r)
  <1>0. Leased(r)
    BY DEF BeginStage, OpenInput, Analyze, StageFails, Persist, MatchingFails, FinishStage,
           Transcribe, CommitTranscript, SettleTranscript, Leased, Reading
  <1>1. CASE BeginStage(r)
    BY <1>0, <1>1, MoveComes, EndComes DEF BeginStage, Reading
  <1>2. CASE OpenInput(r)
    BY <1>0, <1>2, MoveComes DEF OpenInput, Reading
  <1>3. CASE Analyze(r) \/ StageFails(r) \/ MatchingFails(r)
    BY <1>0, <1>3, MoveComes DEF Analyze, StageFails, MatchingFails, Reading
  <1>4. CASE Persist(r)
    BY <1>0, <1>4, MoveComes DEF Persist, Reading
  <1>5. CASE Transcribe(r) \/ CommitTranscript(r)
    BY <1>0, <1>5, MoveComes DEF Transcribe, CommitTranscript, Reading
  <1>6. CASE FinishStage(r) \/ SettleTranscript(r)
    BY <1>0, <1>6, StageDoneComes DEF FinishStage, SettleTranscript
  <1> QED
    BY <1>1, <1>2, <1>3, <1>4, <1>5, <1>6

LEMMA DownloadComes ==
  ASSUME RunsTyped, NEW r \in Runs, Download(r)
  PROVE  ComesSomewhere(r)
  <1>1. Leased(r)
    BY DEF Download, Leased, Reading
  <1> QED
    BY <1>1, MoveComes DEF Download, Reading

\* Taking the lease: Kind and the part of a workflow's run say what it does.
LEMMA LeaseComes ==
  ASSUME LocksInv, NEW r \in Runs, TakeLease(r)
  PROVE  ComesSomewhere(r)
  <1>1. Kind[r] \in {"plan", "ingest", "extract", "process"}
    BY LifecycleAssumption DEF LocksInv, IsSetting, Kind
  <1>2. Work(r) \in {"plan", "ingest", "extract"}
    BY <1>1 DEF Work, TakeLease, LocksInv, RunsTyped
  <1>3. \E pc \in {"decide", "stages", "serve"} : Moves(r, pc, run[r].part)
    <2>1. CASE Work(r) = "plan"
      BY <2>1, MoveEffect DEF TakeLease, LocksInv
    <2>2. CASE Work(r) = "ingest"
      BY <2>2, MoveEffect DEF TakeLease, LocksInv
    <2>3. CASE Work(r) = "extract"
      BY <2>3, MoveEffect DEF TakeLease, LocksInv
    <2> QED
      BY <1>2, <2>1, <2>2, <2>3
  <1>4. NobodyReleases /\ run[r].part \in {"plan", "extract", "last"}
    BY DEF TakeLease, LocksInv, RunsTyped
  <1> QED
    BY <1>3, <1>4 DEF ComesSomewhere, Comes, Allowed, Reading

LEMMA OutsideComes ==
  ASSUME RunsTyped, NEW r \in Runs, NEW pc \in {"lease", "release", "done", "crashed"},
         NEW part \in {"plan", "extract", "last"}, pc = "lease" => part # "last", Moves(r, pc, part)
  PROVE  ComesSomewhere(r)
  BY DEF ComesSomewhere, Comes, Allowed, Reading, Releasing

LEMMA EndOfWorkComes ==
  ASSUME RunsTyped, NEW r \in Runs,
         ReadStatus(r) \/ Cut(r) \/ SkipExtract(r) \/ EndLease(r) \/ Crash(r)
  PROVE  ComesSomewhere(r)
  <1>0. run[r].part \in {"plan", "extract", "last"}
    BY DEF RunsTyped
  <1>1. CASE ReadStatus(r)
    <2>1. run[r].part = "plan"
      BY <1>1 DEF ReadStatus, MayStart, RunsTyped
    <2>2. Moves(r, "lease", "plan")
      BY <1>1, <2>1, MoveEffect DEF ReadStatus
    <2> QED
      BY <2>2, OutsideComes
  <1>2. CASE Cut(r) \/ SkipExtract(r)
    <2>1. \/ Moves(r, "release", "last")
          \/ \E pc \in {"release", "done"} : Moves(r, pc, run[r].part)
      BY <1>2, EndPartEffect, EndEffect DEF Cut, SkipExtract, ExtractDone
    <2> QED
      BY <1>0, <2>1, OutsideComes
  <1>3. CASE EndLease(r)
    BY <1>0, <1>3, EndEffect, OutsideComes DEF EndLease
  <1>4. CASE Crash(r)
    BY <1>0, <1>4, EndEffect, OutsideComes DEF Crash
  <1> QED
    BY <1>1, <1>2, <1>3, <1>4

LEMMA ReleaseComes ==
  ASSUME RunsTyped, NEW r \in Runs,
         TryRelease(r) \/ RemoveFiles(r) \/ NothingToRelease(r) \/ CommitRelease(r)
  PROVE  ComesSomewhere(r)
  <1>0. run[r].part \in {"plan", "extract", "last"}
    BY DEF RunsTyped
  <1>1. CASE TryRelease(r)
    <2>1. CASE NobodyReads /\ NobodyReleases
      <3>1. Moves(r, "releasing", run[r].part)
        BY <1>1, <2>1, MoveEffect DEF TryRelease
      <3> QED
        BY <1>0, <2>1, <3>1 DEF ComesSomewhere, Comes, Allowed
    <2> QED
      BY <1>1, <2>1, ReleasedComes DEF TryRelease
  <1>2. CASE RemoveFiles(r)
    <2>1. Moves(r, "removed", run[r].part) /\ run[r].pc \in Releasing
      BY <1>2, MoveEffect DEF RemoveFiles, Releasing
    <2> QED
      BY <1>0, <2>1 DEF ComesSomewhere, Comes, Allowed
  <1>3. CASE NothingToRelease(r) \/ CommitRelease(r)
    BY <1>3, ReleasedComes DEF NothingToRelease, CommitRelease
  <1> QED
    BY <1>1, <1>2, <1>3

---------------------------------------------------------------------------
(* The invariant.                                                          *)

\* Whoever comes to an allowed place, the locks go on excluding each other.
LEMMA LocksKept ==
  ASSUME RunsTyped, LocksExclude, NEW r \in Runs, ComesSomewhere(r)
  PROVE  RunsTyped' /\ LocksExclude'
  <1>1. PICK pc, part : Comes(r, pc, part)
    BY DEF ComesSomewhere
  <1>2. /\ \A q \in Runs \ {r} : run'[q] = run[q]
        /\ run'[r].pc = pc /\ run'[r].part = part
    BY <1>1 DEF Comes, Moves
  <1>3. RunsTyped'
    BY <1>1, <1>2 DEF Comes, Moves, RunsTyped
  <1>4. LocksExclude'
    BY <1>1, <1>2 DEF Comes, Allowed, LocksExclude, Leased, NobodyReads, NobodyReleases,
       Reading, Releasing
  <1> QED
    BY <1>3, <1>4

LEMMA StepComes == ASSUME LocksInv, Next PROVE \E r \in Runs : ComesSomewhere(r)
  BY PlanComes, StageComes, DownloadComes, LeaseComes, EndOfWorkComes, ReleaseComes DEF Next,
     LocksInv

\* Only a download and a release touch the media directory.
LEMMA DirectoryKept ==
  ASSUME Next
  PROVE  /\ setting' = setting
         /\ UNCHANGED <<files, downloads>> \/ \E r \in Runs : Download(r) \/ RemoveFiles(r)
  <1> DEFINE Kept == setting' = setting /\ UNCHANGED <<files, downloads>>
  <1>1. ASSUME NEW r \in Runs,
             ReadStatus(r) \/ TakeLease(r) \/ Decide(r) \/ CheckServes(r) \/ EnsureMedia(r)
      PROVE  Kept
    BY <1>1 DEF ReadStatus, TakeLease, Decide, CheckServes, EnsureMedia
  <1>2. ASSUME NEW r \in Runs,
             DownloadFails(r) \/ RecordMedia(r) \/ BeginStage(r) \/ OpenInput(r) \/ Analyze(r)
      PROVE  Kept
    BY <1>2 DEF DownloadFails, RecordMedia, BeginStage, OpenInput, Analyze
  <1>3. ASSUME NEW r \in Runs,
             StageFails(r) \/ Persist(r) \/ MatchingFails(r) \/ FinishStage(r) \/ Transcribe(r)
      PROVE  Kept
    BY <1>3 DEF StageFails, Persist, MatchingFails, FinishStage, Transcribe
  <1>4. ASSUME NEW r \in Runs,
             CommitTranscript(r) \/ SettleTranscript(r) \/ Cut(r) \/ SkipExtract(r) \/ EndLease(r)
      PROVE  Kept
    BY <1>4 DEF CommitTranscript, SettleTranscript, Cut, SkipExtract, EndLease
  <1>5. ASSUME NEW r \in Runs,
             TryRelease(r) \/ NothingToRelease(r) \/ CommitRelease(r) \/ Crash(r)
      PROVE  Kept
    BY <1>5 DEF TryRelease, NothingToRelease, CommitRelease, Crash
  <1>6. ASSUME NEW r \in Runs,
             Download(r) \/ RemoveFiles(r)
      PROVE  setting' = setting
    BY <1>6 DEF Download, RemoveFiles
  <1> QED
    BY <1>1, <1>2, <1>3, <1>4, <1>5, <1>6 DEF Next

LEMMA LocksInvHolds == Spec => []LocksInv
  <1>1. Init => LocksInv
    <2> SUFFICES ASSUME Init PROVE LocksInv
      OBVIOUS
    <2>1. setting \in Settings /\ downloads \in Nat /\ files = [p \in Paths |-> files[p]]
      BY DEF Init
    <2>2. RunsTyped /\ LocksExclude
      BY DEF Init, Idle, RunsTyped, LocksExclude, Releasing
    <2> QED
      BY <2>1, <2>2 DEF LocksInv
  <1>2. LocksInv /\ [Next]_vars => LocksInv'
    <2> SUFFICES ASSUME LocksInv, [Next]_vars PROVE LocksInv'
      OBVIOUS
    <2>1. CASE Next
      <3>1. setting' = setting
        BY <2>1, DirectoryKept
      <3>2. \A r \in Runs : Download(r) => downloads' \in Nat /\ files' = [p \in Paths |-> files'[p]]
        BY DEF Download, LocksInv
      <3>3. \A r \in Runs : RemoveFiles(r) => downloads' \in Nat /\ files' = [p \in Paths |-> files'[p]]
        BY DEF RemoveFiles, LocksInv
      <3>4. downloads' \in Nat /\ files' = [p \in Paths |-> files'[p]]
        BY <2>1, <3>2, <3>3, DirectoryKept DEF LocksInv
      <3> QED
        BY <2>1, <3>1, <3>4, StepComes, LocksKept DEF LocksInv
    <2>2. CASE UNCHANGED vars
      BY <2>2 DEF vars, LocksInv, RunsTyped, LocksExclude, Leased
    <2> QED
      BY <2>1, <2>2
  <1> QED
    BY <1>1, <1>2, PTL DEF Spec

\* A file leaves the media directory only while no run holds the media: the shared lease
\* and the exclusive release lock exclude each other, whoever crashes when.
THEOREM ReadersKeep == Spec => ReadersKeepTheirMedia
  <1>1. LocksInv /\ [Next]_vars =>
          [(\E p \in Paths : files[p] # 0 /\ files'[p] = 0) => \A r \in Runs : ~Leased(r)]_vars
    <2> SUFFICES ASSUME LocksInv, Next, NEW p \in Paths, files[p] # 0, files'[p] = 0
                 PROVE  \A r \in Runs : ~Leased(r)
      BY DEF vars
    <2>1. PICK r \in Runs : Download(r) \/ RemoveFiles(r)
      BY DirectoryKept
    <2>2. ~Download(r)
      <3> SUFFICES ASSUME Download(r) PROVE FALSE
        OBVIOUS
      <3>1. PICK q \in AudioPaths \cup VideoPaths : files' = [files EXCEPT ![q] = downloads + 1]
        BY DEF Download
      <3>2. downloads + 1 # 0
        BY DEF LocksInv
      <3>3. files'[p] = IF p = q THEN downloads + 1 ELSE files[p]
        BY <3>1 DEF LocksInv, Paths
      <3> QED
        BY <3>2, <3>3
    <2>3. run[r].pc \in Releasing
      BY <2>1, <2>2 DEF RemoveFiles, Releasing
    <2> QED
      BY <2>3 DEF LocksInv, LocksExclude
  <1> QED
    BY <1>1, LocksInvHolds, PTL DEF Spec, ReadersKeepTheirMedia

---------------------------------------------------------------------------
(* What the database says of media is true of the bytes: the invariant.    *)

Results == {"none", "completed", "skipped", "failed"}
Rows == [path : Paths \cup {None}, record : Records \cup {None}]

\* What a run has read is what its place asks for, and its stage says which lock it holds.
Reads(r) ==
  /\ DOMAIN run[r] = DOMAIN Idle
  /\ run[r].todo \subseteq Stages /\ run[r].need \in Needs /\ run[r].outcome \in Results
  /\ run[r].stage \in Stages \cup {None}
  /\ run[r].pc \in {"idle", "lease", "decide", "serve", "stages", "cut"} => run[r].stage = None
  /\ run[r].pc \in {"ensure", "download", "record"} => run[r].stage \in {None, "asr"}
  /\ run[r].pc \in {"transcribe", "commit", "settle"} => run[r].stage = "asr"
  /\ run[r].pc \in {"open", "analyze", "persist", "finish"} => run[r].stage \in Stages \ {"asr"}
  /\ run[r].pc \in {"record", "analyze", "persist"} => run[r].got \in Files
  /\ run[r].pc \in {"download", "record"} => run[r].previous \in Records \cup {None}
  /\ run[r].pc = "transcribe" => run[r].got \in Paths
  /\ run[r].pc = "commit" =>
       /\ run[r].got \in Paths \cup {None}
       /\ run[r].outcome = "completed" => run[r].got \in Paths /\ run[r].actual \in Contents
  /\ run[r].pc = "persist" => run[r].actual \in Contents
  /\ run[r].pc = "removed" => run[r].next \in Rows

\* A record names bytes that were downloaded; what is marked deleted is gone for good, for
\* no later download yields the same bytes; and nothing supersedes itself.
RecordSound(record) ==
  record # None =>
    /\ record.content <= downloads
    /\ record.deleted => files[record.path] # record.content
    /\ \A e \in record.superseded : e.path # record.path

\* The bytes at a path change to newer ones only, so a run that finds the bytes it hashed
\* first has analyzed them.
SeesNewer(r) ==
  /\ run[r].pc = "analyze" =>
       /\ run[r].got.content <= downloads
       /\ files[run[r].got.path] = 0 \/ run[r].got.content <= files[run[r].got.path]
  /\ run[r].pc = "persist" =>
       /\ run[r].got.content <= run[r].actual /\ run[r].actual <= downloads
       /\ files[run[r].got.path] = 0 \/ run[r].actual <= files[run[r].got.path]

RunSound(r) ==
  /\ Reads(r) /\ SeesNewer(r)
  /\ run[r].pc = "record" => run[r].got.content <= downloads
  /\ run[r].pc = "removed" => RecordSound(run[r].next.record)

\* The release after a workflow's last extract is not the extract's.
PartSound(r) ==
  Kind[r] = "process" /\ run[r].pc \in {"release"} \cup Releasing => run[r].part # "extract"

TablesTyped ==
  /\ row \in Rows /\ downloads \in 0..MaxDownloads
  /\ files \in [Paths -> 0..MaxDownloads] /\ \A p \in Paths : files[p] <= downloads
  /\ stored = [d \in Stages |-> stored[d]]
  /\ \A d \in Stages : \A o \in stored[d] : o.label \in Files /\ o.actual \in Contents
  /\ attempt = [d \in Stages |-> attempt[d]] /\ lock = [d \in Stages |-> lock[d]]
  /\ \A d \in Stages : attempt[d].state \in Results \cup {"running"}
  /\ crashes \in 0..setting.maxCrashes

LockSound(d) ==
  lock[d] # None =>
    /\ lock[d] \in Runs /\ Leased(lock[d]) /\ run[lock[d]].stage = d
    /\ attempt[d] = [state |-> "running", run |-> lock[d]]

MediaInv ==
  /\ LocksInv /\ TablesTyped /\ RecordSound(row.record)
  /\ \A r \in Runs : RunSound(r) /\ PartSound(r)
  /\ \A d \in Stages : LockSound(d)
  /\ OutputsMatchInput

\* Where runs follow one another, one at a time is under way.
Busy(r) == run[r].pc \notin {"idle", "done", "crashed"}
OneAtATime == ~Overlapping => \A q, r \in Runs : Busy(q) /\ Busy(r) => q = r

\* The file at p is one the record names.
Names(record, p) ==
  record # None /\ [path |-> p, content |-> files[p]] \in
    record.superseded \cup {[path |-> record.path, content |-> record.content]}
NamesAll(record, S) == \A p \in S : files[p] # 0 => Names(record, p)

\* Between a download and its record one file is unknown; between the deletions and their
\* record it is the record to come that names the files.
DirectoryNamed ==
  /\ \A r \in Runs : run[r].pc \in {"download", "record"} => run[r].previous = row.record
  /\ \A r \in Runs : run[r].pc = "record" =>
       /\ files[run[r].got.path] = run[r].got.content
       /\ NamesAll(row.record, Paths \ {run[r].got.path})
  /\ \A r \in Runs : run[r].pc = "removed" => NamesAll(run[r].next.record, Paths)
  /\ (\A r \in Runs : run[r].pc \notin {"record", "removed"}) => NamesAll(row.record, Paths)

FilesNamed ==
  ~Overlapping /\ (\A r \in Runs : run[r].pc # "crashed") => DirectoryNamed

\* The stage is reused from the record alone.
ServedBy(record, d) ==
  /\ d = "scenes" => record.fingerprint
  /\ \E o \in stored[d] : /\ o.label.content = record.content
                          /\ d = "asr" => o.label.path = record.path

ServedBefore(path, record) ==
  path = None /\ record # None /\ record.deleted => \A d \in Enabled : ServedBy(record, d)

Served ==
  (\A r \in Runs : Kind[r] # "extract") =>
    /\ ServedBefore(row.path, row.record)
    /\ \A r \in Runs : run[r].pc = "removed" => ServedBefore(run[r].next.path, run[r].next.record)

---------------------------------------------------------------------------
(* What a step of a run leaves of the run, and of the other runs.          *)

OthersStay(r) == run' = [q \in Runs |-> run'[q]] /\ \A q \in Runs \ {r} : run'[q] = run[q]

LEMMA MoveFields ==
  ASSUME RunsTyped, NEW r \in Runs, Reads(r), NEW pc, NEW change, Move(r, pc, change)
  PROVE  /\ OthersStay(r) /\ DOMAIN run'[r] = DOMAIN Idle /\ run'[r].pc = pc
         /\ run'[r].part = IF "part" \in DOMAIN change THEN change.part ELSE run[r].part
         /\ run'[r].todo = IF "todo" \in DOMAIN change THEN change.todo ELSE run[r].todo
         /\ run'[r].need = IF "need" \in DOMAIN change THEN change.need ELSE run[r].need
         /\ run'[r].stage = IF "stage" \in DOMAIN change THEN change.stage ELSE run[r].stage
         /\ run'[r].previous =
              IF "previous" \in DOMAIN change THEN change.previous ELSE run[r].previous
         /\ run'[r].got = IF "got" \in DOMAIN change THEN change.got ELSE run[r].got
         /\ run'[r].actual = IF "actual" \in DOMAIN change THEN change.actual ELSE run[r].actual
         /\ run'[r].outcome = IF "outcome" \in DOMAIN change THEN change.outcome ELSE run[r].outcome
         /\ run'[r].next = IF "next" \in DOMAIN change THEN change.next ELSE run[r].next
  <1> DEFINE new == [f \in DOMAIN run[r] |-> IF f = "pc" THEN pc
                       ELSE IF f \in DOMAIN change THEN change[f] ELSE run[r][f]]
  <1>1. run' = [run EXCEPT ![r] = new]
    BY DEF Move
  <1>2. DOMAIN run[r] = {"pc", "part", "todo", "media", "failed", "stage", "need", "previous",
                         "got", "mediaError", "seen", "actual", "outcome", "acquired", "next"}
    BY DEF Reads, Idle
  <1>3. run'[r] = new /\ OthersStay(r)
    BY <1>1 DEF RunsTyped, OthersStay
  <1>4. DOMAIN run'[r] = DOMAIN Idle
    BY <1>3 DEF Reads
  <1> QED
    BY <1>2, <1>3, <1>4

LEMMA EndPartFields ==
  ASSUME RunsTyped, NEW r \in Runs, NEW pc, NEW part, EndPart(r, pc, part)
  PROVE  /\ OthersStay(r) /\ run'[r] = [Idle EXCEPT !.pc = pc, !.part = part]
         /\ DOMAIN run'[r] = DOMAIN Idle
         /\ run'[r].pc = pc /\ run'[r].part = part /\ run'[r].stage = None
  BY DEF RunsTyped, EndPart, OthersStay, Idle

LEMMA EndedReads ==
  ASSUME RunsTyped, NEW r \in Runs, NEW pc \in {"lease", "release", "done", "crashed"}, NEW part,
         EndPart(r, pc, part)
  PROVE  RunSound(r)' /\ OthersStay(r) /\ run'[r].stage = None /\ ~Leased(r)'
  <1>1. run'[r] = [Idle EXCEPT !.pc = pc, !.part = part] /\ DOMAIN run'[r] = DOMAIN Idle
        /\ run'[r].pc = pc /\ run'[r].stage = None /\ OthersStay(r)
    BY EndPartFields
  <1>2. run'[r].todo = {} /\ run'[r].need = Nothing /\ run'[r].outcome = "none"
    BY <1>1 DEF Idle
  <1> QED
    BY <1>1, <1>2 DEF RunSound, Reads, SeesNewer, Leased, Reading, Needs, Results

---------------------------------------------------------------------------
(* What every step of a run does.                                          *)

\* The run keeps the lock it holds, takes the lock of a stage, gives it back with the
\* attempt's outcome, or drops what it holds.
LockStep(r) ==
  \/ /\ UNCHANGED <<lock, attempt>>
     /\ \/ run[r].stage = None
        \/ ~Leased(r)
        \/ run'[r].pc \in Reading /\ run'[r].stage = run[r].stage
  \/ \E d \in Stages :
       /\ lock[d] = None /\ run[r].stage = None
       /\ lock' = [lock EXCEPT ![d] = r]
       /\ attempt' = [attempt EXCEPT ![d] = [state |-> "running", run |-> r]]
       /\ run'[r].pc \in Reading /\ run'[r].stage = d
  \/ /\ run[r].stage \in Stages
     /\ lock' = [lock EXCEPT ![run[r].stage] = None]
     /\ \E outcome \in Results :
          attempt' = [attempt EXCEPT ![run[r].stage] = [state |-> outcome, run |-> r]]
  \/ /\ lock' = [d \in Stages |-> IF lock[d] = r THEN None ELSE lock[d]]
     /\ attempt' = attempt

Step(r) ==
  /\ setting' = setting /\ OthersStay(r) /\ RunSound(r)' /\ PartSound(r)'
  /\ run[r].pc # "crashed" /\ (Busy(r) \/ MayStart(r))
  /\ LockStep(r) /\ crashes' \in 0..setting.maxCrashes

\* A step that changes no file and no record, and reads or writes none of them.
Calm(r) ==
  /\ UNCHANGED <<files, downloads>> /\ row'.record = row.record
  /\ \/ /\ {run[r].pc, run'[r].pc} \cap {"record", "removed"} = {}
        /\ run'[r].pc = "download" => run'[r].previous = row.record
     \/ run'[r].pc = "crashed"

\* Nor the stored output.
Still(r) == Calm(r) /\ UNCHANGED <<row, stored>>

LEMMA SettingFacts ==
  ASSUME setting \in Settings
  PROVE  /\ \A r \in Runs : Kind[r] \in {"plan", "ingest", "extract", "process"}
         /\ \A r \in Runs : Selected[r] \subseteq Enabled
         /\ Enabled \subseteq Stages
  BY LifecycleAssumption DEF IsSetting, Kind, Selected, Enabled

LEMMA Facts ==
  ASSUME MediaInv, NEW r \in Runs
  PROVE  /\ RunsTyped /\ RunSound(r) /\ PartSound(r) /\ Reads(r) /\ TablesTyped /\ setting \in Settings
         /\ crashes \in 0..setting.maxCrashes /\ row \in Rows
         /\ run[r].part \in {"plan", "extract", "last"}
  BY DEF MediaInv, LocksInv, RunSound, RunsTyped, TablesTyped

LEMMA NeedTyped ==
  ASSUME NEW D \in SUBSET Stages
  PROVE  ForDetectors(D) \in Needs
  BY DEF Needs

LEMMA PlanSteps ==
  ASSUME MediaInv, NEW r \in Runs, ReadStatus(r) \/ Decide(r) \/ CheckServes(r)
  PROVE  Step(r) /\ Still(r)
  <1>0. RunsTyped /\ RunSound(r) /\ Reads(r) /\ crashes \in 0..setting.maxCrashes
    BY Facts
  <1>1. Selected[r] \subseteq Stages
    BY Facts, SettingFacts
  <1>2. CASE ReadStatus(r)
    <2>1. /\ run'[r].pc = "lease" /\ OthersStay(r) /\ DOMAIN run'[r] = DOMAIN Idle
          /\ run'[r].todo = run[r].todo /\ run'[r].need = run[r].need
          /\ run'[r].stage = run[r].stage /\ run'[r].outcome = run[r].outcome
      BY <1>0, <1>2, MoveFields DEF ReadStatus
    <2>2. RunSound(r)' /\ run[r].pc = "idle"
      BY <1>0, <1>2, <2>1 DEF RunSound, Reads, SeesNewer, ReadStatus, MayStart
    <2> QED
      BY <1>0, <1>2, <2>1, <2>2 DEF ReadStatus, Step, Still, Calm, PartSound, LockStep, Leased,
         Reading, Releasing
  <1>3. CASE Decide(r)
    <2> DEFINE current == {d \in Selected[r] :
                    ExistingOutput(d) /\ r \notin Refresh /\ d \notin run[r].failed}
               media == Selected[r] \ current
               change == [todo  |-> media \cup (current \cap {"faces"}), media |-> media,
                          need  |-> ForDetectors(media)]
    <2>1. Move(r, "serve", change) /\ run[r].pc = "decide"
      BY <1>3 DEF Decide
    <2>2. change.todo \subseteq Stages /\ change.need \in Needs
      BY <1>1, NeedTyped
    <2>3. "todo" \in DOMAIN change /\ "need" \in DOMAIN change /\ "stage" \notin DOMAIN change
          /\ "outcome" \notin DOMAIN change
      OBVIOUS
    <2> HIDE DEF change
    <2>4. /\ run'[r].pc = "serve" /\ OthersStay(r) /\ DOMAIN run'[r] = DOMAIN Idle
          /\ run'[r].todo = change.todo /\ run'[r].need = change.need
          /\ run'[r].stage = run[r].stage /\ run'[r].outcome = run[r].outcome
      BY <1>0, <2>1, <2>3, MoveFields
    <2>5. RunSound(r)'
      BY <1>0, <2>1, <2>2, <2>4 DEF RunSound, Reads, SeesNewer
    <2> QED
      BY <1>0, <1>3, <2>1, <2>4, <2>5 DEF Decide, Step, Still, Calm, PartSound, LockStep,
         Leased, Busy,
         Reading, Releasing
  <1>4. CASE CheckServes(r)
    <2>1. /\ run'[r].pc = "ensure" /\ OthersStay(r) /\ DOMAIN run'[r] = DOMAIN Idle
          /\ run'[r].todo \in {run[r].todo, Selected[r]}
          /\ run'[r].need \in {run[r].need, ForDetectors(Selected[r])}
          /\ run'[r].stage = run[r].stage /\ run'[r].outcome = run[r].outcome
      BY <1>0, <1>4, MoveFields DEF CheckServes
    <2>2. RunSound(r)' /\ run[r].pc = "serve"
      BY <1>0, <1>1, <1>4, <2>1, NeedTyped DEF RunSound, Reads, SeesNewer, CheckServes
    <2> QED
      BY <1>0, <1>4, <2>1, <2>2 DEF CheckServes, Step, Still, Calm, PartSound, LockStep,
         Leased, Busy,
         Reading, Releasing
  <1> QED
    BY <1>2, <1>3, <1>4

LEMMA LeaseSteps ==
  ASSUME MediaInv, NEW r \in Runs, TakeLease(r)
  PROVE  Step(r) /\ Still(r)
  <1>0. RunsTyped /\ RunSound(r) /\ Reads(r) /\ crashes \in 0..setting.maxCrashes
    BY Facts
  <1>1. Kind[r] \in {"plan", "ingest", "extract", "process"}
    BY Facts, SettingFacts
  <1>2. Work(r) \in {"plan", "ingest", "extract"}
    BY <1>1, Facts DEF Work, TakeLease, MediaInv, LocksInv, RunsTyped
  <1>3. run[r].pc \in {"lease", "idle"} /\ (Busy(r) \/ MayStart(r))
    BY DEF TakeLease, MayStart, Busy
  <1>4. \E change : /\ \/ Move(r, "decide", change) /\ change = <<>>
                       \/ Move(r, "stages", change) /\ change = [todo |-> {"asr"}]
                       \/ Move(r, "serve", change) /\ change = [need |-> ExtractNeed]
    BY <1>2 DEF TakeLease
  <1>5. /\ run'[r].pc \in {"decide", "stages", "serve"}
        /\ OthersStay(r) /\ DOMAIN run'[r] = DOMAIN Idle
        /\ run'[r].todo \in {run[r].todo, {"asr"}}
        /\ run'[r].need \in {run[r].need, ExtractNeed}
        /\ run'[r].stage = run[r].stage /\ run'[r].outcome = run[r].outcome
    <2>1. DOMAIN <<>> = {}
      OBVIOUS
    <2> QED
      BY <1>0, <1>4, <2>1, MoveFields
  <1>6. run[r].stage = None
    BY <1>0, <1>3 DEF Reads
  <1>7. RunSound(r)'
    BY <1>0, <1>5, <1>6 DEF RunSound, Reads, SeesNewer, Needs, Stages
  <1> QED
    BY <1>0, <1>3, <1>5, <1>6, <1>7 DEF TakeLease, Step, Still, Calm, PartSound, LockStep,
       Leased, Busy,
       Reading, Releasing

\* Where ensure_media returns to: a path of media, or none and the failure is noted.
LEMMA EnsuredStep ==
  ASSUME MediaInv, NEW r \in Runs, run[r].pc \in {"ensure", "download", "record"},
         NEW path \in Paths \cup {None}, Ensured(r, path),
         UNCHANGED <<files, downloads, lock, attempt, setting, crashes>>
  PROVE  Step(r) /\ run'[r].pc \in {"commit", "transcribe", "cut", "stages"}
  <1>0. RunsTyped /\ RunSound(r) /\ Reads(r) /\ crashes \in 0..setting.maxCrashes
    BY Facts
  <1>1. run[r].stage \in {None, "asr"}
    BY <1>0 DEF Reads
  <1>2. CASE run[r].stage = "asr"
    <2>1. /\ run'[r].pc = IF path = None THEN "commit" ELSE "transcribe"
          /\ run'[r].outcome = IF path = None THEN "failed" ELSE "none"
          /\ run'[r].got = path /\ run'[r].stage = "asr"
          /\ OthersStay(r) /\ DOMAIN run'[r] = DOMAIN Idle
          /\ run'[r].todo = run[r].todo /\ run'[r].need = run[r].need
      BY <1>0, <1>2, MoveFields DEF Ensured
    <2>2. RunSound(r)'
      BY <1>0, <1>2, <2>1 DEF RunSound, Reads, SeesNewer, Results
    <2> QED
      BY <1>0, <1>2, <2>1, <2>2 DEF Step, PartSound, LockStep, Leased, Busy, Reading, Releasing
  <1>3. CASE run[r].stage # "asr"
    <2>1. /\ run'[r].pc \in {"cut", "stages"}
          /\ OthersStay(r) /\ DOMAIN run'[r] = DOMAIN Idle
          /\ run'[r].todo = run[r].todo /\ run'[r].need = run[r].need
          /\ run'[r].stage = run[r].stage /\ run'[r].outcome = run[r].outcome
      <3>1. CASE Work(r) = "extract"
        BY <1>0, <1>3, <3>1, MoveFields DEF Ensured
      <3>2. CASE Work(r) # "extract"
        BY <1>0, <1>3, <3>2, MoveFields DEF Ensured
      <3> QED
        BY <3>1, <3>2
    <2>2. RunSound(r)'
      BY <1>0, <1>1, <1>3, <2>1 DEF RunSound, Reads, SeesNewer
    <2> QED
      BY <1>0, <1>1, <1>3, <2>1, <2>2 DEF Step, PartSound, LockStep, Leased, Busy, Reading,
         Releasing
  <1> QED
    BY <1>2, <1>3

LEMMA EnsureSteps ==
  ASSUME MediaInv, NEW r \in Runs, EnsureMedia(r) \/ DownloadFails(r)
  PROVE  Step(r) /\ Still(r)
  <1>0. RunsTyped /\ RunSound(r) /\ Reads(r) /\ crashes \in 0..setting.maxCrashes /\ row \in Rows
    BY Facts
  <1>1. CASE \E path \in Paths \cup {None} : Ensured(r, path)
    <2>1. run[r].pc \in {"ensure", "download"}
      BY DEF EnsureMedia, DownloadFails
    <2>2. Step(r) /\ run'[r].pc \in {"commit", "transcribe", "cut", "stages"}
      BY <1>1, <2>1, EnsuredStep DEF EnsureMedia, DownloadFails
    <2> QED
      BY <2>1, <2>2 DEF Still, Calm, EnsureMedia, DownloadFails
  <1>2. CASE EnsureMedia(r) /\ Move(r, "download", [previous |-> row.record])
    <2>1. /\ run'[r].pc = "download" /\ run'[r].previous = row.record
          /\ OthersStay(r) /\ DOMAIN run'[r] = DOMAIN Idle
          /\ run'[r].todo = run[r].todo /\ run'[r].need = run[r].need
          /\ run'[r].stage = run[r].stage /\ run'[r].outcome = run[r].outcome
      BY <1>0, <1>2, MoveFields
    <2>2. RunSound(r)' /\ run[r].pc = "ensure"
      BY <1>0, <1>2, <2>1 DEF EnsureMedia, RunSound, Reads, SeesNewer, Rows
    <2> QED
      BY <1>0, <1>2, <2>1, <2>2 DEF EnsureMedia, Step, Still, Calm, PartSound, LockStep,
         Leased, Busy,
         Reading, Releasing
  <1>3. row.path \in Paths \cup {None}
    BY <1>0 DEF Rows
  <1> QED
    BY <1>1, <1>2, <1>3 DEF EnsureMedia, DownloadFails

LEMMA RecordStep ==
  ASSUME MediaInv, NEW r \in Runs, RecordMedia(r)
  PROVE  Step(r) /\ run'[r].pc \in {"commit", "transcribe", "cut", "stages"}
  <1>1. run[r].got \in Files /\ run[r].pc = "record"
    BY Facts DEF Reads, RecordMedia
  <1> QED
    BY <1>1, EnsuredStep DEF RecordMedia, Files

\* A download takes the place of whatever was at its path.
LEMMA DownloadStep ==
  ASSUME MediaInv, NEW r \in Runs, Download(r)
  PROVE  /\ Step(r) /\ run'[r].pc = "record" /\ run[r].pc = "download"
         /\ run'[r].previous = run[r].previous /\ run'[r].got \in Files
         /\ UNCHANGED <<row, stored>>
         /\ downloads' = downloads + 1 /\ downloads' \in Contents
         /\ files' = [files EXCEPT ![run'[r].got.path] = run'[r].got.content]
         /\ run'[r].got.content = downloads + 1
  <1>0. RunsTyped /\ RunSound(r) /\ Reads(r) /\ crashes \in 0..setting.maxCrashes /\ TablesTyped
    BY Facts
  <1>1. PICK p \in Paths :
          /\ files' = [files EXCEPT ![p] = downloads + 1] /\ downloads' = downloads + 1
          /\ Move(r, "record", [got |-> [path |-> p, content |-> downloads + 1]])
    BY DEF Download, Paths
  <1>2. downloads \in Nat /\ downloads + 1 \in Contents
    BY <1>0, LifecycleAssumption DEF Download, TablesTyped, Contents
  <1>3. /\ run'[r].pc = "record" /\ run'[r].got = [path |-> p, content |-> downloads + 1]
        /\ OthersStay(r) /\ DOMAIN run'[r] = DOMAIN Idle
        /\ run'[r].todo = run[r].todo /\ run'[r].need = run[r].need
        /\ run'[r].stage = run[r].stage /\ run'[r].outcome = run[r].outcome
        /\ run'[r].previous = run[r].previous
    BY <1>0, <1>1, MoveFields
  <1>4. run'[r].got \in Files
    BY <1>2, <1>3 DEF Files
  <1>5. RunSound(r)' /\ run[r].pc = "download"
    BY <1>0, <1>1, <1>2, <1>3, <1>4 DEF Download, RunSound, Reads, SeesNewer
  <1>6. Step(r)
    BY <1>0, <1>3, <1>5 DEF Download, Step, PartSound, LockStep, Leased, Busy, Reading,
       Releasing
  <1>7. /\ files' = [files EXCEPT ![run'[r].got.path] = run'[r].got.content]
        /\ run'[r].got.content = downloads + 1
    BY <1>1, <1>3
  <1>8. UNCHANGED <<row, stored>>
    BY DEF Download
  <1> QED
    BY <1>1, <1>2, <1>3, <1>4, <1>5, <1>6, <1>7, <1>8

---------------------------------------------------------------------------
(* The stages of a run.                                                    *)

LEMMA NextStageIsDue ==
  ASSUME NEW r \in Runs, Reads(r), run[r].todo # {}
  PROVE  NextStage(r) \in run[r].todo
  <1> DEFINE place(d) == CHOOSE i \in DOMAIN StageOrder : StageOrder[i] = d
             First(d) == d \in run[r].todo /\ \A e \in run[r].todo : place(d) <= place(e)
  <1>1. /\ DOMAIN StageOrder = 1..5
        /\ StageOrder[1] = "asr" /\ StageOrder[2] = "scenes" /\ StageOrder[3] = "faces"
        /\ StageOrder[4] = "voices" /\ StageOrder[5] = "ocr"
    BY DEF StageOrder
  <1>2. /\ place("asr") = 1 /\ place("scenes") = 2 /\ place("faces") = 3
        /\ place("voices") = 4 /\ place("ocr") = 5
    <2>1. \A i \in 1..5 : i = 1 \/ i = 2 \/ i = 3 \/ i = 4 \/ i = 5
      OBVIOUS
    <2> QED
      BY <1>1, <2>1
  <1>3. run[r].todo \subseteq {"asr", "voices", "scenes", "faces", "ocr"}
    BY DEF Reads, Stages
  <1> HIDE DEF place
  <1>4. \E d : First(d)
    <2>1. CASE "asr" \in run[r].todo
      BY <1>2, <1>3, <2>1
    <2>2. CASE "asr" \notin run[r].todo /\ "scenes" \in run[r].todo
      BY <1>2, <1>3, <2>2
    <2>3. CASE run[r].todo \cap {"asr", "scenes"} = {} /\ "faces" \in run[r].todo
      BY <1>2, <1>3, <2>3
    <2>4. CASE run[r].todo \cap {"asr", "scenes", "faces"} = {} /\ "voices" \in run[r].todo
      BY <1>2, <1>3, <2>4
    <2>5. CASE run[r].todo \subseteq {"ocr"}
      BY <1>2, <2>5
    <2> QED
      BY <1>3, <2>1, <2>2, <2>3, <2>4, <2>5
  <1>5. NextStage(r) = CHOOSE d \in run[r].todo : \A e \in run[r].todo : place(d) <= place(e)
    BY DEF NextStage, place
  <1> QED
    BY <1>4, <1>5

\* The run takes the lock of its next stage, or leaves out a stage that is locked.
LEMMA BeginStep ==
  ASSUME MediaInv, NEW r \in Runs, BeginStage(r)
  PROVE  Step(r) /\ Still(r)
  <1> DEFINE d == NextStage(r)
  <1>0. RunsTyped /\ RunSound(r) /\ Reads(r) /\ crashes \in 0..setting.maxCrashes
    BY Facts
  <1>1. run[r].pc = "stages" /\ d \in Stages /\ run[r].stage = None
    BY <1>0, NextStageIsDue DEF BeginStage, Reads
  <1>2. UNCHANGED <<setting, row, files, downloads, stored, crashes>>
    BY DEF BeginStage
  <1>3. CASE lock[d] # None /\ Kind[r] = "ingest"
    <2>1. EndPart(r, "done", run[r].part) /\ UNCHANGED <<attempt, lock>>
      BY <1>3 DEF BeginStage, End
    <2>2. RunSound(r)' /\ OthersStay(r)
      BY <1>0, <2>1, EndedReads
    <2>3. run'[r].pc = "done"
      BY <1>0, <2>1, EndPartFields
    <2> QED
      BY <1>0, <1>1, <1>2, <2>1, <2>2, <2>3
         DEF Step, Still, Calm, PartSound, LockStep, Busy, Releasing
  <1>4. CASE lock[d] # None /\ Kind[r] # "ingest"
    <2>1. Move(r, "stages", [todo |-> run[r].todo \ {d}]) /\ UNCHANGED <<attempt, lock>>
      BY <1>4 DEF BeginStage
    <2>2. /\ run'[r].pc = "stages" /\ OthersStay(r) /\ DOMAIN run'[r] = DOMAIN Idle
          /\ run'[r].todo = run[r].todo \ {d} /\ run'[r].need = run[r].need
          /\ run'[r].stage = run[r].stage /\ run'[r].outcome = run[r].outcome
      BY <1>0, <2>1, MoveFields
    <2>3. RunSound(r)'
      BY <1>0, <1>1, <2>2 DEF RunSound, Reads, SeesNewer
    <2> QED
      BY <1>0, <1>1, <1>2, <2>1, <2>2, <2>3 DEF Step, Still, Calm, PartSound, LockStep, Busy,
         Releasing
  <1>5. CASE lock[d] = None
    <2>1. /\ lock' = [lock EXCEPT ![d] = r]
          /\ attempt' = [attempt EXCEPT ![d] = [state |-> "running", run |-> r]]
      BY <1>5 DEF BeginStage
    <2>2. \/ d = "asr" /\ Move(r, "ensure", [stage |-> d, need |-> Audio])
          \/ d # "asr" /\ Move(r, "finish", [stage |-> d, outcome |-> "failed"])
          \/ d # "asr" /\ Move(r, "open", [stage |-> d, seen |-> StageInput(d)])
      BY <1>5 DEF BeginStage
    <2> HIDE DEF d
    <2>3. /\ OthersStay(r) /\ DOMAIN run'[r] = DOMAIN Idle
          /\ \/ run'[r].pc = "ensure" /\ d = "asr"
             \/ run'[r].pc \in {"finish", "open"} /\ d # "asr"
          /\ run'[r].todo = run[r].todo /\ run'[r].need \in {run[r].need, Audio}
          /\ run'[r].stage = d /\ run'[r].outcome \in {run[r].outcome, "failed"}
      BY <1>0, <2>2, MoveFields
    <2>4. RunSound(r)'
      BY <1>0, <1>1, <2>3 DEF RunSound, Reads, SeesNewer, Needs, Results
    <2> QED
      BY <1>0, <1>1, <1>2, <1>5, <2>1, <2>3, <2>4
         DEF Step, Still, Calm, PartSound, LockStep, Busy, Reading, Releasing
  <1> QED
    BY <1>3, <1>4, <1>5

LEMMA FileIsTyped ==
  ASSUME TablesTyped, FileNow # None
  PROVE  FileNow \in Files /\ files[FileNow.path] = FileNow.content
  <1>1. FileNow = [path |-> row.path, content |-> files[row.path]]
        /\ row.path # None /\ files[row.path] # 0
    BY DEF FileNow
  <1>2. row.path \in Paths /\ files[row.path] \in Contents
    BY <1>1, LifecycleAssumption DEF TablesTyped, Rows, Contents
  <1> QED
    BY <1>1, <1>2 DEF Files

\* What the stages read of their input, before they store anything.
LEMMA AnalyzeSteps ==
  ASSUME MediaInv, NEW r \in Runs, OpenInput(r) \/ Analyze(r) \/ StageFails(r) \/ MatchingFails(r)
  PROVE  Step(r) /\ Still(r)
  <1>0. RunsTyped /\ RunSound(r) /\ Reads(r) /\ crashes \in 0..setting.maxCrashes /\ TablesTyped
    BY Facts
  <1>1. run[r].pc \in {"open", "analyze", "finish"}
        /\ UNCHANGED <<setting, row, files, downloads, stored, attempt, lock, crashes>>
    BY DEF OpenInput, Analyze, StageFails, MatchingFails
  <1>2. \/ \E change : Move(r, "finish", change) /\ change \in [outcome : {"completed", "failed"}]
        \/ OpenInput(r) /\ FileNow # None /\ Move(r, "analyze", [got |-> FileNow])
        \/ Analyze(r)
    BY DEF OpenInput, StageFails, MatchingFails
  <1>3. /\ OthersStay(r) /\ DOMAIN run'[r] = DOMAIN Idle
        /\ run'[r].pc \in {"finish", "analyze", "persist"}
        /\ run'[r].todo = run[r].todo /\ run'[r].need = run[r].need
        /\ run'[r].stage = run[r].stage /\ run'[r].outcome \in Results
        /\ RunSound(r)'
    <2>1. CASE \E change : Move(r, "finish", change) /\ change \in [outcome : {"completed", "failed"}]
      <3>1. PICK change : Move(r, "finish", change) /\ change \in [outcome : {"completed", "failed"}]
        BY <2>1
      <3>2. DOMAIN change = {"outcome"} /\ change.outcome \in {"completed", "failed"}
        BY <3>1
      <3>3. /\ run'[r].pc = "finish" /\ OthersStay(r) /\ DOMAIN run'[r] = DOMAIN Idle
            /\ run'[r].todo = run[r].todo /\ run'[r].need = run[r].need
            /\ run'[r].stage = run[r].stage /\ run'[r].outcome \in {"completed", "failed"}
        BY <1>0, <3>1, <3>2, MoveFields
      <3> QED
        BY <1>0, <1>1, <3>3 DEF RunSound, Reads, SeesNewer, Results
    <2>2. CASE OpenInput(r) /\ FileNow # None /\ Move(r, "analyze", [got |-> FileNow])
      <3>1. /\ run'[r].pc = "analyze" /\ OthersStay(r) /\ DOMAIN run'[r] = DOMAIN Idle
            /\ run'[r].todo = run[r].todo /\ run'[r].need = run[r].need
            /\ run'[r].stage = run[r].stage /\ run'[r].outcome = run[r].outcome
            /\ run'[r].got = FileNow
        BY <1>0, <2>2, MoveFields
      <3>2. FileNow \in Files /\ files[FileNow.path] = FileNow.content
        BY <1>0, <2>2, FileIsTyped
      <3>3. /\ run'[r].got \in Files /\ run'[r].got.content <= files'[run'[r].got.path]
            /\ run'[r].got.content <= downloads'
        BY <1>0, <1>1, <3>1, <3>2 DEF TablesTyped, Files, Contents
      <3> QED
        BY <1>0, <1>1, <3>1, <3>3 DEF RunSound, Reads, SeesNewer
    <2>3. CASE Analyze(r)
      <3>0. Move(r, "persist", [actual |-> files[run[r].got.path]]) /\ run[r].pc = "analyze"
            /\ files[run[r].got.path] # 0
        BY <2>3 DEF Analyze
      <3>1. /\ run'[r].pc = "persist" /\ OthersStay(r) /\ DOMAIN run'[r] = DOMAIN Idle
            /\ run'[r].todo = run[r].todo /\ run'[r].need = run[r].need
            /\ run'[r].stage = run[r].stage /\ run'[r].outcome = run[r].outcome
            /\ run'[r].got = run[r].got /\ run'[r].actual = files[run[r].got.path]
        BY <1>0, <3>0, MoveFields
      <3>2. run[r].got \in Files /\ run[r].got.path \in Paths
        BY <1>0, <3>0 DEF Reads, Files
      <3>3. files[run[r].got.path] \in Contents /\ files[run[r].got.path] <= downloads
        BY <1>0, <3>0, <3>2, LifecycleAssumption DEF TablesTyped, Contents
      <3>4. run[r].got.content <= files[run[r].got.path]
        BY <1>0, <3>0 DEF RunSound, SeesNewer
      <3>5. SeesNewer(r)'
        BY <1>1, <3>1, <3>3, <3>4 DEF SeesNewer, Contents
      <3>6. Reads(r)'
        BY <1>0, <1>1, <3>0, <3>1, <3>2, <3>3 DEF Reads
      <3> QED
        BY <1>0, <3>1, <3>5, <3>6 DEF RunSound, Reads
    <2> QED
      BY <1>2, <2>1, <2>2, <2>3
  <1> QED
    BY <1>0, <1>1, <1>3 DEF Step, Still, Calm, PartSound, LockStep, Leased, Busy, Reading,
       Releasing

\* Output is stored under the hash of the bytes it was computed from.
LEMMA PersistStep ==
  ASSUME MediaInv, NEW r \in Runs, Persist(r)
  PROVE  /\ Step(r) /\ Calm(r) /\ row' = row
         /\ \/ stored' = stored
            \/ \E d \in Stages \ {"asr"}, output \in [label : Files, actual : Contents] :
                 /\ stored' = [stored EXCEPT ![d] =
                      {o \in @ : o.label.content # output.label.content} \cup {output}]
                 /\ output.label.content = output.actual
  <1> DEFINE output == [label |-> run[r].got, actual |-> run[r].actual]
  <1>0. RunsTyped /\ RunSound(r) /\ Reads(r) /\ crashes \in 0..setting.maxCrashes /\ TablesTyped
    BY Facts
  <1>1. /\ run[r].pc = "persist" /\ run[r].stage \in Stages \ {"asr"}
        /\ run[r].got \in Files /\ run[r].actual \in Contents
    BY <1>0 DEF Persist, Reads
  <1>2. PICK outcome \in {"completed", "failed"} : Move(r, "finish", [outcome |-> outcome])
    BY DEF Persist
  <1>3. /\ run'[r].pc = "finish" /\ OthersStay(r) /\ DOMAIN run'[r] = DOMAIN Idle
        /\ run'[r].todo = run[r].todo /\ run'[r].need = run[r].need
        /\ run'[r].stage = run[r].stage /\ run'[r].outcome = outcome
    BY <1>0, <1>2, MoveFields
  <1>4. RunSound(r)' /\ Step(r) /\ Calm(r)
    <2>1. RunSound(r)'
      BY <1>0, <1>1, <1>3 DEF RunSound, Reads, SeesNewer, Results
    <2> QED
      BY <1>0, <1>1, <1>3, <2>1 DEF Persist, Step, Calm, PartSound, LockStep, Leased, Busy,
         Reading,
         Releasing
  <1>5. stored' = stored \/
          /\ stored' = [stored EXCEPT ![run[r].stage] =
               {o \in @ : o.label.content # output.label.content} \cup {output}]
          /\ Unchanged(r)
    BY DEF Persist
  <1>6. ASSUME Unchanged(r) PROVE output.label.content = output.actual
    <2>1. files[run[r].got.path] = run[r].got.content
      BY <1>6 DEF Unchanged
    <2>2. run[r].got.content \in Contents
      BY <1>1 DEF Files
    <2>3. run[r].got.content <= run[r].actual /\ run[r].actual <= run[r].got.content
      BY <1>0, <1>1, <2>1, <2>2 DEF RunSound, SeesNewer, Contents
    <2> QED
      BY <1>1, <2>2, <2>3 DEF Contents
  <1>7. output \in [label : Files, actual : Contents]
    BY <1>1
  <1> HIDE DEF output
  <1>8. row' = row
    BY DEF Persist
  <1> QED
    BY <1>1, <1>4, <1>5, <1>6, <1>7, <1>8

LEMMA StageDoneStep ==
  ASSUME MediaInv, NEW r \in Runs, run[r].pc \in {"finish", "settle"}, StageDone(r),
         UNCHANGED <<files, downloads>>
  PROVE  /\ RunSound(r)' /\ OthersStay(r) /\ run'[r].pc \in {"release", "done", "stages"}
         /\ run'[r].pc = "release" => Kind[r] = "ingest"
  <1>0. RunsTyped /\ RunSound(r) /\ Reads(r)
    BY Facts
  <1>1. CASE Kind[r] = "ingest"
    <2>1. PICK pc \in {"release", "done"} : EndPart(r, pc, run[r].part)
      BY <1>1 DEF StageDone, End
    <2>2. RunSound(r)' /\ OthersStay(r)
      BY <1>0, <2>1, EndedReads
    <2>3. run'[r].pc = pc
      BY <1>0, <2>1, EndPartFields
    <2> QED
      BY <1>1, <2>2, <2>3
  <1>2. CASE Kind[r] # "ingest"
    <2>1. /\ run'[r].pc = "stages" /\ OthersStay(r) /\ DOMAIN run'[r] = DOMAIN Idle
          /\ run'[r].todo = run[r].todo \ {run[r].stage} /\ run'[r].need = run[r].need
          /\ run'[r].stage = None /\ run'[r].outcome = "none"
      BY <1>0, <1>2, MoveFields DEF StageDone
    <2> QED
      BY <1>0, <2>1 DEF RunSound, Reads, SeesNewer, Results
  <1> QED
    BY <1>1, <1>2

LEMMA SettleSteps ==
  ASSUME MediaInv, NEW r \in Runs, FinishStage(r) \/ SettleTranscript(r)
  PROVE  Step(r) /\ Still(r)
  <1>0. RunsTyped /\ RunSound(r) /\ Reads(r) /\ crashes \in 0..setting.maxCrashes
    BY Facts
  <1>1. /\ run[r].pc \in {"finish", "settle"} /\ StageDone(r)
        /\ UNCHANGED <<setting, row, files, downloads, stored, crashes>>
    BY DEF FinishStage, SettleTranscript
  <1>2. run[r].stage \in Stages /\ (SettleTranscript(r) => run[r].stage = "asr")
    BY <1>0, <1>1 DEF Reads, SettleTranscript, Stages
  <1>3. /\ lock' = [lock EXCEPT ![run[r].stage] = None]
        /\ \E outcome \in Results :
             attempt' = [attempt EXCEPT ![run[r].stage] = [state |-> outcome, run |-> r]]
    <2>1. run[r].outcome \in Results /\ "failed" \in Results
      BY <1>0 DEF Reads, Results
    <2>2. CASE FinishStage(r)
      BY <2>1, <2>2 DEF FinishStage
    <2>3. CASE SettleTranscript(r)
      BY <1>2, <2>1, <2>3 DEF SettleTranscript
    <2> QED
      BY <2>2, <2>3
  <1>4. /\ RunSound(r)' /\ OthersStay(r) /\ run'[r].pc \in {"release", "done", "stages"}
        /\ run'[r].pc = "release" => Kind[r] = "ingest"
    BY <1>1, StageDoneStep
  <1>5. LockStep(r)
    BY <1>2, <1>3 DEF LockStep
  <1>6. PartSound(r)'
    BY <1>1, <1>4 DEF PartSound, Releasing, Kind
  <1> QED
    BY <1>0, <1>1, <1>4, <1>5, <1>6 DEF Step, Still, Calm, Busy

LEMMA TranscribeStep ==
  ASSUME MediaInv, NEW r \in Runs, Transcribe(r)
  PROVE  Step(r) /\ Still(r)
  <1>0. RunsTyped /\ RunSound(r) /\ Reads(r) /\ crashes \in 0..setting.maxCrashes /\ TablesTyped
    BY Facts
  <1>1. run[r].pc = "transcribe" /\ run[r].got \in Paths /\ run[r].stage = "asr"
    BY <1>0 DEF Transcribe, Reads
  <1>2. PICK outcome \in {"completed", "skipped", "failed"} :
          /\ outcome # "failed" => files[run[r].got] # 0
          /\ Move(r, "commit", [outcome |-> outcome,
                                actual  |-> IF outcome = "completed" THEN files[run[r].got] ELSE 0])
    BY DEF Transcribe
  <1>3. /\ run'[r].pc = "commit" /\ OthersStay(r) /\ DOMAIN run'[r] = DOMAIN Idle
        /\ run'[r].todo = run[r].todo /\ run'[r].need = run[r].need /\ run'[r].got = run[r].got
        /\ run'[r].stage = run[r].stage /\ run'[r].outcome = outcome
        /\ run'[r].actual = IF outcome = "completed" THEN files[run[r].got] ELSE 0
    BY <1>0, <1>2, MoveFields
  <1>4. outcome = "completed" => run'[r].actual \in Contents
    BY <1>0, <1>1, <1>2, <1>3, LifecycleAssumption DEF TablesTyped, Contents
  <1>5. RunSound(r)'
    BY <1>0, <1>1, <1>3, <1>4 DEF RunSound, Reads, SeesNewer, Results
  <1> QED
    BY <1>0, <1>1, <1>3, <1>5 DEF Transcribe, Step, Still, Calm, PartSound, LockStep, Leased,
       Busy,
       Reading, Releasing

\* The row goes on naming the media it names, or names media that is there.
LEMMA CommitStep ==
  ASSUME MediaInv, NEW r \in Runs, CommitTranscript(r)
  PROVE  /\ Step(r) /\ Calm(r) /\ row' \in Rows /\ Leased(r) /\ run'[r].pc = "settle"
         /\ \/ stored' = stored /\ (row'.path = row.path \/ row'.path # None)
            \/ \E output \in [label : Files, actual : Contents] :
                 stored' = [stored EXCEPT !["asr"] = {output}] /\ row'.path # None
  <1> DEFINE path == run[r].got
             output == [label |-> [path |-> path, content |-> files[path]], actual |-> run[r].actual]
  <1>0. RunsTyped /\ RunSound(r) /\ Reads(r) /\ crashes \in 0..setting.maxCrashes /\ TablesTyped
    BY Facts
  <1>1. /\ run[r].pc = "commit" /\ run[r].stage = "asr" /\ path \in Paths \cup {None}
        /\ run[r].outcome = "completed" =>
             path \in Paths /\ run[r].actual \in Contents /\ files[path] # 0
    BY <1>0 DEF CommitTranscript, Reads
  <1>2. /\ run'[r].pc = "settle" /\ OthersStay(r) /\ DOMAIN run'[r] = DOMAIN Idle
        /\ run'[r].todo = run[r].todo /\ run'[r].need = run[r].need
        /\ run'[r].stage = run[r].stage /\ run'[r].outcome = run[r].outcome
    BY <1>0, MoveFields DEF CommitTranscript
  <1>3. RunSound(r)' /\ UNCHANGED <<setting, files, downloads, attempt, lock, crashes>>
    BY <1>0, <1>1, <1>2 DEF CommitTranscript, RunSound, Reads, SeesNewer
  <1>4. row' = WithPath(path)
        /\ stored' = IF run[r].outcome = "completed" THEN [stored EXCEPT !["asr"] = {output}]
                     ELSE stored
    BY DEF CommitTranscript
  <1>5. row' \in Rows /\ row'.record = row.record
        /\ IF path = None THEN row' = row ELSE row'.path = path
    BY <1>0, <1>1, <1>4 DEF WithPath, Rows, TablesTyped
  <1>6. run[r].outcome = "completed" => output \in [label : Files, actual : Contents]
    <2> SUFFICES ASSUME run[r].outcome = "completed" PROVE output \in [label : Files, actual : Contents]
      OBVIOUS
    <2>1. files[path] \in Contents
      BY <1>0, <1>1, LifecycleAssumption DEF TablesTyped, Contents
    <2> QED
      BY <1>1, <2>1 DEF Files
  <1>7. None \notin Paths
    BY NoneAssumption
  <1>8. Step(r) /\ Calm(r) /\ Leased(r)
    BY <1>0, <1>1, <1>2, <1>3, <1>5 DEF Step, Calm, PartSound, LockStep, Leased, Busy,
       Reading, Releasing
  <1> HIDE DEF output
  <1> QED
    BY <1>1, <1>2, <1>4, <1>5, <1>6, <1>7, <1>8

---------------------------------------------------------------------------
(* The end of a run's work, and its release.                               *)

\* The run, or its part, is over.
LEMMA EndedStep ==
  ASSUME MediaInv, NEW r \in Runs, NEW pc \in {"lease", "release", "done", "crashed"}, NEW part,
         EndPart(r, pc, part), Busy(r), run[r].stage = None \/ ~Leased(r),
         Kind[r] = "process" /\ pc = "release" => part # "extract",
         UNCHANGED <<setting, attempt, lock, crashes>>
  PROVE  Step(r) /\ run'[r].pc = pc
  <1>0. crashes \in 0..setting.maxCrashes
    BY Facts
  <1>1. RunSound(r)' /\ OthersStay(r) /\ run'[r].pc = pc /\ run'[r].part = part
    BY Facts, EndedReads, EndPartFields
  <1>2. LockStep(r)
    BY DEF LockStep
  <1>3. PartSound(r)'
    BY <1>1 DEF PartSound, Releasing, Kind
  <1> QED
    BY <1>0, <1>1, <1>2, <1>3 DEF Step, Busy

LEMMA EndSteps ==
  ASSUME MediaInv, NEW r \in Runs, Cut(r) \/ SkipExtract(r) \/ EndLease(r)
  PROVE  Step(r) /\ Still(r)
  <1>0. Reads(r)
    BY Facts
  <1>1. /\ run[r].pc \in {"cut", "lease", "stages"} /\ run[r].stage = None /\ Busy(r)
        /\ UNCHANGED <<setting, row, files, downloads, stored, attempt, lock, crashes>>
    BY <1>0 DEF Cut, SkipExtract, EndLease, Reads, Busy
  <1>2. \E pc \in {"release", "done"} : \E part :
          EndPart(r, pc, part) /\ (Kind[r] = "process" => part # "extract")
    BY DEF Cut, SkipExtract, EndLease, ExtractDone, End, Work
  <1>3. Step(r) /\ run'[r].pc \in {"release", "done"}
    BY <1>1, <1>2, EndedStep
  <1> QED
    BY <1>1, <1>3 DEF Still, Calm

LEMMA ReleasedStep ==
  ASSUME MediaInv, NEW r \in Runs, run[r].pc \in {"release"} \cup Releasing, Released(r),
         UNCHANGED <<setting, attempt, lock, crashes>>
  PROVE  Step(r) /\ run'[r].pc \in {"lease", "done"}
  <1>1. Busy(r) /\ ~Leased(r)
    BY DEF Busy, Leased, Reading, Releasing
  <1>2. \E pc \in {"lease", "done"} : \E part : EndPart(r, pc, part)
    BY DEF Released, End
  <1> QED
    BY <1>1, <1>2, EndedStep

LEMMA ReleaseSteps ==
  ASSUME MediaInv, NEW r \in Runs, TryRelease(r) \/ NothingToRelease(r)
  PROVE  Step(r) /\ Still(r)
  <1>0. RunsTyped /\ RunSound(r) /\ PartSound(r) /\ Reads(r) /\ crashes \in 0..setting.maxCrashes
    BY Facts
  <1>1. run[r].pc \in {"release", "releasing"}
        /\ UNCHANGED <<setting, row, files, downloads, stored, attempt, lock, crashes>>
    BY DEF TryRelease, NothingToRelease
  <1>2. CASE Released(r)
    <2>1. Step(r) /\ run'[r].pc \in {"lease", "done"}
      BY <1>1, <1>2, ReleasedStep DEF Releasing
    <2> QED
      BY <1>1, <2>1 DEF Still, Calm
  <1>3. CASE run[r].pc = "release" /\ Move(r, "releasing", <<>>)
    <2>1. DOMAIN <<>> = {}
      OBVIOUS
    <2>2. /\ run'[r].pc = "releasing" /\ OthersStay(r) /\ DOMAIN run'[r] = DOMAIN Idle
          /\ run'[r].todo = run[r].todo /\ run'[r].need = run[r].need /\ run'[r].part = run[r].part
          /\ run'[r].stage = run[r].stage /\ run'[r].outcome = run[r].outcome
      BY <1>0, <1>3, <2>1, MoveFields
    <2>3. RunSound(r)' /\ PartSound(r)'
      BY <1>0, <1>1, <1>3, <2>2 DEF RunSound, Reads, SeesNewer, PartSound, Releasing, Kind
    <2> QED
      BY <1>0, <1>1, <1>3, <2>2, <2>3 DEF Step, Still, Calm, LockStep, Leased, Busy, Reading
  <1> QED
    BY <1>2, <1>3 DEF TryRelease, NothingToRelease

LEMMA CommitReleaseStep ==
  ASSUME MediaInv, NEW r \in Runs, CommitRelease(r)
  PROVE  /\ Step(r) /\ run[r].pc = "removed" /\ run'[r].pc \in {"lease", "done"}
         /\ row' = run[r].next /\ run[r].next \in Rows
         /\ UNCHANGED <<files, downloads, stored>>
  <1>1. run[r].next \in Rows
    BY Facts DEF CommitRelease, Reads
  <1>2. Step(r) /\ run'[r].pc \in {"lease", "done"}
    BY ReleasedStep DEF CommitRelease, Releasing
  <1> QED
    BY <1>1, <1>2 DEF CommitRelease

LEMMA CrashStep ==
  ASSUME MediaInv, NEW r \in Runs, Crash(r)
  PROVE  Step(r) /\ Still(r)
  <1>0. RunsTyped /\ RunSound(r) /\ Reads(r) /\ crashes \in 0..setting.maxCrashes
    BY Facts
  <1>1. setting.maxCrashes \in Nat
    BY Facts, LifecycleAssumption DEF IsSetting
  <1>2. crashes' \in 0..setting.maxCrashes
    BY <1>0, <1>1 DEF Crash
  <1>3. EndPart(r, "crashed", run[r].part) /\ Busy(r)
    BY DEF Crash, End, Busy
  <1>4. RunSound(r)' /\ OthersStay(r) /\ run'[r].pc = "crashed"
    BY <1>0, <1>3, EndedReads, EndPartFields
  <1>5. UNCHANGED <<setting, row, files, downloads, stored, attempt>>
        /\ lock' = [d \in Stages |-> IF lock[d] = r THEN None ELSE lock[d]]
    BY DEF Crash
  <1> QED
    BY <1>2, <1>3, <1>4, <1>5 DEF Step, Still, Calm, PartSound, LockStep, Busy, Releasing

\* What the deletions come to: the current file goes, or is found gone; the paths that are
\* cleared; and the record to come.
Current(r) == DeletesCurrent(r) /\ Holds(row.record)
Cleared(r) == DeletesCurrent(r) /\ (Holds(row.record) \/ Absent(row.record))
Gone(r) == {e.path : e \in SupersededToDelete} \cup (IF Current(r) THEN {row.path} ELSE {})
RecordToCome(r) == [row.record EXCEPT !.superseded = @ \ SupersededToMark,
                                      !.deleted = @ \/ Cleared(r),
                                      !.fingerprint = @ \/ Current(r)]

LEMMA RemoveFields ==
  ASSUME NEW r \in Runs, row.record \in Records
  PROVE  /\ RecordToCome(r) \in Records
         /\ RecordToCome(r).path = row.record.path /\ RecordToCome(r).content = row.record.content
         /\ RecordToCome(r).superseded = row.record.superseded \ SupersededToMark
         /\ RecordToCome(r).deleted = (row.record.deleted \/ Cleared(r))
         /\ RecordToCome(r).fingerprint = (row.record.fingerprint \/ Current(r))
  <1>1. Cleared(r) \in BOOLEAN /\ Current(r) \in BOOLEAN
    BY DEF Cleared, Current
  <1> DEFINE rec == row.record
             left == rec.superseded \ SupersededToMark
  <1>2. left \in SUBSET Files /\ (rec.deleted \/ Cleared(r)) \in BOOLEAN
        /\ (rec.fingerprint \/ Current(r)) \in BOOLEAN
    BY DEF Records
  <1> DEFINE b == rec.deleted \/ Cleared(r)
             c == rec.fingerprint \/ Current(r)
  <1>3. RecordToCome(r) = [rec EXCEPT !.superseded = left, !.deleted = b, !.fingerprint = c]
    BY DEF RecordToCome
  <1> HIDE DEF left, b, c
  <1>5. left \in SUBSET Files /\ b \in BOOLEAN /\ c \in BOOLEAN
    BY <1>2 DEF left, b, c
  <1>6. RecordToCome(r) \in Records
    BY <1>3, <1>5 DEF Records
  <1>7. /\ RecordToCome(r).path = rec.path /\ RecordToCome(r).content = rec.content
        /\ RecordToCome(r).superseded = left
        /\ RecordToCome(r).deleted = b /\ RecordToCome(r).fingerprint = c
    BY <1>3 DEF Records
  <1> QED
    BY <1>6, <1>7 DEF left, b, c

LEMMA RemoveStep ==
  ASSUME MediaInv, NEW r \in Runs, RemoveFiles(r)
  PROVE  /\ Step(r) /\ run[r].pc = "releasing" /\ run'[r].pc = "removed"
         /\ UNCHANGED <<row, downloads, stored>> /\ row.record \in Records
         /\ files' = [p \in Paths |-> IF p \in Gone(r) THEN 0 ELSE files[p]]
         /\ run'[r].next = [path   |-> IF Cleared(r) THEN None ELSE row.path,
                            record |-> RecordToCome(r)]
  <1>0. RunsTyped /\ RunSound(r) /\ PartSound(r) /\ Reads(r) /\ TablesTyped
        /\ crashes \in 0..setting.maxCrashes
    BY Facts
  <1>1. run[r].pc = "releasing" /\ row.record # None
        /\ UNCHANGED <<setting, row, downloads, stored, attempt, lock, crashes>>
    BY DEF RemoveFiles
  <1>2. row.record \in Records /\ row.path \in Paths \cup {None}
    BY <1>0, <1>1 DEF TablesTyped, Rows
  <1> DEFINE next == [path |-> IF Cleared(r) THEN None ELSE row.path, record |-> RecordToCome(r)]
  <1>3. /\ files' = [p \in Paths |-> IF p \in Gone(r) THEN 0 ELSE files[p]]
        /\ Move(r, "removed", [next |-> next])
    BY DEF RemoveFiles, Gone, Cleared, Current, RecordToCome
  <1>4. next \in Rows
    BY <1>2, RemoveFields DEF Rows
  <1>5. /\ RecordToCome(r).content <= downloads'
        /\ RecordToCome(r).deleted => files'[RecordToCome(r).path] # RecordToCome(r).content
        /\ \A e \in RecordToCome(r).superseded : e.path # RecordToCome(r).path
    <2>1. files'[row.record.path] \in {0, files[row.record.path]} /\ row.record.content \in Contents
          /\ row.record.path \in Paths
      BY <1>2, <1>3 DEF Records
    <2>2. Cleared(r) => files'[row.record.path] = 0
      <3>1. CASE Holds(row.record)
        BY <1>3, <2>1, <3>1 DEF Cleared, Current, Gone, DeletesCurrent
      <3>2. CASE Absent(row.record)
        BY <2>1, <3>2 DEF Absent
      <3> QED
        BY <3>1, <3>2 DEF Cleared
    <2>3. /\ row.record.content <= downloads
          /\ row.record.deleted => files[row.record.path] # row.record.content
          /\ \A e \in row.record.superseded : e.path # row.record.path
      BY <1>1 DEF MediaInv, RecordSound
    <2>4. row.record.deleted \/ Cleared(r) => files'[row.record.path] # row.record.content
      BY <2>1, <2>2, <2>3 DEF Contents
    <2> QED
      BY <1>1, <1>2, <2>3, <2>4, RemoveFields
  <1> HIDE DEF next
  <1>6. /\ run'[r].pc = "removed" /\ OthersStay(r) /\ DOMAIN run'[r] = DOMAIN Idle
        /\ run'[r].todo = run[r].todo /\ run'[r].need = run[r].need /\ run'[r].part = run[r].part
        /\ run'[r].stage = run[r].stage /\ run'[r].outcome = run[r].outcome /\ run'[r].next = next
    BY <1>0, <1>3, MoveFields
  <1>7. next.record = RecordToCome(r)
    BY DEF next
  <1>8. RunSound(r)' /\ PartSound(r)'
    <2>1. Reads(r)' /\ SeesNewer(r)'
      BY <1>0, <1>1, <1>4, <1>6 DEF RunSound, Reads, SeesNewer
    <2>2. RecordSound(run[r].next.record)'
      BY <1>5, <1>6, <1>7 DEF RecordSound
    <2> QED
      BY <1>0, <1>1, <1>6, <2>1, <2>2 DEF RunSound, PartSound, Releasing, Kind
  <1>9. Step(r)
    BY <1>0, <1>1, <1>6, <1>8 DEF Step, LockStep, Leased, Busy, Reading
  <1>10. run'[r].next = [path |-> IF Cleared(r) THEN None ELSE row.path, record |-> RecordToCome(r)]
    BY <1>6 DEF next
  <1> QED
    BY <1>1, <1>2, <1>3, <1>6, <1>9, <1>10

---------------------------------------------------------------------------
(* Every step keeps the invariant.                                         *)

\* No file is replaced by older bytes.
Newer ==
  /\ downloads <= downloads'
  /\ \A p \in Paths : files'[p] = files[p] \/ files'[p] = 0 \/ downloads < files'[p]

LEMMA SoundWhenNewer ==
  ASSUME TablesTyped, Newer, downloads' \in Nat, NEW record \in Records \cup {None},
         record # None => /\ record.content <= downloads
                          /\ record.deleted => files[record.path] # record.content
  PROVE  record # None => /\ record.content <= downloads'
                          /\ record.deleted => files'[record.path] # record.content
  <1> SUFFICES ASSUME record # None
               PROVE  /\ record.content <= downloads'
                      /\ record.deleted => files'[record.path] # record.content
    OBVIOUS
  <1>1. record.content \in Contents /\ record.path \in Paths
    BY DEF Records
  <1>2. downloads \in Nat /\ record.content \in Nat \ {0}
    BY <1>1 DEF TablesTyped, Contents
  <1>3. record.content <= downloads'
    BY <1>2 DEF Newer
  <1>4. \/ files'[record.path] = files[record.path] \/ files'[record.path] = 0
        \/ downloads < files'[record.path]
    BY <1>1 DEF Newer
  <1> QED
    BY <1>2, <1>3, <1>4

\* What the other runs have read is no older for the step.
LEMMA OthersSound ==
  ASSUME MediaInv, NEW r \in Runs, Step(r), Newer, downloads' \in Nat,
         \A p \in Paths : files'[p] \in Nat
  PROVE  \A q \in Runs : RunSound(q)' /\ PartSound(q)'
  <1> SUFFICES ASSUME NEW q \in Runs, q # r PROVE RunSound(q)' /\ PartSound(q)'
    BY DEF Step
  <1>0. run'[q] = run[q] /\ RunSound(q) /\ PartSound(q) /\ Reads(q) /\ TablesTyped
        /\ setting' = setting
    BY Facts DEF Step, OthersStay
  <1>1. downloads \in Nat /\ \A p \in Paths : files[p] \in Nat /\ files[p] <= downloads
    BY <1>0 DEF TablesTyped
  <1>2. Reads(q)' /\ PartSound(q)'
    BY <1>0 DEF Reads, PartSound, Kind
  <1>3. SeesNewer(q)'
    <2> SUFFICES ASSUME run[q].pc \in {"analyze", "persist"} PROVE SeesNewer(q)'
      BY <1>0 DEF SeesNewer
    <2>1. run[q].got.path \in Paths /\ run[q].got.content \in Nat
      BY <1>0 DEF Reads, Files, Contents
    <2> DEFINE old == files[run[q].got.path]
               new == files'[run[q].got.path]
    <2>2. /\ downloads <= downloads' /\ (new = old \/ new = 0 \/ downloads < new)
          /\ old \in Nat /\ new \in Nat
      BY <1>1, <2>1 DEF Newer
    <2> HIDE DEF old, new
    <2>3. CASE run[q].pc = "analyze"
      <3>1. run[q].got.content <= downloads /\ (old = 0 \/ run[q].got.content <= old)
        BY <1>0, <2>3 DEF RunSound, SeesNewer, old
      <3>2. run[q].got.content <= downloads' /\ (new = 0 \/ run[q].got.content <= new)
        BY <1>1, <2>1, <2>2, <3>1
      <3> QED
        BY <1>0, <2>3, <3>2 DEF SeesNewer, new
    <2>4. CASE run[q].pc = "persist"
      <3>1. run[q].actual \in Nat
        BY <1>0, <2>4 DEF Reads, Contents
      <3>2. /\ run[q].got.content <= run[q].actual /\ run[q].actual <= downloads
            /\ old = 0 \/ run[q].actual <= old
        BY <1>0, <2>4 DEF RunSound, SeesNewer, old
      <3>3. run[q].actual <= downloads' /\ (new = 0 \/ run[q].actual <= new)
        BY <1>1, <2>2, <3>1, <3>2
      <3> QED
        BY <1>0, <2>4, <3>2, <3>3 DEF SeesNewer, new
    <2> QED
      BY <2>3, <2>4
  <1>4. run[q].pc = "record" => run[q].got.content <= downloads'
    <2> SUFFICES ASSUME run[q].pc = "record" PROVE run[q].got.content <= downloads'
      OBVIOUS
    <2>1. run[q].got.content \in Nat /\ run[q].got.content <= downloads
      BY <1>0 DEF Reads, RunSound, Files, Contents
    <2> QED
      BY <1>1, <2>1 DEF Newer
  <1>5. run[q].pc = "removed" => RecordSound(run[q].next.record)'
    <2> SUFFICES ASSUME run[q].pc = "removed" PROVE RecordSound(run[q].next.record)'
      OBVIOUS
    <2>1. run[q].next.record \in Records \cup {None}
      BY <1>0 DEF Reads, Rows
    <2>2. run[q].next.record # None =>
            /\ run[q].next.record.content <= downloads
            /\ run[q].next.record.deleted =>
                 files[run[q].next.record.path] # run[q].next.record.content
            /\ \A e \in run[q].next.record.superseded : e.path # run[q].next.record.path
      BY <1>0 DEF RunSound, RecordSound
    <2>3. run[q].next.record # None =>
            /\ run[q].next.record.content <= downloads'
            /\ run[q].next.record.deleted =>
                 files'[run[q].next.record.path] # run[q].next.record.content
      BY <1>0, <2>1, <2>2, SoundWhenNewer
    <2> QED
      BY <1>0, <2>2, <2>3 DEF RecordSound
  <1> QED
    BY <1>0, <1>2, <1>3, <1>4, <1>5 DEF RunSound

\* The lock of a stage is held by a run that is in the stage.
LEMMA LocksSound ==
  ASSUME MediaInv, NEW r \in Runs, Step(r)
  PROVE  /\ \A d \in Stages : LockSound(d)'
         /\ attempt' = [d \in Stages |-> attempt'[d]] /\ lock' = [d \in Stages |-> lock'[d]]
         /\ \A d \in Stages : attempt'[d].state \in Results \cup {"running"}
  <1>0. /\ attempt = [d \in Stages |-> attempt[d]] /\ lock = [d \in Stages |-> lock[d]]
        /\ \A d \in Stages : attempt[d].state \in Results \cup {"running"}
        /\ \A d \in Stages : LockSound(d)
    BY DEF MediaInv, TablesTyped
  <1>1. \A q \in Runs \ {r} : run'[q] = run[q]
    BY DEF Step, OthersStay
  <1>2. None \notin Runs /\ None \notin Stages
    BY NoneAssumption
  <1>3. CASE UNCHANGED <<lock, attempt>> /\
               (run[r].stage = None \/ ~Leased(r) \/ (run'[r].pc \in Reading /\ run'[r].stage = run[r].stage))
    BY <1>0, <1>1, <1>2, <1>3 DEF LockSound, Leased
  <1>4. CASE \E d \in Stages :
               /\ lock[d] = None /\ run[r].stage = None
               /\ lock' = [lock EXCEPT ![d] = r]
               /\ attempt' = [attempt EXCEPT ![d] = [state |-> "running", run |-> r]]
               /\ run'[r].pc \in Reading /\ run'[r].stage = d
    <2>1. PICK d \in Stages :
               /\ lock[d] = None /\ run[r].stage = None
               /\ lock' = [lock EXCEPT ![d] = r]
               /\ attempt' = [attempt EXCEPT ![d] = [state |-> "running", run |-> r]]
               /\ run'[r].pc \in Reading /\ run'[r].stage = d
      BY <1>4
    <2>2. LockSound(d)'
      BY <1>0, <2>1 DEF LockSound, Leased
    <2>3. \A e \in Stages \ {d} : lock'[e] = lock[e] /\ attempt'[e] = attempt[e]
      BY <1>0, <2>1
    <2>4. \A e \in Stages : lock[e] # r
      BY <1>0, <1>2, <2>1 DEF LockSound
    <2>5. \A e \in Stages \ {d} : LockSound(e)'
      BY <1>0, <1>1, <2>3, <2>4 DEF LockSound, Leased
    <2>6. /\ attempt' = [e \in Stages |-> attempt'[e]] /\ lock' = [e \in Stages |-> lock'[e]]
          /\ attempt'[d].state = "running"
      BY <1>0, <2>1
    <2> QED
      BY <1>0, <2>2, <2>3, <2>5, <2>6
  <1>5. CASE /\ run[r].stage \in Stages
             /\ lock' = [lock EXCEPT ![run[r].stage] = None]
             /\ \E outcome \in Results :
                  attempt' = [attempt EXCEPT ![run[r].stage] = [state |-> outcome, run |-> r]]
    <2>1. PICK outcome \in Results :
            attempt' = [attempt EXCEPT ![run[r].stage] = [state |-> outcome, run |-> r]]
      BY <1>5
    <2> DEFINE d == run[r].stage
    <2>2. lock'[d] = None /\ attempt'[d].state = outcome
      BY <1>0, <1>5, <2>1
    <2>3. \A e \in Stages \ {d} : lock'[e] = lock[e] /\ attempt'[e] = attempt[e]
      BY <1>0, <1>5, <2>1
    <2>4. \A e \in Stages \ {d} : lock[e] # r
      BY <1>0, <1>2, <1>5 DEF LockSound
    <2>5. \A e \in Stages \ {d} : LockSound(e)'
      BY <1>0, <1>1, <2>3, <2>4 DEF LockSound, Leased
    <2>6. /\ attempt' = [e \in Stages |-> attempt'[e]] /\ lock' = [e \in Stages |-> lock'[e]]
      BY <1>0, <1>5, <2>1
    <2> HIDE DEF d
    <2>7. \A e \in Stages : LockSound(e)'
      BY <2>2, <2>5 DEF LockSound
    <2> QED
      BY <1>0, <2>2, <2>3, <2>6, <2>7
  <1>6. CASE lock' = [d \in Stages |-> IF lock[d] = r THEN None ELSE lock[d]] /\ attempt' = attempt
    BY <1>0, <1>1, <1>6 DEF LockSound, Leased
  <1> QED
    BY <1>3, <1>4, <1>5, <1>6 DEF Step, LockStep

\* A step keeps the invariant when it keeps the row, the directory and the outputs sound.
LEMMA StepKeeps ==
  ASSUME MediaInv, NEW r \in Runs, Step(r), Newer, LocksInv', downloads' \in 0..MaxDownloads,
         files' \in [Paths -> 0..MaxDownloads], \A p \in Paths : files'[p] <= downloads',
         row' \in Rows, RecordSound(row.record)',
         stored' = [d \in Stages |-> stored'[d]],
         \A d \in Stages : \A o \in stored'[d] :
           /\ o.label \in Files /\ o.actual \in Contents
           /\ d # "asr" => o.label.content = o.actual
  PROVE  MediaInv'
  <1>1. downloads' \in Nat /\ \A p \in Paths : files'[p] \in Nat
    BY LifecycleAssumption
  <1>2. \A q \in Runs : RunSound(q)' /\ PartSound(q)'
    BY <1>1, OthersSound
  <1>3. (\A d \in Stages : LockSound(d))'
    BY LocksSound
  <1>4. TablesTyped'
    BY LocksSound DEF TablesTyped, Step
  <1>5. OutputsMatchInput'
    BY DEF OutputsMatchInput
  <1> QED
    BY <1>2, <1>3, <1>4, <1>5 DEF MediaInv

\* So do the steps that change no file and no record.
LEMMA CalmKeeps ==
  ASSUME MediaInv, NEW r \in Runs, Step(r), Calm(r), LocksInv', row' \in Rows,
         stored' = [d \in Stages |-> stored'[d]],
         \A d \in Stages : \A o \in stored'[d] :
           /\ o.label \in Files /\ o.actual \in Contents
           /\ d # "asr" => o.label.content = o.actual
  PROVE  MediaInv'
  <1>1. TablesTyped /\ RecordSound(row.record) /\ UNCHANGED <<files, downloads>>
        /\ row'.record = row.record
    BY DEF MediaInv, Calm
  <1>2. Newer /\ RecordSound(row.record)'
    BY <1>1 DEF Newer, TablesTyped, RecordSound
  <1>3. /\ downloads' \in 0..MaxDownloads /\ files' \in [Paths -> 0..MaxDownloads]
        /\ \A p \in Paths : files'[p] <= downloads'
    BY <1>1 DEF TablesTyped
  <1> QED
    BY <1>2, <1>3, StepKeeps

\* Every step is one of those that change no file, no row and no output, or one of the six
\* that do.
LEMMA StepKinds ==
  ASSUME MediaInv, Next
  PROVE  \E r \in Runs : \/ Step(r) /\ Still(r)
                         \/ Download(r) \/ RecordMedia(r) \/ Persist(r) \/ CommitTranscript(r)
                         \/ RemoveFiles(r) \/ CommitRelease(r)
  BY PlanSteps, LeaseSteps, EnsureSteps, BeginStep, AnalyzeSteps, SettleSteps, TranscribeStep,
     EndSteps, ReleaseSteps, CrashStep DEF Next

LEMMA OutputsTyped ==
  ASSUME MediaInv
  PROVE  /\ stored = [d \in Stages |-> stored[d]]
         /\ \A d \in Stages : \A o \in stored[d] :
              /\ o.label \in Files /\ o.actual \in Contents
              /\ d # "asr" => o.label.content = o.actual
  BY DEF MediaInv, TablesTyped, OutputsMatchInput

LEMMA StillKeeps ==
  ASSUME MediaInv, LocksInv', NEW r \in Runs, Step(r), Still(r)
  PROVE  MediaInv'
  BY OutputsTyped, CalmKeeps, Facts DEF Still

LEMMA DownloadKeeps ==
  ASSUME MediaInv, LocksInv', NEW r \in Runs, Download(r)
  PROVE  MediaInv'
  <1>0. TablesTyped /\ RecordSound(row.record)
    BY DEF MediaInv
  <1>1. /\ Step(r) /\ run'[r].got \in Files /\ UNCHANGED <<row, stored>>
        /\ downloads' = downloads + 1 /\ downloads' \in Contents
        /\ files' = [files EXCEPT ![run'[r].got.path] = run'[r].got.content]
        /\ run'[r].got.content = downloads + 1
    BY DownloadStep
  <1>2. downloads \in Nat /\ downloads' \in 0..MaxDownloads
    BY <1>0, <1>1 DEF TablesTyped, Contents
  <1>3. \A p \in Paths : files'[p] = files[p] \/ files'[p] = downloads + 1
    BY <1>0, <1>1 DEF TablesTyped
  <1>4. files' \in [Paths -> 0..MaxDownloads] /\ \A p \in Paths : files'[p] <= downloads'
    <2>1. \A p \in Paths : files'[p] \in 0..MaxDownloads /\ files'[p] <= downloads'
      BY <1>0, <1>1, <1>2, <1>3 DEF TablesTyped
    <2> QED
      BY <1>0, <1>1, <2>1 DEF TablesTyped
  <1>5. Newer
    BY <1>1, <1>2, <1>3 DEF Newer
  <1>6. RecordSound(row.record)'
    <2>1. row.record \in Records \cup {None}
      BY <1>0 DEF TablesTyped, Rows
    <2>2. row.record # None => /\ row.record.content <= downloads'
                               /\ row.record.deleted => files'[row.record.path] # row.record.content
      BY <1>0, <1>2, <1>5, <2>1, SoundWhenNewer DEF RecordSound
    <2> QED
      BY <1>0, <1>1, <2>2 DEF RecordSound
  <1>7. row' \in Rows
    BY <1>0, <1>1 DEF TablesTyped
  <1> QED
    BY <1>1, <1>2, <1>4, <1>5, <1>6, <1>7, OutputsTyped, StepKeeps

LEMMA SameFilesKeep ==
  ASSUME MediaInv, LocksInv', NEW r \in Runs, Step(r), UNCHANGED <<files, downloads, stored>>,
         row' \in Rows, RecordSound(row.record)'
  PROVE  MediaInv'
  <1>0. TablesTyped
    BY DEF MediaInv
  <1>1. Newer
    BY <1>0 DEF Newer, TablesTyped
  <1>2. /\ downloads' \in 0..MaxDownloads /\ files' \in [Paths -> 0..MaxDownloads]
        /\ \A p \in Paths : files'[p] <= downloads'
    BY <1>0 DEF TablesTyped
  <1> QED
    BY <1>1, <1>2, OutputsTyped, StepKeeps

\* The row that a download leaves.
LEMMA RecordFields ==
  ASSUME MediaInv, NEW r \in Runs, RecordMedia(r)
  PROVE  /\ Step(r) /\ run'[r].pc \in {"commit", "transcribe", "cut", "stages"}
         /\ UNCHANGED <<files, downloads, stored>>
         /\ run[r].got \in Files /\ run[r].previous \in Records \cup {None}
         /\ row' \in Rows /\ row'.path = run[r].got.path /\ row'.path # None
         /\ row'.record \in Records
         /\ row'.record.path = run[r].got.path /\ row'.record.content = run[r].got.content
         /\ row'.record.deleted = FALSE
         /\ row'.record.superseded = Superseded(run[r].previous, run[r].got.path)
  <1>1. run[r].got \in Files /\ run[r].previous \in Records \cup {None} /\ run[r].need \in Needs
    BY Facts DEF Reads, RecordMedia
  <1>2. Superseded(run[r].previous, run[r].got.path) \in SUBSET Files
    <2> SUFFICES ASSUME run[r].previous # None
                 PROVE  Superseded(run[r].previous, run[r].got.path) \in SUBSET Files
      BY DEF Superseded
    <2>1. /\ run[r].previous.superseded \subseteq Files
          /\ [path |-> run[r].previous.path, content |-> run[r].previous.content] \in Files
      BY <1>1 DEF Records, Files
    <2> QED
      BY <2>1 DEF Superseded
  <1> DEFINE S == Superseded(run[r].previous, run[r].got.path)
             record == [need |-> run[r].need, path |-> run[r].got.path, content |-> run[r].got.content,
                        deleted |-> FALSE, fingerprint |-> FALSE, superseded |-> S]
  <1>3. row' = [path |-> run[r].got.path, record |-> record]
        /\ UNCHANGED <<files, downloads, stored>>
    BY DEF RecordMedia
  <1>4. S \in SUBSET Files
    BY <1>2
  <1> HIDE DEF S
  <1>5. run[r].got.path \in Paths /\ run[r].got.content \in Contents
    BY <1>1 DEF Files
  <1>6. record \in Records
    BY <1>1, <1>4, <1>5 DEF Records
  <1>7. row' \in Rows
    BY <1>3, <1>5, <1>6 DEF Rows
  <1>8. row'.path # None
    BY <1>3, <1>5, NoneAssumption
  <1> QED
    BY <1>1, <1>3, <1>6, <1>7, <1>8, RecordStep DEF S

LEMMA RecordKeeps ==
  ASSUME MediaInv, LocksInv', NEW r \in Runs, RecordMedia(r)
  PROVE  MediaInv'
  <1>1. run[r].got.content <= downloads
    BY Facts DEF RunSound, RecordMedia
  <1>2. \A e \in Superseded(run[r].previous, run[r].got.path) : e.path # run[r].got.path
    BY DEF Superseded
  <1>3. RecordSound(row.record)'
    BY <1>1, <1>2, RecordFields DEF RecordSound
  <1> QED
    BY <1>3, RecordFields, SameFilesKeep

LEMMA CommitReleaseKeeps ==
  ASSUME MediaInv, LocksInv', NEW r \in Runs, CommitRelease(r)
  PROVE  MediaInv'
  <1>1. Step(r) /\ row' = run[r].next /\ row' \in Rows /\ UNCHANGED <<files, downloads, stored>>
    BY CommitReleaseStep
  <1>2. RecordSound(run[r].next.record)
    BY Facts DEF RunSound, CommitRelease
  <1>3. RecordSound(row.record)'
    BY <1>1, <1>2 DEF RecordSound
  <1> QED
    BY <1>1, <1>3, SameFilesKeep

LEMMA PersistKeeps ==
  ASSUME MediaInv, LocksInv', NEW r \in Runs, Persist(r)
  PROVE  MediaInv'
  <1>1. Step(r) /\ Calm(r) /\ row' \in Rows
    BY PersistStep, Facts
  <1>2. CASE stored' = stored
    BY <1>1, <1>2, OutputsTyped, CalmKeeps
  <1>3. CASE stored' # stored
    <2>1. PICK d \in Stages \ {"asr"}, output \in [label : Files, actual : Contents] :
            /\ stored' = [stored EXCEPT ![d] =
                 {o \in @ : o.label.content # output.label.content} \cup {output}]
            /\ output.label.content = output.actual
      BY <1>3, PersistStep
    <2>2. /\ stored'[d] \subseteq stored[d] \cup {output}
          /\ \A e \in Stages \ {d} : stored'[e] = stored[e]
      BY <2>1, OutputsTyped
    <2>3. output.label \in Files /\ output.actual \in Contents
      BY <2>1
    <2>4. \A e \in Stages : \A o \in stored'[e] :
            /\ o.label \in Files /\ o.actual \in Contents
            /\ e # "asr" => o.label.content = o.actual
      BY <2>1, <2>2, <2>3, OutputsTyped
    <2>5. stored' = [e \in Stages |-> stored'[e]]
      BY <2>1, OutputsTyped
    <2> QED
      BY <1>1, <2>4, <2>5, CalmKeeps
  <1> QED
    BY <1>2, <1>3

LEMMA CommitKeeps ==
  ASSUME MediaInv, LocksInv', NEW r \in Runs, CommitTranscript(r)
  PROVE  MediaInv'
  <1>1. Step(r) /\ Calm(r) /\ row' \in Rows
    BY CommitStep
  <1>2. CASE stored' = stored
    BY <1>1, <1>2, OutputsTyped, CalmKeeps
  <1>3. CASE stored' # stored
    <2>1. PICK output \in [label : Files, actual : Contents] :
            stored' = [stored EXCEPT !["asr"] = {output}]
      BY <1>3, CommitStep
    <2>2. stored'["asr"] \subseteq {output} /\ \A e \in Stages \ {"asr"} : stored'[e] = stored[e]
      BY <2>1, OutputsTyped DEF Stages
    <2>3. output.label \in Files /\ output.actual \in Contents
      BY <2>1
    <2>4. \A e \in Stages : \A o \in stored'[e] :
            /\ o.label \in Files /\ o.actual \in Contents
            /\ e # "asr" => o.label.content = o.actual
      BY <2>1, <2>2, <2>3, OutputsTyped
    <2>5. stored' = [e \in Stages |-> stored'[e]]
      BY <2>1, OutputsTyped
    <2> QED
      BY <1>1, <2>4, <2>5, CalmKeeps
  <1> QED
    BY <1>2, <1>3

LEMMA RemoveKeeps ==
  ASSUME MediaInv, LocksInv', NEW r \in Runs, RemoveFiles(r)
  PROVE  MediaInv'
  <1>0. TablesTyped /\ RecordSound(row.record)
    BY DEF MediaInv
  <1>1. /\ Step(r) /\ UNCHANGED <<row, downloads, stored>> /\ row.record \in Records
        /\ files' = [p \in Paths |-> IF p \in Gone(r) THEN 0 ELSE files[p]]
    BY RemoveStep
  <1>2. Newer
    BY <1>0, <1>1 DEF Newer, TablesTyped
  <1>3. /\ downloads' \in 0..MaxDownloads /\ files' \in [Paths -> 0..MaxDownloads]
        /\ \A p \in Paths : files'[p] <= downloads'
    <2>1. \A p \in Paths : files'[p] \in {0, files[p]}
      BY <1>1
    <2>2. downloads \in Nat /\ MaxDownloads \in Nat /\ files \in [Paths -> 0..MaxDownloads]
      BY <1>0, LifecycleAssumption DEF TablesTyped
    <2>3. \A p \in Paths : files'[p] \in 0..MaxDownloads /\ files'[p] <= downloads
      BY <1>0, <2>1, <2>2 DEF TablesTyped
    <2> QED
      BY <1>0, <1>1, <2>3 DEF TablesTyped
  <1>4. RecordSound(row.record)'
    <2>1. row.record # None => /\ row.record.content <= downloads'
                               /\ row.record.deleted => files'[row.record.path] # row.record.content
      BY <1>0, <1>1, <1>2, SoundWhenNewer DEF RecordSound, TablesTyped
    <2> QED
      BY <1>0, <1>1, <2>1 DEF RecordSound
  <1>5. row' \in Rows
    BY <1>0, <1>1 DEF TablesTyped
  <1> QED
    BY <1>1, <1>2, <1>3, <1>4, <1>5, OutputsTyped, StepKeeps

LEMMA MediaInvKept == ASSUME MediaInv, LocksInv', Next PROVE MediaInv'
  BY StepKinds, StillKeeps, DownloadKeeps, RecordKeeps, PersistKeeps, CommitKeeps, RemoveKeeps,
     CommitReleaseKeeps

---------------------------------------------------------------------------
(* The files that the record names.                                        *)

LEMMA OneKept ==
  ASSUME MediaInv, OneAtATime, NEW r \in Runs, Step(r)
  PROVE  OneAtATime'
  BY DEF OneAtATime, Step, OthersStay, Busy, MayStart, Overlapping

\* Where runs follow one another and none has crashed, a step finds the other runs before
\* their start or over.
LEMMA Alone ==
  ASSUME MediaInv, OneAtATime, FilesNamed, NEW r \in Runs, Step(r), ~Overlapping,
         \A q \in Runs : run'[q].pc # "crashed"
  PROVE  /\ DirectoryNamed
         /\ \A q \in Runs \ {r} : run'[q].pc \notin {"download", "record", "removed"}
                                  /\ run[q].pc \notin {"download", "record", "removed"}
  <1>1. \A q \in Runs \ {r} : run'[q] = run[q]
    BY DEF Step, OthersStay
  <1>2. \A q \in Runs \ {r} : run[q].pc \in {"idle", "done", "crashed"}
    BY DEF Step, OneAtATime, Busy, MayStart
  <1>3. \A q \in Runs : run[q].pc # "crashed"
    BY <1>1 DEF Step
  <1> QED
    BY <1>1, <1>2, <1>3 DEF FilesNamed

\* What is left to show of a step: what it does to its own run.
LEMMA NamedKept ==
  ASSUME MediaInv, OneAtATime, FilesNamed, NEW r \in Runs, Step(r),
         ASSUME DirectoryNamed, \A q \in Runs \ {r} : run[q].pc \notin {"record", "removed"},
                run'[r].pc # "crashed"
         PROVE  /\ run'[r].pc \in {"download", "record"} => run'[r].previous = row'.record
                /\ run'[r].pc = "record" =>
                     /\ files'[run'[r].got.path] = run'[r].got.content
                     /\ NamesAll(row.record, Paths \ {run[r].got.path})'
                /\ run'[r].pc = "removed" => NamesAll(run[r].next.record, Paths)'
                /\ run'[r].pc \notin {"record", "removed"} => NamesAll(row.record, Paths)'
  PROVE  FilesNamed'
  <1> SUFFICES ASSUME ~Overlapping', \A q \in Runs : run'[q].pc # "crashed"
               PROVE  DirectoryNamed'
    BY DEF FilesNamed
  <1>1. ~Overlapping
    BY DEF Step, Overlapping
  <1>2. /\ DirectoryNamed
        /\ \A q \in Runs \ {r} : run'[q].pc \notin {"download", "record", "removed"}
                                 /\ run[q].pc \notin {"download", "record", "removed"}
    BY <1>1, Alone
  <1> QED
    BY <1>2 DEF DirectoryNamed

LEMMA NamesSame ==
  ASSUME UNCHANGED files, row'.record = row.record
  PROVE  NamesAll(row.record, Paths) => NamesAll(row.record, Paths)'
  BY DEF NamesAll, Names

LEMMA CalmNames ==
  ASSUME MediaInv, OneAtATime, FilesNamed, NEW r \in Runs, Step(r), Calm(r)
  PROVE  FilesNamed'
  <1> SUFFICES ASSUME DirectoryNamed, \A q \in Runs \ {r} : run[q].pc \notin {"record", "removed"},
                      run'[r].pc # "crashed"
               PROVE  /\ run'[r].pc = "download" => run'[r].previous = row'.record
                      /\ run'[r].pc \notin {"record", "removed"}
                      /\ NamesAll(row.record, Paths)'
    BY NamedKept
  <1>1. \A q \in Runs : run[q].pc \notin {"record", "removed"}
    BY DEF Calm
  <1>2. NamesAll(row.record, Paths)
    BY <1>1 DEF DirectoryNamed
  <1> QED
    BY <1>2, NamesSame DEF Calm

LEMMA DownloadNames ==
  ASSUME MediaInv, OneAtATime, FilesNamed, NEW r \in Runs, Download(r)
  PROVE  FilesNamed'
  <1>0. /\ Step(r) /\ run'[r].pc = "record" /\ run[r].pc = "download"
        /\ run'[r].previous = run[r].previous /\ run'[r].got \in Files /\ row' = row
        /\ files' = [files EXCEPT ![run'[r].got.path] = run'[r].got.content]
    BY DownloadStep
  <1> SUFFICES ASSUME DirectoryNamed, \A q \in Runs \ {r} : run[q].pc \notin {"record", "removed"}
               PROVE  /\ run'[r].previous = row'.record
                      /\ files'[run'[r].got.path] = run'[r].got.content
                      /\ NamesAll(row.record, Paths \ {run[r].got.path})'
    BY <1>0, NamedKept
  <1>1. run'[r].got.path \in Paths /\ DOMAIN files = Paths
    BY <1>0 DEF Files, MediaInv, TablesTyped
  <1>2. run[r].previous = row.record /\ NamesAll(row.record, Paths)
    BY <1>0 DEF DirectoryNamed
  <1>3. \A p \in Paths \ {run'[r].got.path} : files'[p] = files[p]
    BY <1>0, <1>1
  <1>4. NamesAll(row.record, Paths \ {run[r].got.path})'
    BY <1>0, <1>2, <1>3 DEF NamesAll, Names
  <1> QED
    BY <1>0, <1>1, <1>2, <1>4

\* What the new record takes over from the one before: all that was there.
LEMMA RecordNames ==
  ASSUME MediaInv, OneAtATime, FilesNamed, NEW r \in Runs, RecordMedia(r)
  PROVE  FilesNamed'
  <1>0. /\ Step(r) /\ run'[r].pc \in {"commit", "transcribe", "cut", "stages"}
        /\ run[r].pc = "record" /\ files' = files
        /\ row'.record.path = run[r].got.path /\ row'.record.content = run[r].got.content
        /\ row'.record \in Records
        /\ row'.record.superseded = Superseded(run[r].previous, run[r].got.path)
    BY RecordFields DEF RecordMedia
  <1> SUFFICES ASSUME DirectoryNamed, \A q \in Runs \ {r} : run[q].pc \notin {"record", "removed"}
               PROVE  NamesAll(row.record, Paths)'
    BY <1>0, NamedKept
  <1>1. /\ run[r].previous = row.record /\ files[run[r].got.path] = run[r].got.content
        /\ NamesAll(row.record, Paths \ {run[r].got.path})
    BY <1>0 DEF DirectoryNamed
  <1>2. None \notin Records
    BY NoneAssumption
  <1>3. ASSUME NEW p \in Paths, files'[p] # 0
        PROVE  [path |-> p, content |-> files'[p]] \in row'.record.superseded \cup
                 {[path |-> row'.record.path, content |-> row'.record.content]}
    <2>1. CASE p = run[r].got.path
      BY <1>0, <1>1, <2>1
    <2>2. CASE p # run[r].got.path
      <3>1. row.record # None /\ [path |-> p, content |-> files[p]] \in
              row.record.superseded \cup {[path |-> row.record.path, content |-> row.record.content]}
        BY <1>0, <1>1, <1>3, <2>2 DEF NamesAll, Names
      <3>2. CASE [path |-> p, content |-> files[p]] \in row.record.superseded
        BY <1>0, <1>1, <2>2, <3>1, <3>2 DEF Superseded
      <3>3. CASE [path |-> p, content |-> files[p]] =
                 [path |-> row.record.path, content |-> row.record.content]
        <4>1. ~row.record.deleted
          BY <3>1, <3>3 DEF MediaInv, RecordSound
        <4> QED
          BY <1>0, <1>1, <2>2, <3>1, <3>3, <4>1 DEF Superseded
      <3> QED
        BY <3>1, <3>2, <3>3
    <2> QED
      BY <2>1, <2>2
  <1> QED
    BY <1>0, <1>2, <1>3 DEF NamesAll, Names

\* What the deletions leave is still named by the record to come.
LEMMA RemoveNames ==
  ASSUME MediaInv, OneAtATime, FilesNamed, NEW r \in Runs, RemoveFiles(r)
  PROVE  FilesNamed'
  <1>0. /\ Step(r) /\ run[r].pc = "releasing" /\ run'[r].pc = "removed" /\ row.record \in Records
        /\ files' = [p \in Paths |-> IF p \in Gone(r) THEN 0 ELSE files[p]]
        /\ run'[r].next = [path   |-> IF Cleared(r) THEN None ELSE row.path,
                           record |-> RecordToCome(r)]
    BY RemoveStep
  <1>1. run'[r].next.record = RecordToCome(r)
    BY <1>0
  <1> SUFFICES ASSUME DirectoryNamed, \A q \in Runs \ {r} : run[q].pc \notin {"record", "removed"}
               PROVE  NamesAll(run[r].next.record, Paths)'
    BY <1>0, NamedKept
  <1>2. NamesAll(row.record, Paths)
    BY <1>0 DEF DirectoryNamed
  <1>3. RecordToCome(r) # None
    BY <1>0, RemoveFields, NoneAssumption
  <1>4. ASSUME NEW p \in Paths, files'[p] # 0
        PROVE  [path |-> p, content |-> files'[p]] \in RecordToCome(r).superseded \cup
                 {[path |-> RecordToCome(r).path, content |-> RecordToCome(r).content]}
    <2>1. p \notin Gone(r) /\ files'[p] = files[p]
      BY <1>0, <1>4
    <2>2. [path |-> p, content |-> files[p]] \in
            row.record.superseded \cup {[path |-> row.record.path, content |-> row.record.content]}
      BY <1>2, <1>4, <2>1 DEF NamesAll, Names
    <2>3. CASE [path |-> p, content |-> files[p]] \in row.record.superseded
      <3> DEFINE e == [path |-> p, content |-> files[p]]
      <3>1. Holds(e) /\ ~Absent(e) /\ e.path = p
        BY <1>4, <2>1 DEF Holds, Absent
      <3>2. e \notin SupersededToDelete
        BY <2>1, <3>1 DEF Gone
      <3>3. e.path # row.record.path
        BY <1>0, <2>3, NoneAssumption DEF MediaInv, RecordSound
      <3>4. e \notin SupersededToMark
        BY <3>1, <3>2, <3>3 DEF SupersededToMark
      <3> QED
        BY <1>0, <2>1, <2>3, <3>4, RemoveFields
    <2>4. CASE [path |-> p, content |-> files[p]] =
               [path |-> row.record.path, content |-> row.record.content]
      BY <1>0, <2>1, <2>4, RemoveFields
    <2> QED
      BY <2>2, <2>3, <2>4
  <1> QED
    BY <1>1, <1>3, <1>4 DEF NamesAll, Names

LEMMA CommitReleaseNames ==
  ASSUME MediaInv, OneAtATime, FilesNamed, NEW r \in Runs, CommitRelease(r)
  PROVE  FilesNamed'
  <1>0. /\ Step(r) /\ run[r].pc = "removed" /\ run'[r].pc \in {"lease", "done"}
        /\ row' = run[r].next /\ files' = files
    BY CommitReleaseStep
  <1> SUFFICES ASSUME DirectoryNamed, \A q \in Runs \ {r} : run[q].pc \notin {"record", "removed"}
               PROVE  NamesAll(row.record, Paths)'
    BY <1>0, NamedKept
  <1>1. NamesAll(run[r].next.record, Paths)
    BY <1>0 DEF DirectoryNamed
  <1> QED
    BY <1>0, <1>1 DEF NamesAll, Names

LEMMA FilesNamedKept ==
  ASSUME MediaInv, OneAtATime, FilesNamed, Next
  PROVE  OneAtATime' /\ FilesNamed'
  <1>1. PICK r \in Runs : \/ Step(r) /\ Still(r)
                          \/ Download(r) \/ RecordMedia(r) \/ Persist(r) \/ CommitTranscript(r)
                          \/ RemoveFiles(r) \/ CommitRelease(r)
    BY StepKinds
  <1>2. Step(r)
    BY <1>1, DownloadStep, RecordFields, PersistStep, CommitStep, RemoveStep, CommitReleaseStep
  <1>3. FilesNamed'
    BY <1>1, CalmNames, DownloadNames, RecordNames, PersistStep, CommitStep, RemoveNames,
       CommitReleaseNames DEF Still
  <1> QED
    BY <1>2, <1>3, OneKept

---------------------------------------------------------------------------
(* Released media has been served.                                         *)

LEMMA ServedByKept ==
  ASSUME NEW record, NEW d \in Stages, ServedBy(record, d), stored'[d] = stored[d]
  PROVE  /\ d = "scenes" => record.fingerprint
         /\ \E o \in stored'[d] : /\ o.label.content = record.content
                                  /\ d = "asr" => o.label.path = record.path
  BY DEF ServedBy

\* A step that stores nothing keeps what is served, if the row goes on naming media, or what
\* it named, or comes to what a release noted.
LEMMA SameOutputServes ==
  ASSUME MediaInv, Served, NEW r \in Runs, Step(r), stored' = stored,
         \/ row'.path = row.path /\ row'.record = row.record
         \/ row'.path # None
         \/ run[r].pc = "removed" /\ row' = run[r].next,
         run'[r].pc # "removed"
  PROVE  Served'
  <1>0. setting' = setting /\ \A q \in Runs \ {r} : run'[q] = run[q]
    BY DEF Step, OthersStay
  <1> SUFFICES ASSUME \A q \in Runs : Kind[q] # "extract"
               PROVE  /\ ServedBefore(row.path, row.record)'
                      /\ \A q \in Runs : run'[q].pc = "removed" =>
                           ServedBefore(run[q].next.path, run[q].next.record)'
    BY <1>0 DEF Served, Kind
  <1>1. /\ ServedBefore(row.path, row.record)
        /\ \A q \in Runs : run[q].pc = "removed" =>
             ServedBefore(run[q].next.path, run[q].next.record)
    BY DEF Served
  <1>2. ServedBefore(row.path, row.record)'
    BY <1>0, <1>1 DEF ServedBefore, ServedBy, Enabled
  <1>3. ASSUME NEW q \in Runs, run'[q].pc = "removed"
        PROVE  ServedBefore(run[q].next.path, run[q].next.record)'
    <2>1. q # r /\ run'[q] = run[q]
      BY <1>0, <1>3
    <2> QED
      BY <1>0, <1>1, <1>3, <2>1 DEF ServedBefore, ServedBy, Enabled
  <1> QED
    BY <1>2, <1>3

\* Output is replaced only by output of the same bytes.
LEMMA PersistServes ==
  ASSUME MediaInv, Served, NEW r \in Runs, Persist(r)
  PROVE  Served'
  <1>0. Step(r) /\ row' = row /\ run'[r].pc # "removed"
    <2>1. run[r].pc = "persist" /\ Leased(r)
      BY DEF Persist, Leased, Reading
    <2> QED
      BY <2>1, PersistStep DEF Calm
  <1>1. CASE stored' = stored
    BY <1>0, <1>1, SameOutputServes
  <1>2. CASE stored' # stored
    <2>1. PICK d \in Stages \ {"asr"}, output \in [label : Files, actual : Contents] :
            stored' = [stored EXCEPT ![d] =
                 {o \in @ : o.label.content # output.label.content} \cup {output}]
      BY <1>2, PersistStep
    <2>2. \A e \in Stages \ {d} : stored'[e] = stored[e]
      BY <2>1, OutputsTyped
    <2>3. stored'[d] = {o \in stored[d] : o.label.content # output.label.content} \cup {output}
      BY <2>1, OutputsTyped
    <2>4. ASSUME NEW record, NEW e \in Stages, ServedBy(record, e)
          PROVE  /\ e = "scenes" => record.fingerprint
                 /\ \E o \in stored'[e] : /\ o.label.content = record.content
                                          /\ e = "asr" => o.label.path = record.path
      <3>1. CASE e # d
        BY <2>2, <2>4, <3>1, ServedByKept
      <3>2. CASE e = d
        <4>1. PICK o \in stored[d] : o.label.content = record.content
          BY <2>4, <3>2 DEF ServedBy
        <4>2. \E new \in stored'[d] : new.label.content = record.content
          BY <2>3, <4>1
        <4> QED
          BY <2>1, <2>4, <3>2, <4>2 DEF ServedBy
      <3> QED
        BY <3>1, <3>2
    <2>5. setting' = setting /\ (\A q \in Runs \ {r} : run'[q] = run[q]) /\ Enabled \subseteq Stages
      BY <1>0, Facts, SettingFacts DEF Step, OthersStay
    <2> SUFFICES ASSUME \A q \in Runs : Kind[q] # "extract"
                 PROVE  /\ ServedBefore(row.path, row.record)'
                        /\ \A q \in Runs : run'[q].pc = "removed" =>
                             ServedBefore(run[q].next.path, run[q].next.record)'
      BY <2>5 DEF Served, Kind
    <2>6. ASSUME NEW path, NEW record, ServedBefore(path, record)
          PROVE  path = None /\ record # None /\ record.deleted =>
                   \A e \in Enabled :
                     /\ e = "scenes" => record.fingerprint
                     /\ \E o \in stored'[e] : /\ o.label.content = record.content
                                              /\ e = "asr" => o.label.path = record.path
      BY <2>4, <2>5, <2>6 DEF ServedBefore
    <2>7. /\ ServedBefore(row.path, row.record)
          /\ \A q \in Runs : run[q].pc = "removed" =>
               ServedBefore(run[q].next.path, run[q].next.record)
      BY DEF Served
    <2>8. ServedBefore(row.path, row.record)'
      BY <1>0, <2>5, <2>6, <2>7 DEF ServedBefore, ServedBy, Enabled
    <2>9. ASSUME NEW q \in Runs, run'[q].pc = "removed"
          PROVE  ServedBefore(run[q].next.path, run[q].next.record)'
      <3>1. run'[q] = run[q] /\ run[q].pc = "removed"
        BY <1>0, <2>5, <2>9
      <3>2. ServedBefore(run[q].next.path, run[q].next.record)
        BY <2>7, <3>1
      <3> QED
        BY <2>5, <2>6, <3>1, <3>2 DEF ServedBefore, ServedBy, Enabled
    <2> QED
      BY <2>8, <2>9
  <1> QED
    BY <1>1, <1>2

\* A transcript is stored with the path it was made from, so the media is not released; and
\* no release is under way.
LEMMA CommitServes ==
  ASSUME MediaInv, Served, NEW r \in Runs, CommitTranscript(r)
  PROVE  Served'
  <1>1. Step(r) /\ Calm(r) /\ Leased(r) /\ run'[r].pc = "settle"
    BY CommitStep
  <1>2. CASE stored' = stored /\ (row'.path = row.path \/ row'.path # None)
    BY <1>1, <1>2, SameOutputServes DEF Calm
  <1>3. CASE row'.path # None
    <2>1. \A q \in Runs : run[q].pc # "removed"
      BY <1>1 DEF MediaInv, LocksInv, LocksExclude, Releasing
    <2>2. \A q \in Runs : run'[q].pc # "removed"
      BY <1>1, <2>1 DEF Step, OthersStay
    <2> QED
      BY <1>3, <2>2 DEF Served, ServedBefore
  <1> QED
    BY <1>2, <1>3, CommitStep

\* The file that is deleted is the one every stage has stored output of.
LEMMA RemoveServes ==
  ASSUME MediaInv, Served, NEW r \in Runs, RemoveFiles(r)
  PROVE  Served'
  <1>0. /\ Step(r) /\ run[r].pc = "releasing" /\ run'[r].pc = "removed" /\ row.record \in Records
        /\ UNCHANGED <<row, stored>>
        /\ run'[r].next = [path   |-> IF Cleared(r) THEN None ELSE row.path,
                           record |-> RecordToCome(r)]
    BY RemoveStep
  <1>1. setting' = setting /\ (\A q \in Runs \ {r} : run'[q] = run[q]) /\ Enabled \subseteq Stages
    BY <1>0, Facts, SettingFacts DEF Step, OthersStay
  <1> SUFFICES ASSUME \A q \in Runs : Kind[q] # "extract"
               PROVE  /\ ServedBefore(row.path, row.record)'
                      /\ \A q \in Runs : run'[q].pc = "removed" =>
                           ServedBefore(run[q].next.path, run[q].next.record)'
    BY <1>1 DEF Served, Kind
  <1>2. /\ ServedBefore(row.path, row.record)
        /\ \A q \in Runs : run[q].pc = "removed" =>
             ServedBefore(run[q].next.path, run[q].next.record)
    BY DEF Served
  <1>3. ServedBefore(row.path, row.record)'
    BY <1>0, <1>1, <1>2 DEF ServedBefore, ServedBy, Enabled
  <1>4. \A q \in Runs \ {r} : run'[q].pc = "removed" =>
          ServedBefore(run[q].next.path, run[q].next.record)'
    BY <1>0, <1>1, <1>2 DEF ServedBefore, ServedBy, Enabled
  <1>5. Work(r) # "extract"
    BY <1>0 DEF MediaInv, PartSound, Work, Releasing
  <1>6. None \notin Paths /\ None \notin Records
    BY NoneAssumption
  <1>7. ASSUME NEW d \in Enabled, RecordToCome(r).deleted, Cleared(r) \/ row.path = None
        PROVE  ServedBy(RecordToCome(r), d)
    <2>1. CASE Cleared(r)
      <3>1. ExistingOutput(d) /\ row.path = row.record.path /\ row.record.path \in Paths
        BY <1>0, <1>5, <2>1 DEF Cleared, DeletesCurrent, MayDelete, StillNeeded, Records
      <3>2. Holds(row.record)
        <4>1. row.path # None
          BY <1>6, <3>1
        <4>2. SourceIdentity # None
          BY <3>1 DEF ExistingOutput
        <4>3. files[row.path] # 0
          BY <4>1, <4>2 DEF SourceIdentity, FileNow, IsReleased
        <4> QED
          BY <2>1, <3>1, <4>3 DEF Cleared, Absent
      <3>3. FileNow = [path |-> row.record.path, content |-> row.record.content]
        <4>1. files[row.path] = row.record.content /\ row.record.content # 0
          BY <1>0, <3>1, <3>2 DEF Holds, Records, Contents
        <4> QED
          BY <1>6, <3>1, <4>1 DEF FileNow
      <3>4. FileNow \in Files
        BY <1>0, <3>3 DEF Files, Records
      <3>5. SourceIdentity = FileNow
        BY <3>4, NoneAssumption DEF SourceIdentity
      <3>6. PICK o \in stored[d] : /\ o.label.content = row.record.content
                                   /\ d = "asr" => o.label.path = row.record.path
        BY <3>1, <3>3, <3>5 DEF ExistingOutput
      <3>7. Current(r)
        BY <2>1, <3>2 DEF Current, Cleared
      <3> QED
        BY <1>0, <3>6, <3>7, RemoveFields DEF ServedBy
    <2>2. CASE ~Cleared(r)
      <3>1. row.path = None /\ row.record.deleted
        BY <1>0, <1>7, <2>2, RemoveFields
      <3>2. ServedBy(row.record, d)
        BY <1>0, <1>2, <1>6, <3>1 DEF ServedBefore
      <3> QED
        BY <1>0, <3>2, RemoveFields DEF ServedBy
    <2> QED
      BY <2>1, <2>2
  <1>8. run'[r].next.path = IF Cleared(r) THEN None ELSE row.path
    BY <1>0
  <1>9. run'[r].next.record = RecordToCome(r)
    BY <1>0
  <1>10. ServedBefore(run[r].next.path, run[r].next.record)'
    BY <1>0, <1>1, <1>7, <1>8, <1>9 DEF ServedBefore, ServedBy, Enabled
  <1> QED
    BY <1>3, <1>4, <1>10

LEMMA ServedKept ==
  ASSUME MediaInv, Served, Next
  PROVE  Served'
  <1>1. PICK r \in Runs : \/ Step(r) /\ Still(r)
                          \/ Download(r) \/ RecordMedia(r) \/ Persist(r) \/ CommitTranscript(r)
                          \/ RemoveFiles(r) \/ CommitRelease(r)
    BY StepKinds
  <1>2. CASE Step(r) /\ Still(r)
    <2>1. run'[r].pc # "removed"
      BY <1>2 DEF Still, Calm
    <2> QED
      BY <1>2, <2>1, SameOutputServes DEF Still
  <1>3. CASE Download(r)
    BY <1>3, DownloadStep, SameOutputServes
  <1>4. CASE RecordMedia(r)
    BY <1>4, RecordFields, SameOutputServes
  <1>5. CASE CommitRelease(r)
    BY <1>5, CommitReleaseStep, SameOutputServes
  <1> QED
    BY <1>1, <1>2, <1>3, <1>4, <1>5, PersistServes, CommitServes, RemoveServes

---------------------------------------------------------------------------
(* The theorems.                                                           *)

IInv == MediaInv /\ OneAtATime /\ FilesNamed /\ Served

LEMMA IInvInit == ASSUME Init, LocksInv PROVE IInv
  <1>1. \A r \in Runs : run[r] = Idle
    BY DEF Init
  <1>2. downloads \in 0..1 /\ MaxDownloads \in Nat \ {0} /\ setting.maxCrashes \in Nat
    BY LifecycleAssumption DEF Init, IsSetting
  <1>3. /\ Audio \in Needs /\ Video(DetailHeight) \in Needs /\ Nothing \in Needs
        /\ None \notin Paths /\ None \notin Stages
    BY NoneAssumption DEF Needs
  <1>4. \/ downloads = 0 /\ row = [path |-> None, record |-> None]
        \/ downloads = 1 /\ \E need \in Needs, p \in Paths : row = Acquired(need, p)
    BY <1>3 DEF Init, Paths
  <1>5. row \in Rows /\ RecordSound(row.record)
    <2>1. CASE row = [path |-> None, record |-> None]
      BY <2>1 DEF Rows, RecordSound
    <2>2. CASE row # [path |-> None, record |-> None]
      <3>1. PICK need \in Needs, p \in Paths : row = Acquired(need, p) /\ downloads = 1
        BY <1>4, <2>2
      <3>2. 1 \in Contents
        BY <1>2 DEF Contents
      <3> QED
        BY <3>1, <3>2 DEF Acquired, Rows, Records, RecordSound
    <2> QED
      BY <2>1, <2>2
  <1>6. TablesTyped
    BY <1>2, <1>5 DEF Init, TablesTyped, Results
  <1>7. \A r \in Runs : RunSound(r) /\ PartSound(r)
    BY <1>1, <1>3 DEF Idle, RunSound, Reads, SeesNewer, PartSound, Releasing, Results
  <1>8. (\A d \in Stages : LockSound(d)) /\ OutputsMatchInput
    BY DEF Init, LockSound, OutputsMatchInput
  <1>9. MediaInv
    BY <1>5, <1>6, <1>7, <1>8 DEF MediaInv
  <1>10. \A r \in Runs : run[r].pc = "idle"
    BY <1>1 DEF Idle
  <1>11. OneAtATime
    BY <1>10 DEF OneAtATime, Busy
  <1>12. NamesAll(row.record, Paths)
    <2> SUFFICES ASSUME NEW p \in Paths, files[p] # 0 PROVE Names(row.record, p)
      BY DEF NamesAll
    <2>1. files[p] = IF p = row.path THEN downloads ELSE 0
      BY DEF Init
    <2>2. PICK need \in Needs, q \in Paths : row = Acquired(need, q) /\ downloads = 1
      BY <1>3, <1>4, <2>1
    <2>3. p = q /\ files[p] = 1
      BY <2>1, <2>2 DEF Acquired
    <2>4. row.record # None /\ row.record.path = q /\ row.record.content = 1
      <3>1. 1 \in Contents
        BY <1>2 DEF Contents
      <3>2. row.record \in Records
        BY <2>2, <3>1 DEF Acquired, Records
      <3> QED
        BY <2>2, <3>2, NoneAssumption DEF Acquired
    <2> QED
      BY <2>3, <2>4 DEF Names
  <1>13. FilesNamed
    BY <1>10, <1>12 DEF FilesNamed, DirectoryNamed
  <1>14. Served
    BY <1>4, <1>10 DEF Served, ServedBefore, Acquired
  <1> QED
    BY <1>9, <1>11, <1>13, <1>14 DEF IInv

LEMMA IInvHolds == Spec => []IInv
  <1>1. LocksInv /\ Init => IInv
    BY IInvInit
  <1>2. LocksInv' /\ IInv /\ [Next]_vars => IInv'
    <2> SUFFICES ASSUME LocksInv', IInv, [Next]_vars PROVE IInv'
      OBVIOUS
    <2>1. CASE Next
      BY <2>1, MediaInvKept, FilesNamedKept, ServedKept DEF IInv
    <2>2. CASE UNCHANGED vars
      <3>1. MediaInv'
        <4>1. TablesTyped' /\ RecordSound(row.record)' /\ OutputsMatchInput'
          BY <2>2 DEF IInv, MediaInv, vars, TablesTyped, RecordSound, OutputsMatchInput
        <4>2. \A r \in Runs : RunSound(r)' /\ PartSound(r)'
          BY <2>2 DEF IInv, MediaInv, vars, RunSound, Reads, SeesNewer, RecordSound,
             PartSound, Kind
        <4>3. \A d \in Stages : LockSound(d)'
          BY <2>2 DEF IInv, MediaInv, vars, LockSound, Leased
        <4> QED
          BY <4>1, <4>2, <4>3 DEF MediaInv
      <3>2. OneAtATime' /\ FilesNamed'
        BY <2>2 DEF IInv, vars, OneAtATime, Busy, Overlapping, FilesNamed, DirectoryNamed,
           NamesAll,
                    Names
      <3>3. Served'
        BY <2>2 DEF IInv, vars, Served, ServedBefore, ServedBy, Kind, Enabled
      <3> QED
        BY <3>1, <3>2, <3>3 DEF IInv
    <2> QED
      BY <2>1, <2>2
  <1> QED
    BY <1>1, <1>2, LocksInvHolds, PTL DEF Spec

\* The tables keep their types and the locks their holders; where runs follow one another, the
\* record names every file that is in the media directory when they are over; and stored output
\* names the bytes it was computed from, whatever other runs download meanwhile.
THEOREM RecordsTrue == Spec => []RecordsAreTrue
  <1>1. IInv => RecordsAreTrue
    <2> SUFFICES ASSUME IInv PROVE RecordsAreTrue
      OBVIOUS
    <2>1. MediaTypeOK
      BY DEF IInv, MediaInv, LocksInv, TablesTyped, LockSound, MediaTypeOK, Rows, Results
    <2>2. ASSUME ~Overlapping, \A r \in Runs : Over(r), NEW p \in Paths, files[p] # 0
          PROVE  /\ row.record # None
                 /\ [path |-> p, content |-> files[p]] \in row.record.superseded \cup
                      {[path |-> row.record.path, content |-> row.record.content]}
      BY <2>2 DEF IInv, FilesNamed, DirectoryNamed, NamesAll, Names, Over
    <2> QED
      BY <2>1, <2>2 DEF IInv, MediaInv, RecordsAreTrue, FilesAreRecorded
  <1> QED
    BY <1>1, IInvHolds, PTL

\* Media the corpus deleted has been served: every enabled stage is reused from the record
\* without the file, whichever plan runs, ingests and workflows came before, overlapping and
\* crashing at any step.
THEOREM ReleasedIsServed == Spec => []ReleasedMediaServed
  <1>1. IInv => ReleasedMediaServed
    <2> SUFFICES ASSUME IInv, IsReleased, \A r \in Runs : Kind[r] # "extract", NEW d \in Enabled
                 PROVE  ExistingOutput(d)
      BY DEF ReleasedMediaServed
    <2>1. ServedBy(row.record, d)
      BY DEF IInv, Served, ServedBefore, IsReleased
    <2>2. row.path = None /\ row.record \in Records
      BY DEF IInv, MediaInv, TablesTyped, Rows, IsReleased
    <2>3. [path |-> row.record.path, content |-> row.record.content] \in Files
      BY <2>2 DEF Records, Files
    <2>4. FileNow = None
          /\ SourceIdentity = [path |-> row.record.path, content |-> row.record.content]
      BY <2>2 DEF SourceIdentity, FileNow
    <2>5. SourceIdentity # None
      BY <2>3, <2>4, NoneAssumption
    <2> QED
      BY <2>1, <2>4, <2>5 DEF ServedBy, ExistingOutput
  <1> QED
    BY <1>1, IInvHolds, PTL

---------------------------------------------------------------------------
(* Media that nobody needs is released: the invariant.                     *)

\* The stage has stored output of the recorded bytes.
Has(record, d) ==
  \E o \in stored[d] : o.label.content = record.content /\ (d = "asr" => o.label.path = record.path)

Wanted(record) ==
  \E d \in Enabled : StageState(d) \in {"failed", "interrupted", "running"} \/ ~Has(record, d)

\* The recorded file is still needed, if the row names it and it is there.
Settled(path, record) ==
  record # None /\ path = record.path /\ Holds(record) => Wanted(record)

\* A row that names no file records deleted media, if any.
PathGone(path, record) == path = None /\ record # None => record.deleted

\* No run is under way, none crashed, and the last that was is not an ingest or an extract.
Quiet ==
  /\ \A r \in Runs : Over(r) /\ (Kind[r] \in {"ingest", "extract"} => run[r].pc = "idle")
  /\ \E r \in Runs : run[r].pc = "done"

PathsGone ==
  /\ PathGone(row.path, row.record)
  /\ \A r \in Runs : run[r].pc = "removed" => PathGone(run[r].next.path, run[r].next.record)

CutsExtract == \A r \in Runs : run[r].pc = "cut" => Work(r) = "extract"

\* What a release that does not keep the media is about to write leaves only media that
\* is needed; so does the row once all is quiet.
RemovedSettled ==
  \A r \in Runs :
    run[r].pc = "removed" /\ ~Keeps(r) => Settled(run[r].next.path, run[r].next.record)
RestSettled == Keep = {} /\ Quiet => Settled(row.path, row.record)

UnneededInv == PathsGone /\ CutsExtract /\ RemovedSettled /\ RestSettled

\* What a run may do.
Does(r) ==
  \/ ReadStatus(r) \/ TakeLease(r) \/ Decide(r) \/ CheckServes(r)
  \/ EnsureMedia(r) \/ Download(r) \/ DownloadFails(r) \/ RecordMedia(r)
  \/ BeginStage(r) \/ OpenInput(r) \/ Analyze(r) \/ StageFails(r) \/ Persist(r)
  \/ MatchingFails(r) \/ FinishStage(r)
  \/ Transcribe(r) \/ CommitTranscript(r) \/ SettleTranscript(r)
  \/ Cut(r) \/ SkipExtract(r) \/ EndLease(r)
  \/ TryRelease(r) \/ RemoveFiles(r) \/ NothingToRelease(r) \/ CommitRelease(r)
  \/ Crash(r)

LEMMA DoesKinds ==
  ASSUME MediaInv, NEW r \in Runs, Does(r)
  PROVE  \/ Step(r) /\ Still(r)
         \/ Download(r) \/ RecordMedia(r) \/ Persist(r) \/ CommitTranscript(r)
         \/ RemoveFiles(r) \/ CommitRelease(r)
  BY PlanSteps, LeaseSteps, EnsureSteps, BeginStep, AnalyzeSteps, SettleSteps, TranscribeStep,
     EndSteps, ReleaseSteps, CrashStep DEF Does

LEMMA DoesStep ==
  ASSUME MediaInv, NEW r \in Runs, Does(r)
  PROVE  Step(r)
  BY DoesKinds, DownloadStep, RecordFields, PersistStep, CommitStep, RemoveStep, CommitReleaseStep

---------------------------------------------------------------------------
(* Where a step takes its run, and when it leaves what is settled.         *)

\* A run comes to its cut as an extract, and is over at once only as an ingest or an extract.
Onward(r) ==
  /\ run'[r].pc # "idle"
  /\ run'[r].pc = "cut" => Work(r) = "extract" /\ run'[r].part = run[r].part
  /\ run'[r].pc = "done" => Kind[r] \in {"ingest", "extract"}

LEMMA MoveOnward ==
  ASSUME RunsTyped, NEW r \in Runs, NEW pc, pc \notin {"idle", "cut", "done"}, NEW change,
         Move(r, pc, change)
  PROVE  Onward(r)
  BY DEF RunsTyped, Move, Onward

LEMMA EnsuredOnward ==
  ASSUME RunsTyped, NEW r \in Runs, NEW path, Ensured(r, path)
  PROVE  Onward(r)
  <1>1. CASE run[r].stage # "asr" /\ Work(r) = "extract"
    <2>1. Moves(r, "cut", run[r].part)
      BY <1>1, MoveEffect DEF Ensured
    <2> QED
      BY <1>1, <2>1 DEF Moves, Onward
  <1>2. CASE run[r].stage = "asr" \/ Work(r) # "extract"
    BY <1>2, MoveOnward DEF Ensured
  <1> QED
    BY <1>1, <1>2

LEMMA StageDoneOnward ==
  ASSUME RunsTyped, NEW r \in Runs, StageDone(r)
  PROVE  Onward(r)
  <1>1. CASE Kind[r] = "ingest"
    <2>1. \E pc \in {"release", "done"} : Moves(r, pc, run[r].part)
      BY <1>1, EndEffect DEF StageDone
    <2> QED
      BY <1>1, <2>1 DEF Moves, Onward
  <1>2. CASE Kind[r] # "ingest"
    BY <1>2, MoveOnward DEF StageDone
  <1> QED
    BY <1>1, <1>2

LEMMA WorkOnward ==
  ASSUME LocksInv, NEW r \in Runs,
         \/ ReadStatus(r) \/ TakeLease(r) \/ Decide(r) \/ CheckServes(r)
         \/ EnsureMedia(r) \/ Download(r) \/ DownloadFails(r) \/ RecordMedia(r)
  PROVE  Onward(r)
  <1>0. RunsTyped
    BY DEF LocksInv
  <1>1. CASE ReadStatus(r) \/ Decide(r) \/ Download(r)
    BY <1>0, <1>1, MoveOnward DEF ReadStatus, Decide, Download
  <1>2. CASE CheckServes(r)
    BY <1>0, <1>2, MoveOnward DEF CheckServes
  <1>3. CASE EnsureMedia(r)
    BY <1>0, <1>3, MoveOnward, EnsuredOnward DEF EnsureMedia
  <1>4. CASE DownloadFails(r) \/ RecordMedia(r)
    BY <1>0, <1>4, EnsuredOnward DEF DownloadFails, RecordMedia
  <1>5. CASE TakeLease(r)
    <2>1. Work(r) \in {"plan", "ingest", "extract"}
      <3>1. Kind[r] \in {"plan", "ingest", "extract", "process"}
        BY LifecycleAssumption DEF LocksInv, IsSetting, Kind
      <3> QED
        BY <1>5, <3>1 DEF Work, TakeLease, LocksInv, RunsTyped
    <2>2. CASE Work(r) = "plan"
      BY <1>0, <1>5, <2>2, MoveOnward DEF TakeLease
    <2>3. CASE Work(r) = "ingest"
      BY <1>0, <1>5, <2>3, MoveOnward DEF TakeLease
    <2>4. CASE Work(r) = "extract"
      BY <1>0, <1>5, <2>4, MoveOnward DEF TakeLease
    <2> QED
      BY <2>1, <2>2, <2>3, <2>4
  <1> QED
    BY <1>1, <1>2, <1>3, <1>4, <1>5

LEMMA StageOnward ==
  ASSUME RunsTyped, NEW r \in Runs,
         \/ BeginStage(r) \/ OpenInput(r) \/ Analyze(r) \/ StageFails(r) \/ Persist(r)
         \/ MatchingFails(r) \/ FinishStage(r)
         \/ Transcribe(r) \/ CommitTranscript(r) \/ SettleTranscript(r)
  PROVE  Onward(r)
  <1>1. CASE BeginStage(r)
    <2>1. CASE Kind[r] = "ingest" /\ End(r, "done")
      BY <2>1, EndEffect DEF Moves, Onward
    <2>2. CASE ~(Kind[r] = "ingest" /\ End(r, "done"))
      BY <1>1, <2>2, MoveOnward DEF BeginStage
    <2> QED
      BY <2>1, <2>2
  <1>2. CASE OpenInput(r)
    BY <1>2, MoveOnward DEF OpenInput
  <1>3. CASE Analyze(r) \/ StageFails(r) \/ MatchingFails(r)
    BY <1>3, MoveOnward DEF Analyze, StageFails, MatchingFails
  <1>4. CASE Persist(r)
    BY <1>4, MoveOnward DEF Persist
  <1>5. CASE Transcribe(r) \/ CommitTranscript(r)
    BY <1>5, MoveOnward DEF Transcribe, CommitTranscript
  <1>6. CASE FinishStage(r) \/ SettleTranscript(r)
    BY <1>6, StageDoneOnward DEF FinishStage, SettleTranscript
  <1> QED
    BY <1>1, <1>2, <1>3, <1>4, <1>5, <1>6

LEMMA EndOnward ==
  ASSUME LocksInv, CutsExtract, NEW r \in Runs,
         Cut(r) \/ SkipExtract(r) \/ EndLease(r) \/ RemoveFiles(r) \/ Crash(r)
  PROVE  Onward(r)
  <1>0. RunsTyped /\ Kind[r] \in {"plan", "ingest", "extract", "process"}
    BY LifecycleAssumption DEF LocksInv, IsSetting, Kind
  <1>1. CASE Cut(r) \/ SkipExtract(r)
    <2>1. Work(r) = "extract" /\ ExtractDone(r)
      BY <1>1 DEF Cut, SkipExtract, CutsExtract
    <2>2. Kind[r] \in {"extract", "process"}
      BY <1>0, <2>1 DEF Work
    <2>3. CASE Kind[r] = "process"
      BY <1>0, <2>1, <2>3, EndPartEffect DEF ExtractDone, Moves, Onward
    <2>4. CASE Kind[r] = "extract"
      BY <1>0, <2>1, <2>4, EndEffect DEF ExtractDone, Moves, Onward
    <2> QED
      BY <2>2, <2>3, <2>4
  <1>2. CASE EndLease(r) \/ Crash(r)
    BY <1>0, <1>2, EndEffect DEF EndLease, Crash, Moves, Onward
  <1>3. CASE RemoveFiles(r)
    BY <1>0, <1>3, MoveOnward DEF RemoveFiles
  <1> QED
    BY <1>1, <1>2, <1>3

\* A plan run or a workflow is over when others hold the media, when there is nothing to
\* release, or when it has released the media for good.
LEMMA ReleaseOnward ==
  ASSUME LocksInv, NEW r \in Runs, TryRelease(r) \/ NothingToRelease(r) \/ CommitRelease(r)
  PROVE  \/ Onward(r)
         \/ TryRelease(r) /\ ~(NobodyReads /\ NobodyReleases) /\ run'[r].pc = "done"
         \/ NothingToRelease(r) /\ run'[r].pc = "done"
         \/ /\ CommitRelease(r) /\ run'[r].pc = "done"
            /\ ~(Kind[r] = "process" /\ Work(r) = "plan")
  <1>0. RunsTyped
    BY DEF LocksInv
  <1>1. CASE Released(r) /\ Kind[r] = "process" /\ Work(r) = "plan"
    BY <1>0, <1>1, EndPartEffect DEF Released, Moves, Onward
  <1>2. CASE Released(r) /\ ~(Kind[r] = "process" /\ Work(r) = "plan")
    <2>1. run'[r].pc = "done"
      BY <1>0, <1>2, EndEffect DEF Released, Moves
    <2>2. TryRelease(r) => Onward(r) \/ ~(NobodyReads /\ NobodyReleases)
      BY <1>0, MoveOnward DEF TryRelease
    <2> QED
      BY <1>2, <2>1, <2>2
  <1>3. CASE ~Released(r)
    BY <1>0, <1>3, MoveOnward DEF TryRelease, NothingToRelease, CommitRelease
  <1> QED
    BY <1>1, <1>2, <1>3

\* A run that does not hold the media, while another releases it, touches neither the row
\* nor the files nor what is stored, and no lock.
LEMMA OutsiderStep ==
  ASSUME MediaInv, NEW r \in Runs, Does(r), ~Leased(r), run[r].pc \notin Releasing, ~NobodyReleases
  PROVE  /\ UNCHANGED <<setting, row, files, stored, attempt>>
         /\ \A d \in Stages : lock'[d] = lock[d]
  <1>1. ReadStatus(r) \/ SkipExtract(r) \/ TryRelease(r) \/ Crash(r)
    <2>1. ~(\/ Decide(r) \/ CheckServes(r) \/ EnsureMedia(r) \/ Download(r) \/ DownloadFails(r)
            \/ RecordMedia(r) \/ BeginStage(r) \/ OpenInput(r) \/ Analyze(r) \/ StageFails(r)
            \/ Persist(r))
      BY DEF Decide, CheckServes, EnsureMedia, Download, DownloadFails, RecordMedia, BeginStage,
         OpenInput, Analyze, StageFails, Persist, Leased, Reading
    <2>2. ~(\/ MatchingFails(r) \/ FinishStage(r) \/ Transcribe(r) \/ CommitTranscript(r)
            \/ SettleTranscript(r) \/ Cut(r) \/ EndLease(r))
      BY DEF MatchingFails, FinishStage, Transcribe, CommitTranscript, SettleTranscript, Cut,
         EndLease, Leased, Reading
    <2>3. ~(TakeLease(r) \/ RemoveFiles(r) \/ NothingToRelease(r) \/ CommitRelease(r))
      BY DEF TakeLease, RemoveFiles, NothingToRelease, CommitRelease, Releasing
    <2> QED
      BY <2>1, <2>2, <2>3 DEF Does
  <1>2. CASE ReadStatus(r) \/ SkipExtract(r) \/ TryRelease(r)
    BY <1>2 DEF ReadStatus, SkipExtract, TryRelease
  <1>3. CASE Crash(r)
    <2>1. \A d \in Stages : lock[d] # r
      BY NoneAssumption DEF MediaInv, LockSound
    <2> QED
      BY <1>3, <2>1 DEF Crash
  <1> QED
    BY <1>1, <1>2, <1>3

\* Where no file comes and no output and attempt changes, what is settled stays so.
LEMMA SettledSame ==
  ASSUME setting \in Settings, NEW path, NEW record \in Records \cup {None}, Settled(path, record),
         setting' = setting, stored' = stored, attempt' = attempt,
         \A d \in Stages : lock'[d] = lock[d],
         \A p \in Paths : files'[p] \in {0, files[p]}
  PROVE  Settled(path, record)'
  <1> SUFFICES ASSUME record # None, path = record.path, Holds(record)'
               PROVE  Wanted(record)'
    BY DEF Settled
  <1>1. record.path \in Paths /\ record.content # 0
    BY DEF Records, Contents
  <1>2. Holds(record)
    BY <1>1 DEF Holds
  <1>3. Wanted(record)
    BY <1>2 DEF Settled
  <1>4. Enabled' = Enabled /\ Enabled \subseteq Stages
    BY SettingFacts DEF Enabled
  <1>5. \A d \in Stages : StageState(d)' = StageState(d) /\ (Has(record, d)' <=> Has(record, d))
    BY DEF StageState, Has
  <1> QED
    BY <1>3, <1>4, <1>5 DEF Wanted

\* While the recorded file is in its place, it is needed where some enabled stage has no
\* output of it or did not succeed.
LEMMA NeededIsWanted ==
  ASSUME row.path \in Paths, row.record \in Records, row.path = row.record.path, Holds(row.record)
  PROVE  StillNeeded <=> Wanted(row.record)
  <1>1. files[row.path] = row.record.content /\ row.record.content # 0 /\ row.path # None
    BY NoneAssumption DEF Holds, Records, Contents
  <1>2. FileNow = [path |-> row.record.path, content |-> row.record.content]
    BY <1>1 DEF FileNow
  <1>3. FileNow \in Files /\ FileNow # None
    BY <1>2, NoneAssumption DEF Files, Records
  <1>4. SourceIdentity = FileNow
    BY <1>3 DEF SourceIdentity
  <1>5. \A d : Has(row.record, d) <=> ExistingOutput(d)
    BY <1>2, <1>3, <1>4 DEF Has, ExistingOutput
  <1> QED
    BY <1>5 DEF StillNeeded, Wanted

---------------------------------------------------------------------------
(* Every step keeps the invariant.                                         *)

\* What the deletions leave: a release that keeps the file has a stage that needs it.
LEMMA RemoveSettles ==
  ASSUME MediaInv, MediaInv', NEW r \in Runs, RemoveFiles(r), ~Keeps(r)
  PROVE  Settled(run[r].next.path, run[r].next.record)'
  <1>0. /\ Step(r) /\ run'[r].pc = "removed" /\ UNCHANGED <<row, downloads, stored>>
        /\ row.record \in Records /\ row \in Rows
        /\ files' = [p \in Paths |-> IF p \in Gone(r) THEN 0 ELSE files[p]]
        /\ run'[r].next = [path   |-> IF Cleared(r) THEN None ELSE row.path,
                           record |-> RecordToCome(r)]
    BY RemoveStep, Facts
  <1>1. /\ setting \in Settings /\ setting' = setting /\ attempt' = attempt /\ lock' = lock
        /\ \A p \in Paths : files'[p] \in {0, files[p]}
    BY <1>0, Facts DEF RemoveFiles
  <1>2. PICK path, record : run'[r].next = [path |-> path, record |-> record]
                            /\ path = (IF Cleared(r) THEN None ELSE row.path)
                            /\ record = RecordToCome(r)
    BY <1>0
  <1>3. /\ record \in Records /\ record.path = row.record.path
        /\ record.content = row.record.content /\ record.path \in Paths
        /\ record.deleted = (row.record.deleted \/ Cleared(r))
        /\ record.content # 0
    BY <1>0, <1>2, RemoveFields DEF Records, Contents
  <1>4. ~record.deleted \/ files'[record.path] # record.content
    <2>1. RecordSound(run[r].next.record)'
      BY <1>0 DEF MediaInv, RunSound
    <2> QED
      BY <1>2, <1>3, <2>1, NoneAssumption DEF RecordSound
  <1>5. Settled(path, record)
    <2> SUFFICES ASSUME path = record.path, Holds(record), ~Wanted(record) PROVE FALSE
      BY DEF Settled
    <2>1. ~Cleared(r) /\ row.path = row.record.path /\ row.path \in Paths
      BY <1>2, <1>3, NoneAssumption
    <2>2. Holds(row.record)
      BY <1>3 DEF Holds
    <2>3. ~DeletesCurrent(r)
      BY <2>1, <2>2 DEF Cleared
    <2>4. ~Wanted(row.record)
      BY <1>3 DEF Wanted, Has
    <2>5. ~StillNeeded
      BY <1>0, <2>1, <2>2, <2>4, NeededIsWanted
    <2>6. row.record.deleted
      BY <2>1, <2>3, <2>5 DEF DeletesCurrent, MayDelete
    <2> QED
      BY <1>0, <2>2, <2>6, NoneAssumption DEF MediaInv, RecordSound, Holds
  <1>6. Settled(path, record)'
    BY <1>1, <1>0, <1>3, <1>5, SettledSame
  <1> QED
    BY <1>2, <1>6

\* A row loses its path to a release only, which records the deletion.
LEMMA PathsGoneKept ==
  ASSUME MediaInv, PathsGone, NEW r \in Runs, Does(r)
  PROVE  PathsGone'
  <1>0. Step(r) /\ \A q \in Runs \ {r} : run'[q] = run[q]
    BY DoesStep DEF Step, OthersStay
  <1>1. CASE RemoveFiles(r)
    <2>1. /\ row' = row /\ row.record \in Records
          /\ run'[r].next = [path   |-> IF Cleared(r) THEN None ELSE row.path,
                             record |-> RecordToCome(r)]
      BY <1>1, RemoveStep
    <2>2. RecordToCome(r).deleted = (row.record.deleted \/ Cleared(r))
      BY <2>1, RemoveFields
    <2>3. PathGone(run[r].next.path, run[r].next.record)'
      <3>1. row.path = None => row.record.deleted
        BY <2>1, NoneAssumption DEF PathsGone, PathGone
      <3>2. /\ run'[r].next.path = IF Cleared(r) THEN None ELSE row.path
            /\ run'[r].next.record = RecordToCome(r)
        BY <2>1
      <3>3. run'[r].next.path = None => run'[r].next.record.deleted
        BY <2>2, <3>1, <3>2
      <3> QED
        BY <3>3 DEF PathGone
    <2> QED
      BY <1>0, <2>1, <2>3 DEF PathsGone, PathGone
  <1>2. CASE ~RemoveFiles(r)
    <2>1. run'[r].pc # "removed"
      BY <1>2, DoesKinds, DownloadStep, RecordFields, PersistStep, CommitStep, CommitReleaseStep
         DEF Still, Calm
    <2>2. \/ row' = row
          \/ row'.path # None
          \/ row'.path = row.path /\ row'.record = row.record
          \/ run[r].pc = "removed" /\ row' = run[r].next
      BY <1>2, DoesKinds, DownloadStep, RecordFields, PersistStep, CommitStep, CommitReleaseStep
         DEF Still, Calm
    <2>3. PathGone(row.path, row.record)'
      BY <2>2 DEF PathsGone, PathGone
    <2>4. \A q \in Runs : run'[q].pc = "removed" => q # r /\ run'[q] = run[q]
      BY <1>0, <2>1
    <2> QED
      BY <2>3, <2>4 DEF PathsGone, PathGone
  <1> QED
    BY <1>1, <1>2

LEMMA DoesOnward ==
  ASSUME LocksInv, CutsExtract, NEW r \in Runs, Does(r)
  PROVE  \/ Onward(r)
         \/ TryRelease(r) /\ ~(NobodyReads /\ NobodyReleases) /\ run'[r].pc = "done"
         \/ NothingToRelease(r) /\ run'[r].pc = "done"
         \/ /\ CommitRelease(r) /\ run'[r].pc = "done"
            /\ ~(Kind[r] = "process" /\ Work(r) = "plan")
  BY WorkOnward, StageOnward, EndOnward, ReleaseOnward DEF Does, LocksInv

LEMMA CutsKept ==
  ASSUME MediaInv, CutsExtract, NEW r \in Runs, Does(r)
  PROVE  CutsExtract'
  <1>1. setting' = setting /\ \A q \in Runs \ {r} : run'[q] = run[q]
    BY DoesStep DEF Step, OthersStay
  <1>2. run'[r].pc = "cut" => Work(r) = "extract" /\ run'[r].part = run[r].part
    BY DoesOnward DEF MediaInv, Onward
  <1> QED
    BY <1>1, <1>2 DEF CutsExtract, Work, Kind

\* While a release is under way the other runs are outsiders.
LEMMA RemovedKept ==
  ASSUME MediaInv, MediaInv', RemovedSettled, NEW r \in Runs, Does(r)
  PROVE  RemovedSettled'
  <1>0. Step(r) /\ setting' = setting /\ \A q \in Runs \ {r} : run'[q] = run[q]
    BY DoesStep DEF Step, OthersStay
  <1> SUFFICES ASSUME NEW q \in Runs, run'[q].pc = "removed", ~Keeps(q)'
               PROVE  Settled(run[q].next.path, run[q].next.record)'
    BY DEF RemovedSettled
  <1>1. CASE q = r
    <2>1. RemoveFiles(r)
      BY <1>1, DoesKinds, DownloadStep, RecordFields, PersistStep, CommitStep, CommitReleaseStep
         DEF Still, Calm
    <2>2. run'[r].part = run[r].part
      BY <2>1, MoveEffect, Facts DEF RemoveFiles, Moves
    <2>3. ~Keeps(r)
      BY <1>0, <1>1, <2>2 DEF Keeps, Work, Kind, Keep
    <2> QED
      BY <1>1, <2>1, <2>3, RemoveSettles
  <1>2. CASE q # r
    <2>1. run'[q] = run[q] /\ run[q].pc = "removed" /\ ~Keeps(q)
      BY <1>0, <1>2 DEF Keeps, Work, Kind, Keep
    <2>2. ~Leased(r) /\ run[r].pc \notin Releasing /\ ~NobodyReleases
      BY <1>2, <2>1 DEF MediaInv, LocksInv, LocksExclude, Releasing, NobodyReleases
    <2>3. /\ UNCHANGED <<setting, row, files, stored, attempt>>
          /\ \A d \in Stages : lock'[d] = lock[d]
      BY <2>2, OutsiderStep
    <2>4. PICK path, record : path = run[q].next.path /\ record = run[q].next.record
      OBVIOUS
    <2>5. record \in Records \cup {None} /\ Settled(path, record) /\ setting \in Settings
      BY <2>1, <2>4, Facts DEF RemovedSettled, Reads, Rows
    <2>6. Settled(path, record)'
      BY <2>3, <2>5, SettledSame
    <2> QED
      BY <2>1, <2>4, <2>6
  <1> QED
    BY <1>1, <1>2

\* The last run to be over has found nothing to release, or has just released.
LEMMA RestKept ==
  ASSUME MediaInv, CutsExtract, RemovedSettled, NEW r \in Runs, Does(r)
  PROVE  RestSettled'
  <1>0. Step(r) /\ setting' = setting /\ \A q \in Runs \ {r} : run'[q] = run[q]
    BY DoesStep DEF Step, OthersStay
  <1> SUFFICES ASSUME Keep = {}, Quiet'
               PROVE  Settled(row.path, row.record)'
    BY <1>0 DEF RestSettled, Keep
  <1>1. \A q \in Runs \ {r} : run[q].pc \in {"idle", "done"}
    BY <1>0 DEF Quiet, Over
  <1>2. run'[r].pc \in {"idle", "done"}
        /\ (Kind[r] \in {"ingest", "extract"} => run'[r].pc = "idle")
    BY <1>0 DEF Quiet, Over, Kind
  <1>3. ~Onward(r)
    BY <1>2 DEF Onward
  <1>4. ~(TryRelease(r) /\ ~(NobodyReads /\ NobodyReleases))
    BY <1>1 DEF TryRelease, NobodyReads, NobodyReleases, Leased, Reading, Releasing
  <1>5. CASE NothingToRelease(r)
    BY <1>5 DEF NothingToRelease, Settled
  <1>6. CASE CommitRelease(r) /\ ~(Kind[r] = "process" /\ Work(r) = "plan")
    <2>1. /\ row' = run[r].next /\ run[r].next \in Rows /\ run[r].pc = "removed"
          /\ UNCHANGED <<files, stored, attempt, lock>>
      BY <1>6, CommitReleaseStep DEF CommitRelease
    <2>2. ~Keeps(r)
      BY <1>6 DEF Keeps
    <2>3. PICK path, record : path = run[r].next.path /\ record = run[r].next.record
      OBVIOUS
    <2>4. record \in Records \cup {None} /\ Settled(path, record) /\ setting \in Settings
      BY <2>1, <2>2, <2>3, Facts DEF RemovedSettled, Rows
    <2>5. Settled(path, record)'
      BY <1>0, <2>1, <2>4, SettledSame
    <2> QED
      BY <2>1, <2>3, <2>5
  <1> QED
    BY <1>3, <1>4, <1>5, <1>6, DoesOnward DEF MediaInv

LEMMA UnneededInvHolds == Spec => []UnneededInv
  <1>1. Init => UnneededInv
    <2> SUFFICES ASSUME Init PROVE UnneededInv
      OBVIOUS
    <2>1. \A r \in Runs : run[r].pc = "idle"
      BY DEF Init, Idle
    <2>2. PathGone(row.path, row.record)
      <3>1. CASE row = [path |-> None, record |-> None]
        BY <3>1 DEF PathGone
      <3>2. CASE row # [path |-> None, record |-> None]
        <4>1. PICK p \in Paths : row \in {Acquired(Audio, p), Acquired(Video(DetailHeight), p)}
          BY <3>2 DEF Init, Paths
        <4> QED
          BY <4>1, NoneAssumption DEF Acquired, PathGone
      <3> QED
        BY <3>1, <3>2
    <2> QED
      BY <2>1, <2>2 DEF UnneededInv, PathsGone, CutsExtract, RemovedSettled, RestSettled, Quiet
  <1>2. IInv /\ IInv' /\ UnneededInv /\ [Next]_vars => UnneededInv'
    <2> SUFFICES ASSUME MediaInv, MediaInv', UnneededInv, [Next]_vars PROVE UnneededInv'
      BY DEF IInv
    <2>1. CASE Next
      <3>1. PICK r \in Runs : Does(r)
        BY <2>1 DEF Next, Does
      <3> QED
        BY <3>1, PathsGoneKept, CutsKept, RemovedKept, RestKept DEF UnneededInv
    <2>2. CASE UNCHANGED vars
      <3>1. PathsGone' /\ CutsExtract'
        BY <2>2 DEF vars, UnneededInv, PathsGone, PathGone, CutsExtract, Work, Kind
      <3>2. RemovedSettled' /\ RestSettled'
        BY <2>2 DEF vars, UnneededInv, RemovedSettled, RestSettled, Settled, Holds, Wanted, Has,
           StageState, Keeps, Work, Kind, Keep, Enabled, Quiet, Over
      <3> QED
        BY <3>1, <3>2 DEF UnneededInv
    <2> QED
      BY <2>1, <2>2
  <1> QED
    BY <1>1, <1>2, IInvHolds, PTL DEF Spec

\* Once no run is under way and none crashed, media that every enabled stage has stored
\* current output of is gone: whichever plan runs and workflows shared it, at the same time
\* or one after the other, the last of them released it.
THEOREM UnneededIsReleased == Spec => []UnneededMediaIsReleased
  <1>1. IInv /\ UnneededInv => UnneededMediaIsReleased
    <2> SUFFICES ASSUME IInv, UnneededInv, Quiet, row.record # None,
                        row.path \in {None, row.record.path}, ~StillNeeded, Keep = {},
                        Holds(row.record)
                 PROVE  FALSE
      BY DEF UnneededMediaIsReleased, Quiet
    <2>1. row.record \in Records /\ row.record.path \in Paths /\ ~row.record.deleted
      BY DEF IInv, MediaInv, TablesTyped, Rows, Records, RecordSound, Holds
    <2>2. row.path = row.record.path
      BY <2>1 DEF UnneededInv, PathsGone, PathGone
    <2>3. Wanted(row.record)
      BY <2>2 DEF UnneededInv, RestSettled, Settled
    <2> QED
      BY <2>1, <2>2, <2>3, NeededIsWanted
  <1> QED
    BY <1>1, IInvHolds, UnneededInvHolds, PTL
=============================================================================
