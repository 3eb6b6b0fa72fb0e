--------------------------- MODULE MediaEvidence ----------------------------
(***************************************************************************)
(* What the media detectors store of one video and what is exported of it: *)
(* face and voice tracks (src/face_processing.rs, src/voice_processing.rs, *)
(* src/multimodal.rs), scenes and recognised text                          *)
(* (src/visual_processing.rs, src/ocr_processing.rs,                       *)
(* src/visual_timeline.rs), SponsorBlock snapshots (src/sponsorblock.rs)   *)
(* and the evidence batches made of them (src/media_evidence.rs).          *)
(*                                                                         *)
(* A run row is named by what made it: detector, input bytes and settings. *)
(* An analysis reads the file without a lock, computes for minutes, and    *)
(* stores its batch in one transaction, which upserts by key and then      *)
(* deletes what the batch does not hold.  The upsert of the run row is the *)
(* transaction's first statement and locks it, so the transactions of one  *)
(* run are serial and each is one action.  An export reads table after     *)
(* table, each statement in a transaction of its own.                      *)
(*                                                                         *)
(* Every download brings bytes of its own, numbered in order.  Media       *)
(* changes, jobs and exports are bounded; a job may stop at any step,      *)
(* which leaves what it has committed.                                     *)
(***************************************************************************)
EXTENDS Integers, Sequences, FiniteSets, SequencesExt, FiniteSetsExt

CONSTANTS
  Jobs,            \* analyses, refreshes and exports; each runs at most once
  Settings,        \* see IsSetting
  FaceFootage,     \* named sets of what may be seen in a file: see IsFaceFootage
  VoiceFootage, TextFootage,
  ScenesIn,        \* per bytes, the lengths of the scenes in frames
  StartsAtZero,    \* the bytes whose first presentation timestamp is 0
  Similarity,      \* of two faces
  MinSimilarity, SampleInterval, MaxGap, Slack,
  Answers,         \* what SponsorBlock may answer
  None

Detectors == {"faces", "voices", "scenes", "exact", "ocr"}
Kinds == Detectors \cup {"sponsorblock", "export"}
Contents == DOMAIN ScenesIn

\* job: what each job is; refresh: the jobs asked to refresh; select: are
\* exports made for one scene run; faces: what may be seen of faces; changes: the
\* downloads that replace the media, none of which it stays as it is.
IsSetting(s) ==
  /\ s.job \in [Jobs -> Kinds \cup {None}]
  /\ s.refresh \subseteq Jobs
  /\ s.select \in BOOLEAN
  /\ s.faces \in DOMAIN FaceFootage
  /\ s.changes \in Nat

\* Frames with the time and the faces found in them, in the detector's order.
IsFaceFootage(f) ==
  f \in Seq([at : Nat, faces : Seq([face : DOMAIN Similarity, score : Nat, inside : BOOLEAN])])

\* Diarised segments, one after the other, and the lengths of the windows embedded.
IsVoiceFootage(f) ==
  /\ f.segments \in Seq(Range(f.segments)) /\ f.windows \in Seq(Nat \ {0})
  /\ \A i \in DOMAIN f.segments :
       /\ f.segments[i].start \in Nat /\ f.segments[i].end \in Nat
       /\ f.segments[i].start < f.segments[i].end
       /\ \A k \in DOMAIN f.segments : i < k => f.segments[i].end <= f.segments[k].start

\* Raw observations, None for one without text, and the tracks over them, each with an id.
IsTextFootage(f) ==
  /\ f.observations \in Seq(Range(f.observations)) /\ f.tracks \in Seq(Range(f.tracks))
  /\ \A i \in DOMAIN f.tracks :
       /\ f.tracks[i].samples \in Nat
       /\ \A k \in DOMAIN f.tracks : f.tracks[i].key = f.tracks[k].key => i = k

ASSUME EvidenceAssumption ==
  /\ \A s \in Settings : IsSetting(s)
  /\ \A n \in DOMAIN FaceFootage : \A f \in FaceFootage[n] : IsFaceFootage(f)
  /\ \A f \in VoiceFootage : IsVoiceFootage(f)
  /\ \A f \in TextFootage : IsTextFootage(f)
  /\ StartsAtZero \subseteq Contents /\ Contents = 1..Cardinality(Contents)

ASSUME ConfigurationAssumption ==
  /\ Similarity \in [DOMAIN Similarity -> [DOMAIN Similarity -> Int]] /\ MinSimilarity \in Int
  /\ SampleInterval \in Nat \ {0} /\ MaxGap \in Nat /\ MaxGap >= SampleInterval
  /\ Slack \in Nat

VARIABLES
  setting,        \* never changes
  file,           \* the bytes at local_video_path, None without a file
  released,       \* the bytes the acquisition record names once they are deleted
  newest,         \* the number of the newest bytes
  runs,           \* media_processing_runs: detector, input, configuration
  observations,   \* the observations of each run, by key
  tracks,         \* its tracks, by key
  links,          \* *_track_observations
  scenes,         \* video_scenes
  sceneLinks,     \* visual_text_track_scenes
  snapshots,      \* sponsorblock_snapshots
  segments,       \* sponsorblock_segments
  job             \* per job, where it is and what it holds

tables == <<runs, observations, tracks, links, scenes, sceneLinks>>
media == <<file, released, newest>>
vars == <<setting, media, tables, snapshots, segments, job>>

\* What a job holds: of an analysis the bytes it hashed and those it analysed, what it
\* found and the scenes it matched; of a refresh the answer; of an export whether others
\* committed meanwhile, what it has read, and the track it is at.
Idle == [pc |-> "idle", hash |-> None, of |-> None, seen |-> None, known |-> {},
         answer |-> None, torn |-> FALSE, scenes |-> {}, observations |-> {}, todo |-> {},
         track |-> None, members |-> {}, tracks |-> {}, snapshot |-> None, segments |-> {}]
Busy(j) == job[j].pc \notin {"idle", "done", "failed", "reused"}
Go(j, state) == job' = [job EXCEPT ![j] = state]
Ended(result) == [Idle EXCEPT !.pc = result]

Init ==
  /\ setting \in Settings
  /\ file \in {None, 1} /\ released = None /\ newest = 1
  /\ runs = {} /\ observations = {} /\ tracks = {} /\ links = {}
  /\ scenes = {} /\ sceneLinks = {} /\ snapshots = {} /\ segments = {}
  /\ job = [j \in Jobs |-> Idle]

-----------------------------------------------------------------------------
(* Other jobs' downloads and releases of the media.                        *)

Replace ==
  /\ newest - 1 < setting.changes /\ newest + 1 \in Contents
  /\ newest' = newest + 1 /\ file' = newest + 1 /\ released' = None
  /\ UNCHANGED <<setting, tables, snapshots, segments, job>>

Release ==
  /\ file # None /\ setting.changes > 0
  /\ file' = None /\ released' = file
  /\ UNCHANGED <<setting, newest, tables, snapshots, segments, job>>

-----------------------------------------------------------------------------
(* Face tracks.                                                            *)

\* analyze_media: the frames at least an interval after the sampled one before.
SampleFrame(state, frame) ==
  IF frame.at < state.next THEN state
  ELSE [frames |-> Append(state.frames, frame), next |-> frame.at + SampleInterval]

Sampled(footage) == FoldLeft(SampleFrame, [frames |-> <<>>, next |-> 0], footage).frames

\* assign_track's candidates: not used in this frame, and seen recently.
FreeTracks(all, used, seen) ==
  {t \in DOMAIN all : t \notin used /\ seen.at - all[t].end <= MaxGap}

Close(all, used, seen) ==
  {t \in FreeTracks(all, used, seen) : Similarity[all[t].face][seen.face] >= MinSimilarity}

\* The candidate most similar to the detection, the first of equals.
BestTrack(all, candidates, seen) ==
  LET Score(t) == Similarity[all[t].face][seen.face] IN
  CHOOSE t \in candidates :
    \A u \in candidates : Score(t) > Score(u) \/ (Score(t) = Score(u) /\ t <= u)

\* assign_track: the detection joins that track, which it represents from now
\* on if it scores better; or it opens a track of its own, under its own key.
AssignTrack(state, seen) ==
  LET close == Close(state.tracks, state.used, seen) IN
  IF close = {}
  THEN [seen |-> Append(state.seen, seen),
        tracks |-> Append(state.tracks,
          [key |-> seen.key, start |-> seen.at, end |-> seen.at, score |-> seen.score,
           face |-> seen.face, members |-> {seen.key}]),
        used |-> state.used \cup {Len(state.tracks) + 1}]
  ELSE
    LET t == BestTrack(state.tracks, close, seen)
        old == state.tracks[t]
        better == seen.score > old.score
    IN [seen |-> Append(state.seen, seen),
        tracks |-> [state.tracks EXCEPT ![t] =
          [old EXCEPT !.end = seen.at,
                      !.score = IF better THEN seen.score ELSE @,
                      !.face = IF better THEN seen.face ELSE @,
                      !.members = @ \cup {seen.key}]],
        used |-> state.used \cup {t}]

\* The detections of one frame, each under the key frame-<frame>-face-<index>.
TrackFrame(state, frame) ==
  LET keyed == [k \in DOMAIN frame.faces |->
                  LET d == frame.faces[k]
                  IN [at |-> frame.at, key |-> <<frame.at, k>>, face |-> d.face,
                      score |-> d.score, inside |-> d.inside]]
  IN FoldLeft(AssignTrack, [state EXCEPT !.used = {}], keyed)

TrackFaces(footage) ==
  FoldLeft(TrackFrame, [seen |-> <<>>, tracks |-> <<>>, used |-> {}], Sampled(footage))

\* upsert_face_observation, upsert_face_track, link_face_observation_to_track:
\* the rows of a batch.
FaceObservations(end) == Range(end.seen)
FaceTracks(end) ==
  {[key |-> t.key, count |-> Cardinality(t.members), start |-> t.start, end |-> t.end,
    face |-> t.face] : t \in Range(end.tracks)}
FaceLinks(end) == UNION {{<<t.key, o>> : o \in t.members} : t \in Range(end.tracks)}

\* validate_region: a box off the picture is refused.
InPicture(o) == o.inside

FaceBatch(footage) ==
  LET end == TrackFaces(footage)
  IN [observations |-> FaceObservations(end), tracks |-> FaceTracks(end),
      links |-> FaceLinks(end), sceneLinks |-> {},
      valid |-> \A o \in FaceObservations(end) : InPicture(o)]

-----------------------------------------------------------------------------
(* Voice tracks.                                                           *)

FirstWindows(windows, n) == FoldLeft(+, 0, SubSeq(windows, 1, n))

\* window_observations: a segment takes windows until what is left of it is
\* within the slack; no number does when they run out.
WindowsOf(segment, windows) ==
  {n \in DOMAIN windows :
     /\ (segment.end - segment.start) - FirstWindows(windows, n) <= Slack
     /\ \A m \in 1..(n - 1) :
          (segment.end - segment.start) - FirstWindows(windows, m) > Slack}

TakeWindows(state, segment) ==
  IF segment.speaker = None \/ ~state.ok THEN state
  ELSE IF WindowsOf(segment, state.windows) = {} THEN [state EXCEPT !.ok = FALSE]
  ELSE
    LET n == CHOOSE k \in WindowsOf(segment, state.windows) : TRUE
        From(i) == segment.start + FirstWindows(state.windows, i - 1)
    IN [ok |-> TRUE,
        windows |-> SubSeq(state.windows, n + 1, Len(state.windows)),
        seen |-> state.seen \o [i \in 1..n |->
          [key |-> Len(state.seen) + i, speaker |-> segment.speaker, start |-> From(i),
           end |-> IF i = n THEN segment.end ELSE From(i + 1)]]]

Diarise(footage) ==
  FoldLeft(TakeWindows, [ok |-> TRUE, windows |-> footage.windows, seen |-> <<>>],
           footage.segments)

\* upsert_voice_observation, upsert_voice_track, link_voice_observation_to_track:
\* a track per speaker label.
VoiceObservations(end) == Range(end.seen)
SaidBy(end, speaker) == {o \in VoiceObservations(end) : o.speaker = speaker}
VoiceTracks(end) ==
  {[key |-> s, count |-> Cardinality(SaidBy(end, s)),
    start |-> Min({o.start : o \in SaidBy(end, s)}),
    end |-> Max({o.end : o \in SaidBy(end, s)})] :
     s \in {o.speaker : o \in VoiceObservations(end)}}
VoiceLinks(end) == {<<o.speaker, o.key>> : o \in VoiceObservations(end)}

\* Segments without windows, or windows left over, are an error.
VoiceBatch(footage) ==
  LET end == Diarise(footage)
  IN [observations |-> VoiceObservations(end), tracks |-> VoiceTracks(end),
      links |-> VoiceLinks(end), sceneLinks |-> {},
      valid |-> end.ok /\ end.windows = <<>>]

-----------------------------------------------------------------------------
(* Scenes and recognised text.                                             *)

RunOf(detector, content) ==
  [detector |-> IF detector = "exact" THEN "scenes" ELSE detector,
   input |-> content,
   config |-> IF detector = "exact" THEN "exact" ELSE "default"]

\* detect_content_scenes: the scenes of these bytes, one after the other.
ScenesOf(content) ==
  {LET start == FirstWindows(ScenesIn[content], i - 1)
   IN [index |-> i, start |-> start, end |-> start + ScenesIn[content][i]] :
     i \in DOMAIN ScenesIn[content]}

\* Mutant: the scenes of whatever bytes were analysed.
MatchingScenesOfAny(content) ==
  {s \in scenes : s.run.config = "default" /\ s.row \in ScenesOf(content)}

\* matching_scene_ids: the default run of the same bytes, as far as its scenes
\* have the frames that were just seen.
MatchingScenes(content) ==
  {s \in scenes : s.run = RunOf("scenes", content) /\ s.row \in ScenesOf(content)}

\* upsert_visual_text_observation: observations without text are dropped.
TextObservations(footage) ==
  {[key |-> i, text |-> footage.observations[i]] :
     i \in {i \in DOMAIN footage.observations : footage.observations[i] # None}}

\* upsert_visual_text_track: a track with its members and the scenes known.
TextTracks(footage) == {[key |-> t.key, count |-> t.samples] : t \in Range(footage.tracks)}
TextLinks(footage) == UNION {{<<t.key, i>> : i \in t.members} : t \in Range(footage.tracks)}
TextSceneLinks(footage, known) ==
  UNION {{<<t.key, s>> : s \in {s \in known : s.row.index \in t.scenes}} :
           t \in Range(footage.tracks)}

\* project_batch: a track over an observation that was dropped, or with another
\* number of samples than members, is an error.
TextBatch(footage, known) ==
  LET kept == {o.key : o \in TextObservations(footage)}
  IN [observations |-> TextObservations(footage), tracks |-> TextTracks(footage),
      links |-> TextLinks(footage), sceneLinks |-> TextSceneLinks(footage, known),
      valid |-> \A t \in Range(footage.tracks) :
                  /\ t.members \subseteq kept /\ t.samples > 0
                  /\ Cardinality(t.members) = t.samples]

-----------------------------------------------------------------------------
(* The life of an analysis.                                                *)

\* file_identity of the file, or as the released record says.
SourceHash == IF file # None THEN file ELSE released

\* existing_run, previous_run: a run over the media's present bytes.
HasRun(detector) == SourceHash # None /\ RunOf(detector, SourceHash) \in runs

\* has_current_scene_output: such a run that has scenes.
HasScenes ==
  HasRun("scenes") /\ \E s \in scenes : s.run = RunOf("scenes", SourceHash)

\* A stage holds its detector's advisory lock.
MayStart(j, detectors) ==
  /\ setting.job[j] \in detectors /\ job[j].pc = "idle"
  /\ ~\E i \in Jobs : setting.job[i] = setting.job[j] /\ Busy(i)

\* media_path and the hash of what is there; without a file there is no analysis.
Open(j) ==
  Go(j, IF file = None THEN Ended("failed")
        ELSE [job[j] EXCEPT !.pc = "analyze", !.hash = file])

\* Faces and OCR look for a run before they need the file.
LookThenOpen(j) ==
  /\ MayStart(j, {"faces", "ocr"})
  /\ IF j \notin setting.refresh /\ HasRun(setting.job[j]) THEN Go(j, Ended("reused"))
     ELSE Open(j)
  /\ UNCHANGED <<setting, media, tables, snapshots, segments>>

\* Voices need it to look.
OpenThenLook(j) ==
  /\ MayStart(j, {"voices"})
  /\ IF file # None /\ j \notin setting.refresh /\ HasRun("voices")
     THEN Go(j, Ended("reused"))
     ELSE Open(j)
  /\ UNCHANGED <<setting, media, tables, snapshots, segments>>

\* The stage looks for scenes; the exact analysis never does.
OpenForScenes(j) ==
  /\ MayStart(j, {"scenes", "exact"})
  /\ IF setting.job[j] = "scenes" /\ j \notin setting.refresh /\ HasScenes
     THEN Go(j, Ended("reused"))
     ELSE Open(j)
  /\ UNCHANGED <<setting, media, tables, snapshots, segments>>

\* What an analysis finds in the bytes that are there by now.
Find(j, found) ==
  Go(j, [job[j] EXCEPT !.pc = "compare", !.of = file, !.seen = found])

AnalyzeFaces(j) ==
  /\ job[j].pc = "analyze" /\ setting.job[j] = "faces" /\ file # None
  /\ \E footage \in FaceFootage[setting.faces] : Find(j, footage)
  /\ UNCHANGED <<setting, media, tables, snapshots, segments>>

AnalyzeVoices(j) ==
  /\ job[j].pc = "analyze" /\ setting.job[j] = "voices" /\ file # None
  /\ \E footage \in VoiceFootage : Find(j, footage)
  /\ UNCHANGED <<setting, media, tables, snapshots, segments>>

\* OCR detects the scenes itself and needs one.
AnalyzeText(j) ==
  /\ job[j].pc = "analyze" /\ setting.job[j] = "ocr" /\ file # None
  /\ ScenesIn[file] # <<>>
  /\ \E footage \in TextFootage : Find(j, footage)
  /\ UNCHANGED <<setting, media, tables, snapshots, segments>>

\* The clock of an exact analysis must start at 0.
DetectScenes(j) ==
  /\ job[j].pc = "analyze" /\ setting.job[j] \in {"scenes", "exact"} /\ file # None
  /\ setting.job[j] = "exact" => file \in StartsAtZero
  /\ Find(j, None)
  /\ UNCHANGED <<setting, media, tables, snapshots, segments>>

\* The file is gone, cannot be decoded or does not do, or a model does not load.
AnalysisFails(j) ==
  /\ job[j].pc = "analyze"
  /\ Go(j, Ended("failed"))
  /\ UNCHANGED <<setting, media, tables, snapshots, segments>>

\* The bytes must be those hashed before the analysis.
Compare(j) ==
  /\ job[j].pc = "compare"
  /\ IF file # job[j].hash THEN Go(j, Ended("failed"))
     ELSE IF setting.job[j] = "ocr" THEN Go(j, [job[j] EXCEPT !.pc = "match"])
     ELSE Go(j, [job[j] EXCEPT !.pc = "persist", !.known = {}])
  /\ UNCHANGED <<setting, media, tables, snapshots, segments>>

\* persist_batch of OCR reads the scenes before its transaction begins.
MatchScenes(j) ==
  /\ job[j].pc = "match"
  /\ Go(j, [job[j] EXCEPT !.pc = "persist", !.known = MatchingScenes(job[j].of)])
  /\ UNCHANGED <<setting, media, tables, snapshots, segments>>

\* INSERT ... ON CONFLICT (run_id, key) DO UPDATE
Upsert(table, run, rows) ==
  {x \in table : ~(x.run = run /\ \E o \in rows : o.key = x.row.key)}
    \cup {[run |-> run, row |-> o] : o \in rows}

\* DELETE ... WHERE run_id = run AND NOT (id = ANY(batch)): only this exact run.
Reconcile(table, run, rows) ==
  {x \in table : x.run = run => \E o \in rows : o.key = x.row.key}

\* Every other export under way has now read some tables before this commit
\* and others after it.
Committed(j) ==
  job' = [i \in Jobs |->
    IF i = j THEN Ended("done")
    ELSE IF setting.job[i] = "export" /\ Busy(i) THEN [job[i] EXCEPT !.torn = TRUE]
    ELSE job[i]]

Batch(j) ==
  CASE setting.job[j] = "faces" -> FaceBatch(job[j].seen)
    [] setting.job[j] = "voices" -> VoiceBatch(job[j].seen)
    [] setting.job[j] = "ocr" -> TextBatch(job[j].seen, job[j].known)

\* The statements of a transaction that stores a batch of valid rows.
Store(j, run, batch) ==
  /\ batch.valid
  /\ runs' = runs \cup {run}
  /\ observations' = Reconcile(Upsert(observations, run, batch.observations),
                               run, batch.observations)
  /\ tracks' = Reconcile(Upsert(tracks, run, batch.tracks), run, batch.tracks)
  /\ links' = {l \in links : l.run # run} \cup
       {[run |-> run, track |-> l[1], observation |-> l[2]] : l \in batch.links}
  /\ sceneLinks' = {l \in sceneLinks : l.run # run} \cup
       {[run |-> run, track |-> l[1], scene |-> l[2]] : l \in batch.sceneLinks}
  /\ Committed(j)
  /\ UNCHANGED <<setting, media, scenes, snapshots, segments>>

PersistFaces(j) ==
  /\ job[j].pc = "persist" /\ setting.job[j] = "faces"
  /\ Store(j, RunOf("faces", job[j].hash), Batch(j))

PersistVoices(j) ==
  /\ job[j].pc = "persist" /\ setting.job[j] = "voices"
  /\ Store(j, RunOf("voices", job[j].hash), Batch(j))

\* A scene that is gone by now would fail the link, and with it the batch.
PersistText(j) ==
  /\ job[j].pc = "persist" /\ setting.job[j] = "ocr"
  /\ job[j].known \subseteq scenes
  /\ Store(j, RunOf("ocr", job[j].hash), Batch(j))

\* A row that is refused fails the batch and rolls its transaction back.
PersistFails(j) ==
  /\ job[j].pc = "persist" /\ setting.job[j] \in {"faces", "voices", "ocr"}
  /\ ~Batch(j).valid
  /\ Go(j, Ended("failed"))
  /\ UNCHANGED <<setting, media, tables, snapshots, segments>>

\* analyze_and_persist_scenes: the run and its scenes, by index; a longer list
\* of an earlier analysis would stay.
PersistScenes(j) ==
  /\ job[j].pc = "persist" /\ setting.job[j] \in {"scenes", "exact"}
  /\ LET run == RunOf(setting.job[j], job[j].hash)
         rows == ScenesOf(job[j].of)
     IN /\ runs' = runs \cup {run}
        /\ scenes' = {s \in scenes : ~(s.run = run /\ \E o \in rows : o.index = s.row.index)}
                       \cup {[run |-> run, row |-> o] : o \in rows}
  /\ Committed(j)
  /\ UNCHANGED <<setting, media, observations, tracks, links, sceneLinks, snapshots, segments>>

-----------------------------------------------------------------------------
(* SponsorBlock.                                                           *)

\* collect_corpus_stats: Missing asks when nothing is stored, All always.
StartRefresh(j) ==
  /\ setting.job[j] = "sponsorblock" /\ job[j].pc = "idle"
  /\ IF snapshots # {} /\ j \notin setting.refresh THEN Go(j, Ended("reused"))
     ELSE Go(j, [job[j] EXCEPT !.pc = "fetch"])
  /\ UNCHANGED <<setting, media, tables, snapshots, segments>>

Fetch(j) ==
  /\ job[j].pc = "fetch"
  /\ \/ \E a \in Answers : Go(j, [job[j] EXCEPT !.pc = "store", !.answer = a])
     \/ Go(j, Ended("failed"))
  /\ UNCHANGED <<setting, media, tables, snapshots, segments>>

\* Mutant: a snapshot is named by what was asked for.
HashOfRequest(answer) == answer.categories

\* response_hash: of the categories and the segments.
HashOf(answer) == answer

\* persist_sponsorblock_snapshot: one transaction; the same answer again is
\* only fetched again.
StoreSnapshot(j) ==
  /\ job[j].pc = "store"
  /\ LET answer == job[j].answer
         id == HashOf(answer)
         Own(g) == g.snapshot = id /\ \E s \in answer.segments : s.uuid = g.segment.uuid
     IN /\ snapshots' = {s \in snapshots : s.id # id} \cup
             {[id |-> id, categories |-> answer.categories,
               fetched |-> 1 + Max({0} \cup {s.fetched : s \in snapshots})]}
        /\ segments' = {g \in segments : ~Own(g)} \cup
             {[snapshot |-> id, segment |-> s] : s \in answer.segments}
  /\ Go(j, Ended("done"))
  /\ UNCHANGED <<setting, media, tables>>

-----------------------------------------------------------------------------
(* The export of a batch.                                                  *)

ReadScenes(e) ==
  /\ setting.job[e] = "export" /\ job[e].pc = "idle"
  /\ Go(e, [job[e] EXCEPT !.pc = "observations", !.scenes = scenes])
  /\ UNCHANGED <<setting, media, tables, snapshots, segments>>

ReadObservations(e) ==
  /\ job[e].pc = "observations"
  /\ Go(e, [job[e] EXCEPT !.pc = "tracks",
                          !.observations = {o \in observations : o.run.detector = "ocr"}])
  /\ UNCHANGED <<setting, media, tables, snapshots, segments>>

ReadTracks(e) ==
  /\ job[e].pc = "tracks"
  /\ Go(e, [job[e] EXCEPT !.pc = "links", !.todo = {t \in tracks : t.run.detector = "ocr"}])
  /\ UNCHANGED <<setting, media, tables, snapshots, segments>>

\* Of each track read, first the observations it has now, then the scenes.
ReadLinks(e) ==
  /\ job[e].pc = "links" /\ job[e].todo # {}
  /\ LET t == CHOOSE t \in job[e].todo : TRUE
     IN Go(e, [job[e] EXCEPT !.pc = "sceneLinks", !.track = t,
                             !.members = {[run |-> l.run, key |-> l.observation] :
                               l \in {l \in links : l.run = t.run /\ l.track = t.row.key}}])
  /\ UNCHANGED <<setting, media, tables, snapshots, segments>>

ReadSceneLinks(e) ==
  /\ job[e].pc = "sceneLinks"
  /\ LET t == job[e].track
         own == {l \in sceneLinks : l.run = t.run /\ l.track = t.row.key}
     IN Go(e, [job[e] EXCEPT !.pc = "links", !.todo = @ \ {t},
                             !.tracks = @ \cup {[track |-> t, members |-> job[e].members,
                                                scenes |-> {l.scene : l \in own}]}])
  /\ UNCHANGED <<setting, media, tables, snapshots, segments>>

\* latest_sponsorblock_snapshot, in two statements.
ReadSnapshot(e) ==
  /\ job[e].pc = "links" /\ job[e].todo = {}
  /\ Go(e, [job[e] EXCEPT !.pc = "segments",
                          !.snapshot = IF snapshots = {} THEN None
                                       ELSE CHOOSE s \in snapshots :
                                              \A r \in snapshots : r.fetched <= s.fetched])
  /\ UNCHANGED <<setting, media, tables, snapshots, segments>>

\* Mutant: the tracks keep the scenes of the runs that were not selected.
SelectedTracksUnfiltered(e, selected) == job[e].tracks

SelectedTracks(e, selected) ==
  {[t EXCEPT !.scenes = @ \cap selected] : t \in job[e].tracks}

\* The segments it has by now.
SegmentsOf(snapshot) ==
  IF snapshot = None THEN {}
  ELSE {g.segment : g \in {g \in segments : g.snapshot = snapshot.id}}

\* The batch; for one scene run, select_scene_run narrows it to that run's
\* scenes, or fails if there is none.
Deliver(e) ==
  Go(e, [job[e] EXCEPT !.pc = "done", !.segments = SegmentsOf(job[e].snapshot)])

DeliverRun(e, run) ==
  LET own == {s \in job[e].scenes : s.run = run} IN
  IF own = {} THEN Go(e, Ended("failed"))
  ELSE Go(e, [job[e] EXCEPT !.pc = "done", !.segments = SegmentsOf(job[e].snapshot),
                            !.scenes = own, !.tracks = SelectedTracks(e, own)])

ReadSegments(e) ==
  /\ job[e].pc = "segments"
  /\ \/ ~setting.select /\ Deliver(e)
     \/ /\ setting.select
        /\ \E d \in {"scenes", "exact"}, c \in Contents : DeliverRun(e, RunOf(d, c))
  /\ UNCHANGED <<setting, media, tables, snapshots, segments>>

-----------------------------------------------------------------------------

Next ==
  \/ Replace \/ Release
  \/ \E j \in Jobs :
       \/ LookThenOpen(j) \/ OpenThenLook(j) \/ OpenForScenes(j)
       \/ AnalyzeFaces(j) \/ AnalyzeVoices(j) \/ AnalyzeText(j) \/ DetectScenes(j)
       \/ AnalysisFails(j) \/ Compare(j) \/ MatchScenes(j)
       \/ PersistFaces(j) \/ PersistVoices(j) \/ PersistText(j) \/ PersistScenes(j)
       \/ PersistFails(j)
       \/ StartRefresh(j) \/ Fetch(j) \/ StoreSnapshot(j)
       \/ ReadScenes(j) \/ ReadObservations(j) \/ ReadTracks(j) \/ ReadLinks(j)
       \/ ReadSceneLinks(j) \/ ReadSnapshot(j) \/ ReadSegments(j)

Spec == Init /\ [][Next]_vars

-----------------------------------------------------------------------------
(* What must hold.                                                         *)

RowsOf(table, run) == {x.row : x \in {x \in table : x.run = run}}
MembersOf(t) == {l.observation : l \in {l \in links : l.run = t.run /\ l.track = t.row.key}}

\* The observations a track joins are those of one face seen again and again:
\* never two of one frame, never across a longer gap, represented by the best.
FaceTrackIsSound(t) ==
  LET members == {o \in RowsOf(observations, t.run) : o.key \in MembersOf(t)} IN
  /\ \A o, p \in members : o.at = p.at => o = p
  /\ \A o \in members :
       \/ o.at = t.row.end
       \/ \E p \in members : p.at > o.at /\ p.at - o.at <= MaxGap
  /\ t.row.start = Min({o.at : o \in members}) /\ t.row.end = Max({o.at : o \in members})
  /\ \E o \in members : o.face = t.row.face /\ \A p \in members : p.score <= o.score

\* The windows of a recording follow each other, and a track is one speaker's.
VoicesAreSound(run) ==
  LET said == RowsOf(observations, run) IN
  /\ \A o, p \in said : o.key < p.key => o.end <= p.start
  /\ \A o \in said : o.start < o.end
  /\ \A t \in {t \in tracks : t.run = run} :
       MembersOf(t) = {o.key : o \in {o \in said : o.speaker = t.row.key}}

\* However often a file is analysed again, with other detections each time, the
\* rows of a run are those of one analysis: every track has as many members as
\* it says, every face and voice observation is in one track, and the tracks
\* are what the tracker promises.
TracksAreSound ==
  /\ \A x \in observations \cup tracks : x.run \in runs
  /\ \A l \in links :
       /\ \E o \in RowsOf(observations, l.run) : o.key = l.observation
       /\ \E t \in RowsOf(tracks, l.run) : t.key = l.track
  /\ \A t \in tracks : Cardinality(MembersOf(t)) = t.row.count /\ t.row.count > 0
  /\ \A x \in {x \in observations : x.run.detector \in {"faces", "voices"}} :
       Cardinality({l \in links : l.run = x.run /\ l.observation = x.row.key}) = 1
  /\ \A t \in tracks : t.run.detector = "faces" => FaceTrackIsSound(t)
  /\ \A run \in runs : run.detector = "voices" => VoicesAreSound(run)

\* Text is linked to scenes of the bytes it was read from, at the frames they
\* had there, whatever was downloaded between the two analyses.
LinkedScenesMatch ==
  /\ \A s \in scenes : s.row \in ScenesOf(s.run.input)
  /\ \A l \in sceneLinks :
       /\ l.scene \in scenes /\ l.scene.run = RunOf("scenes", l.run.input)
       /\ \E t \in RowsOf(tracks, l.run) : t.key = l.track

\* The rows of the analyses are sound in both ways, at every step.
StoredRowsAreSound == TracksAreSound /\ LinkedScenesMatch

Exported == {e \in Jobs : setting.job[e] = "export" /\ job[e].pc = "done"}

\* An exported batch has each scene run whole.  Its tracks name only scenes and
\* observations of the batch, unless an analysis stored its rows while the
\* export was reading; a batch for one scene run names only scenes of that run
\* even then.
ExportsResolve ==
  \A e \in Exported :
    /\ \A s \in job[e].scenes : RowsOf(job[e].scenes, s.run) = ScenesOf(s.run.input)
    /\ \A t \in job[e].tracks :
         /\ ~job[e].torn \/ setting.select => t.scenes \subseteq job[e].scenes
         /\ ~job[e].torn =>
              /\ Cardinality(t.members) = t.track.row.count
              /\ \A m \in t.members :
                   \E o \in job[e].observations : o.run = m.run /\ o.row.key = m.key

\* What is stored, and exported, as a snapshot of SponsorBlock is one answer of
\* it, never segments of several, however refreshes and exports interleave.
SnapshotIsOneAnswer ==
  /\ \A s \in snapshots : \E a \in Answers :
       /\ a.categories = s.categories
       /\ a.segments = {g.segment : g \in {g \in segments : g.snapshot = s.id}}
  /\ \A e \in Exported : job[e].snapshot # None =>
       \E a \in Answers : /\ a.categories = job[e].snapshot.categories
                          /\ a.segments = job[e].segments
=============================================================================
