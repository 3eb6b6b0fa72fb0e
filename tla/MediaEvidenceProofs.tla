----------------------- MODULE MediaEvidenceProofs -------------------------
(***************************************************************************)
(* Theorems about MediaEvidence: whatever analyses, refreshes and exports  *)
(* interleave, on whatever footage, a stored run is the batch of one       *)
(* analysis and its tracks are what the trackers promise, an exported      *)
(* batch resolves, and a snapshot is one answer.                           *)
(*                                                                         *)
(* The trackers are folds over a sequence of any length.  FoldsUp builds   *)
(* the values a fold goes through, by well-founded induction over the      *)
(* indices in set form; Tracked and Heard are what the faces and voices    *)
(* tracked so far are, and hold after each step.  IInv says of the tables  *)
(* that every run's rows are a batch, and of the jobs that what they hold  *)
(* is of the bytes they hashed, or was read from one state of the tables   *)
(* unless a commit came between.                                           *)
(***************************************************************************)
EXTENDS MediaEvidence, FiniteSetTheorems, WellFoundedInduction, TLAPS

---------------------------------------------------------------------------
(* What jobs hold.                                                         *)

Fields == {"pc", "hash", "of", "seen", "known", "answer", "torn", "scenes", "observations",
           "todo", "track", "members", "tracks", "snapshot", "segments"}

\* A job is a record that always has the same fields.
Shaped == DOMAIN job = Jobs /\ \A j \in Jobs : DOMAIN job[j] = Fields

\* A record that changed in the fields S only.
Same(r, q, S) == DOMAIN q = Fields /\ \A f \in Fields \ S : q[f] = r[f]

Rest == <<setting, media, tables, snapshots, segments>>

\* The steps that write no table.
Opens(j) == LookThenOpen(j) \/ OpenThenLook(j) \/ OpenForScenes(j)
Analyzes(j) == AnalyzeFaces(j) \/ AnalyzeVoices(j) \/ AnalyzeText(j) \/ DetectScenes(j)
Exports(e) ==
  \/ ReadScenes(e) \/ ReadObservations(e) \/ ReadTracks(e) \/ ReadLinks(e)
  \/ ReadSceneLinks(e) \/ ReadSnapshot(e) \/ ReadSegments(e)
Prepares(j) ==
  \/ Opens(j) \/ Analyzes(j) \/ AnalysisFails(j) \/ Compare(j) \/ MatchScenes(j)
  \/ PersistFails(j) \/ StartRefresh(j) \/ Fetch(j)

\* What a detector may find in a file.
Fits(detector, seen) ==
  CASE detector = "faces" -> IsFaceFootage(seen)
    [] detector = "voices" -> IsVoiceFootage(seen)
    [] detector = "ocr" -> IsTextFootage(seen)
    [] OTHER -> TRUE

\* What a job holds after a step that is no export's and writes nothing.
Prepared(j, r, q) ==
  \/ \E result \in {"reused", "failed"} : q = Ended(result)
  \/ /\ r.pc = "idle" /\ q.pc = "analyze" /\ file # None /\ q.hash = file
     /\ setting.job[j] \in Detectors /\ Same(r, q, {"pc", "hash"})
  \/ /\ r.pc = "analyze" /\ q.pc = "compare" /\ file # None /\ q.of = file
     /\ Fits(setting.job[j], q.seen) /\ Same(r, q, {"pc", "of", "seen"})
  \/ /\ r.pc = "compare" /\ q.pc = "match" /\ file = r.hash
     /\ setting.job[j] = "ocr" /\ Same(r, q, {"pc"})
  \/ /\ r.pc = "compare" /\ q.pc = "persist" /\ file = r.hash /\ q.known = {}
     /\ setting.job[j] # "ocr" /\ Same(r, q, {"pc", "known"})
  \/ /\ r.pc = "match" /\ q.pc = "persist" /\ q.known = MatchingScenes(r.of)
     /\ Same(r, q, {"pc", "known"})
  \/ r.pc = "idle" /\ q.pc = "fetch" /\ Same(r, q, {"pc"})
  \/ r.pc = "fetch" /\ q.pc = "store" /\ q.answer \in Answers /\ Same(r, q, {"pc", "answer"})

LEMMA IdleShape == DOMAIN Idle = Fields /\ \A result : DOMAIN Ended(result) = Fields
  BY DEF Idle, Ended, Fields

LEMMA EndedFields ==
  ASSUME NEW result
  PROVE  LET q == Ended(result)
         IN /\ q.pc = result /\ q.answer = None /\ ~q.torn /\ q.tracks = {}
            /\ q.scenes = {} /\ q.snapshot = None
  BY DEF Ended, Idle

LEMMA Goes ==
  ASSUME Shaped, NEW j \in Jobs, NEW state, Go(j, state)
  PROVE  /\ job'[j] = state /\ \A i \in Jobs \ {j} : job'[i] = job[i]
         /\ DOMAIN job' = Jobs
  BY DEF Go, Shaped

LEMMA Finding ==
  ASSUME Shaped, NEW j \in Jobs, NEW found, Find(j, found)
  PROVE  /\ job'[j].pc = "compare" /\ job'[j].of = file /\ job'[j].seen = found
         /\ Same(job[j], job'[j], {"pc", "of", "seen"})
         /\ DOMAIN job' = Jobs /\ \A i \in Jobs \ {j} : job'[i] = job[i]
  <1> DEFINE q == [job[j] EXCEPT !.pc = "compare", !.of = file, !.seen = found]
  <1>1. /\ q.pc = "compare" /\ q.of = file /\ q.seen = found
        /\ Same(job[j], q, {"pc", "of", "seen"})
    BY DEF Shaped, Same, Fields
  <1>2. Go(j, q)
    BY DEF Find
  <1> HIDE DEF q
  <1> QED BY <1>1, <1>2, Goes

LEMMA Opening ==
  ASSUME Shaped, NEW j \in Jobs, setting.job[j] \in Detectors, job[j].pc = "idle",
         Open(j) \/ Go(j, Ended("reused"))
  PROVE  /\ Prepared(j, job[j], job'[j])
         /\ DOMAIN job' = Jobs /\ \A i \in Jobs \ {j} : job'[i] = job[i]
  <1>1. CASE Go(j, Ended("reused"))
    BY <1>1, Goes DEF Prepared
  <1>2. CASE Open(j) /\ file = None
    BY <1>2, Goes DEF Open, Prepared
  <1>3. CASE Open(j) /\ file # None
    <2> DEFINE q == [job[j] EXCEPT !.pc = "analyze", !.hash = file]
    <2>1. Go(j, q)
      BY <1>3 DEF Open
    <2>2. q.pc = "analyze" /\ q.hash = file /\ Same(job[j], q, {"pc", "hash"})
      BY DEF Shaped, Same, Fields
    <2> HIDE DEF q
    <2> QED BY <1>3, <2>1, <2>2, Goes DEF Prepared
  <1> QED BY <1>1, <1>2, <1>3

LEMMA Preparing ==
  ASSUME Shaped, setting \in Settings, NEW j \in Jobs, Prepares(j)
  PROVE  /\ UNCHANGED Rest /\ Prepared(j, job[j], job'[j])
         /\ DOMAIN job' = Jobs /\ \A i \in Jobs \ {j} : job'[i] = job[i]
  <1> USE DEF Rest
  <1>1. CASE Opens(j)
    <2>1. setting.job[j] \in Detectors /\ job[j].pc = "idle" /\ UNCHANGED Rest
      BY <1>1 DEF Opens, LookThenOpen, OpenThenLook, OpenForScenes, MayStart, Detectors
    <2>2. Open(j) \/ Go(j, Ended("reused"))
      BY <1>1 DEF Opens, LookThenOpen, OpenThenLook, OpenForScenes
    <2> QED BY <2>1, <2>2, Opening
  <1>2. CASE Analyzes(j)
    <2>1. UNCHANGED Rest /\ job[j].pc = "analyze" /\ file # None
      BY <1>2 DEF Analyzes, AnalyzeFaces, AnalyzeVoices, AnalyzeText, DetectScenes
    <2>2. ASSUME NEW found, Find(j, found), Fits(setting.job[j], found)
          PROVE  Prepared(j, job[j], job'[j])
      BY <2>1, <2>2, Finding DEF Prepared
    <2>3. \E found : Find(j, found) /\ Fits(setting.job[j], found)
      <3>1. CASE AnalyzeFaces(j)
        BY <3>1, EvidenceAssumption DEF AnalyzeFaces, Fits, IsSetting
      <3>2. CASE AnalyzeVoices(j)
        BY <3>2, EvidenceAssumption DEF AnalyzeVoices, Fits
      <3>3. CASE AnalyzeText(j)
        BY <3>3, EvidenceAssumption DEF AnalyzeText, Fits
      <3>4. CASE DetectScenes(j)
        BY <3>4 DEF DetectScenes, Fits
      <3> QED BY <1>2, <3>1, <3>2, <3>3, <3>4 DEF Analyzes
    <2> QED BY <2>1, <2>2, <2>3, Finding
  <1>3. CASE AnalysisFails(j)
    BY <1>3, Goes DEF AnalysisFails, Prepared
  <1>4. CASE Compare(j)
    <2> DEFINE q == [job[j] EXCEPT !.pc = "match"]
               p == [job[j] EXCEPT !.pc = "persist", !.known = {}]
    <2>1. /\ q.pc = "match" /\ Same(job[j], q, {"pc"})
          /\ p.pc = "persist" /\ p.known = {} /\ Same(job[j], p, {"pc", "known"})
      BY DEF Shaped, Same, Fields
    <2>2. /\ UNCHANGED Rest /\ job[j].pc = "compare"
          /\ \/ Go(j, Ended("failed"))
             \/ file = job[j].hash /\ setting.job[j] = "ocr" /\ Go(j, q)
             \/ file = job[j].hash /\ setting.job[j] # "ocr" /\ Go(j, p)
      BY <1>4 DEF Compare
    <2> HIDE DEF q, p
    <2> QED BY <2>1, <2>2, Goes DEF Prepared
  <1>5. CASE MatchScenes(j)
    <2> DEFINE q == [job[j] EXCEPT !.pc = "persist", !.known = MatchingScenes(job[j].of)]
    <2>1. q.pc = "persist" /\ q.known = MatchingScenes(job[j].of)
          /\ Same(job[j], q, {"pc", "known"})
      BY DEF Shaped, Same, Fields
    <2>2. UNCHANGED Rest /\ job[j].pc = "match" /\ Go(j, q)
      BY <1>5 DEF MatchScenes
    <2> HIDE DEF q
    <2> QED BY <2>1, <2>2, Goes DEF Prepared
  <1>6. CASE PersistFails(j)
    BY <1>6, Goes DEF PersistFails, Prepared
  <1>7. CASE StartRefresh(j)
    <2> DEFINE q == [job[j] EXCEPT !.pc = "fetch"]
    <2>1. q.pc = "fetch" /\ Same(job[j], q, {"pc"})
      BY DEF Shaped, Same, Fields
    <2>2. UNCHANGED Rest /\ job[j].pc = "idle" /\ (Go(j, Ended("reused")) \/ Go(j, q))
      BY <1>7 DEF StartRefresh
    <2> HIDE DEF q
    <2> QED BY <2>1, <2>2, Goes DEF Prepared
  <1>8. CASE Fetch(j)
    <2>1. UNCHANGED Rest /\ job[j].pc = "fetch"
      BY <1>8 DEF Fetch
    <2>2. CASE Go(j, Ended("failed"))
      BY <2>1, <2>2, Goes DEF Prepared
    <2>3. ASSUME NEW a \in Answers, Go(j, [job[j] EXCEPT !.pc = "store", !.answer = a])
          PROVE  /\ Prepared(j, job[j], job'[j])
                 /\ DOMAIN job' = Jobs /\ \A i \in Jobs \ {j} : job'[i] = job[i]
      <3> DEFINE q == [job[j] EXCEPT !.pc = "store", !.answer = a]
      <3>1. q.pc = "store" /\ q.answer = a /\ Same(job[j], q, {"pc", "answer"})
        BY DEF Shaped, Same, Fields
      <3>2. Go(j, q)
        BY <2>3
      <3> HIDE DEF q
      <3> QED BY <2>1, <3>1, <3>2, Goes DEF Prepared
    <2> QED BY <1>8, <2>1, <2>2, <2>3 DEF Fetch
  <1> QED BY <1>1, <1>2, <1>3, <1>4, <1>5, <1>6, <1>7, <1>8 DEF Prepares

---------------------------------------------------------------------------
(* What an export holds after each of its reads.                           *)

TextRows(table) == {x \in table : x.run.detector = "ocr"}
MembersNow(t) ==
  {[run |-> l.run, key |-> l.observation] :
     l \in {l \in links : l.run = t.run /\ l.track = t.row.key}}
ScenesNow(t) == {l.scene : l \in {l \in sceneLinks : l.run = t.run /\ l.track = t.row.key}}
Newest == CHOOSE s \in snapshots : \A r \in snapshots : r.fetched <= s.fetched

Exporting(e, r, q) ==
  \/ /\ r.pc = "idle" /\ setting.job[e] = "export" /\ q.pc = "observations"
     /\ q.scenes = scenes /\ Same(r, q, {"pc", "scenes"})
  \/ /\ r.pc = "observations" /\ q.pc = "tracks" /\ q.observations = TextRows(observations)
     /\ Same(r, q, {"pc", "observations"})
  \/ /\ r.pc = "tracks" /\ q.pc = "links" /\ q.todo = TextRows(tracks)
     /\ Same(r, q, {"pc", "todo"})
  \/ /\ r.pc = "links" /\ q.pc = "sceneLinks" /\ q.track \in r.todo
     /\ q.members = MembersNow(q.track) /\ Same(r, q, {"pc", "track", "members"})
  \/ /\ r.pc = "sceneLinks" /\ q.pc = "links" /\ q.todo = r.todo \ {r.track}
     /\ q.tracks = r.tracks \cup {[track |-> r.track, members |-> r.members,
                                  scenes |-> ScenesNow(r.track)]}
     /\ Same(r, q, {"pc", "todo", "tracks"})
  \/ /\ r.pc = "links" /\ q.pc = "segments"
     /\ q.snapshot = IF snapshots = {} THEN None ELSE Newest
     /\ Same(r, q, {"pc", "snapshot"})
  \/ /\ r.pc = "segments" /\ q.pc = "done" /\ q.segments = SegmentsOf(r.snapshot)
     /\ ~setting.select /\ Same(r, q, {"pc", "segments"})
  \/ r.pc = "segments" /\ q = Ended("failed")
  \/ /\ r.pc = "segments" /\ q.pc = "done" /\ q.segments = SegmentsOf(r.snapshot)
     /\ \E run : q.scenes = {s \in r.scenes : s.run = run}
     /\ q.tracks = {[t EXCEPT !.scenes = @ \cap q.scenes] : t \in r.tracks}
     /\ Same(r, q, {"pc", "segments", "scenes", "tracks"})

LEMMA ExportReads ==
  ASSUME Shaped, NEW e \in Jobs, Exports(e)
  PROVE  /\ UNCHANGED Rest /\ Exporting(e, job[e], job'[e])
         /\ DOMAIN job' = Jobs /\ \A i \in Jobs \ {e} : job'[i] = job[i]
  <1> USE DEF Rest
  <1> DEFINE r == job[e]
  <1>0. DOMAIN r = Fields
    BY DEF Shaped
  <1>1. CASE ReadScenes(e)
    <2> DEFINE q == [r EXCEPT !.pc = "observations", !.scenes = scenes]
    <2>1. UNCHANGED Rest /\ r.pc = "idle" /\ setting.job[e] = "export" /\ Go(e, q)
      BY <1>1 DEF ReadScenes
    <2>2. q.pc = "observations" /\ q.scenes = scenes /\ Same(r, q, {"pc", "scenes"})
      BY <1>0 DEF Same, Fields
    <2> HIDE DEF q
    <2> QED BY <2>1, <2>2, Goes DEF Exporting
  <1>2. CASE ReadObservations(e)
    <2> DEFINE q == [r EXCEPT !.pc = "tracks", !.observations = TextRows(observations)]
    <2>1. UNCHANGED Rest /\ r.pc = "observations" /\ Go(e, q)
      BY <1>2 DEF ReadObservations, TextRows
    <2>2. q.pc = "tracks" /\ q.observations = TextRows(observations)
          /\ Same(r, q, {"pc", "observations"})
      BY <1>0 DEF Same, Fields
    <2> HIDE DEF q
    <2> QED BY <2>1, <2>2, Goes DEF Exporting
  <1>3. CASE ReadTracks(e)
    <2> DEFINE q == [r EXCEPT !.pc = "links", !.todo = TextRows(tracks)]
    <2>1. UNCHANGED Rest /\ r.pc = "tracks" /\ Go(e, q)
      BY <1>3 DEF ReadTracks, TextRows
    <2>2. q.pc = "links" /\ q.todo = TextRows(tracks) /\ Same(r, q, {"pc", "todo"})
      BY <1>0 DEF Same, Fields
    <2> HIDE DEF q
    <2> QED BY <2>1, <2>2, Goes DEF Exporting
  <1>4. CASE ReadLinks(e)
    <2> DEFINE t == CHOOSE t \in r.todo : TRUE
               q == [r EXCEPT !.pc = "sceneLinks", !.track = t, !.members = MembersNow(t)]
    <2>1. UNCHANGED Rest /\ r.pc = "links" /\ r.todo # {} /\ Go(e, q)
      BY <1>4 DEF ReadLinks, MembersNow
    <2>2. t \in r.todo
      BY <2>1
    <2>3. q.pc = "sceneLinks" /\ q.track = t /\ q.members = MembersNow(t)
          /\ Same(r, q, {"pc", "track", "members"})
      BY <1>0 DEF Same, Fields
    <2> HIDE DEF q, t
    <2> QED BY <2>1, <2>2, <2>3, Goes DEF Exporting
  <1>5. CASE ReadSceneLinks(e)
    <2> DEFINE w == [track |-> r.track, members |-> r.members, scenes |-> ScenesNow(r.track)]
               q == [r EXCEPT !.pc = "links", !.todo = @ \ {r.track}, !.tracks = @ \cup {w}]
    <2>1. UNCHANGED Rest /\ r.pc = "sceneLinks" /\ Go(e, q)
      BY <1>5 DEF ReadSceneLinks, ScenesNow
    <2>2. q.pc = "links" /\ q.todo = r.todo \ {r.track} /\ q.tracks = r.tracks \cup {w}
          /\ Same(r, q, {"pc", "todo", "tracks"})
      BY <1>0 DEF Same, Fields
    <2> HIDE DEF q
    <2> QED BY <2>1, <2>2, Goes DEF Exporting
  <1>6. CASE ReadSnapshot(e)
    <2> DEFINE s == IF snapshots = {} THEN None ELSE Newest
               q == [r EXCEPT !.pc = "segments", !.snapshot = s]
    <2>1. UNCHANGED Rest /\ r.pc = "links" /\ Go(e, q)
      BY <1>6 DEF ReadSnapshot, Newest
    <2>2. q.pc = "segments" /\ q.snapshot = s /\ Same(r, q, {"pc", "snapshot"})
      BY <1>0 DEF Same, Fields
    <2> HIDE DEF q
    <2> QED BY <2>1, <2>2, Goes DEF Exporting
  <1>7. CASE ReadSegments(e)
    <2> DEFINE got == SegmentsOf(r.snapshot)
               q == [r EXCEPT !.pc = "done", !.segments = got]
    <2>1. UNCHANGED Rest /\ r.pc = "segments"
      BY <1>7 DEF ReadSegments
    <2>2. CASE ~setting.select
      <3>1. q.pc = "done" /\ q.segments = got /\ Same(r, q, {"pc", "segments"})
        BY <1>0 DEF Same, Fields
      <3>2. Go(e, q)
        BY <1>7, <2>2 DEF ReadSegments, Deliver
      <3> HIDE DEF q
      <3> QED BY <2>1, <2>2, <3>1, <3>2, Goes DEF Exporting
    <2>3. CASE setting.select
      <3>1. PICK run : DeliverRun(e, run)
        BY <1>7, <2>3 DEF ReadSegments
      <3> DEFINE own == {s \in r.scenes : s.run = run}
                 p == [r EXCEPT !.pc = "done", !.segments = got, !.scenes = own,
                                !.tracks = SelectedTracks(e, own)]
      <3>2. CASE Go(e, Ended("failed"))
        BY <2>1, <3>2, Goes DEF Exporting
      <3>3. CASE Go(e, p)
        <4>1. /\ p.pc = "done" /\ p.segments = got /\ p.scenes = own
              /\ p.tracks = SelectedTracks(e, own)
              /\ Same(r, p, {"pc", "segments", "scenes", "tracks"})
          BY <1>0 DEF Same, Fields
        <4> HIDE DEF p
        <4>2. job'[e] = p /\ DOMAIN job' = Jobs /\ \A i \in Jobs \ {e} : job'[i] = job[i]
          BY <3>3, Goes
        <4>3. p.tracks = {[t EXCEPT !.scenes = @ \cap p.scenes] : t \in r.tracks}
          BY <4>1 DEF SelectedTracks
        <4> QED BY <2>1, <4>1, <4>2, <4>3 DEF Exporting
      <3> QED BY <3>1, <3>2, <3>3 DEF DeliverRun
    <2> QED BY <2>2, <2>3, EvidenceAssumption, <1>0
  <1> QED BY <1>1, <1>2, <1>3, <1>4, <1>5, <1>6, <1>7 DEF Exports

---------------------------------------------------------------------------
(* The steps, by what they write.                                          *)

Stores(j) == PersistFaces(j) \/ PersistVoices(j) \/ PersistText(j)
Commits(j) == Stores(j) \/ PersistScenes(j)

LEMMA Steps ==
  ASSUME [Next]_vars
  PROVE  \/ Replace \/ Release \/ UNCHANGED vars
         \/ \E j \in Jobs : Prepares(j) \/ Exports(j) \/ Commits(j) \/ StoreSnapshot(j)
  BY DEF Next, Prepares, Opens, Analyzes, Exports, Commits, Stores

\* A commit ends the job, and tells every export that is reading.
LEMMA Committing ==
  ASSUME Shaped, NEW j \in Jobs, Commits(j)
  PROVE  /\ job'[j] = Ended("done") /\ DOMAIN job' = Jobs
         /\ \A i \in Jobs \ {j} :
              \/ /\ setting.job[i] = "export" /\ Busy(i) /\ job'[i].torn
                 /\ Same(job[i], job'[i], {"torn"})
              \/ ~(setting.job[i] = "export" /\ Busy(i)) /\ job'[i] = job[i]
         /\ setting.job[j] \in Detectors /\ job[j].pc = "persist"
         /\ UNCHANGED <<setting, media, snapshots, segments>>
  <1>1. /\ Committed(j) /\ setting.job[j] \in Detectors /\ job[j].pc = "persist"
        /\ UNCHANGED <<setting, media, snapshots, segments>>
    BY DEF Commits, Stores, PersistFaces, PersistVoices, PersistText, PersistScenes, Store,
           Detectors
  <1>2. ASSUME NEW i \in Jobs \ {j}, setting.job[i] = "export", Busy(i)
        PROVE  job'[i].torn /\ Same(job[i], job'[i], {"torn"})
    <2> DEFINE q == [job[i] EXCEPT !.torn = TRUE]
    <2>1. q.torn /\ Same(job[i], q, {"torn"})
      BY DEF Shaped, Same, Fields
    <2>2. job'[i] = q
      BY <1>1, <1>2 DEF Committed
    <2> HIDE DEF q
    <2> QED BY <2>1, <2>2
  <1> QED BY <1>1, <1>2 DEF Committed

LEMMA ShapedStays ==
  ASSUME Shaped, setting \in Settings, [Next]_vars
  PROVE  Shaped' /\ setting' = setting
  <1>1. CASE Replace \/ Release \/ UNCHANGED vars
    BY <1>1 DEF Replace, Release, vars, Shaped
  <1>2. ASSUME NEW j \in Jobs, Prepares(j) \/ Exports(j)
        PROVE  Shaped' /\ setting' = setting
    <2>1. /\ setting' = setting /\ DOMAIN job' = Jobs
          /\ \A i \in Jobs \ {j} : job'[i] = job[i]
          /\ Prepared(j, job[j], job'[j]) \/ Exporting(j, job[j], job'[j])
      BY <1>2, Preparing, ExportReads DEF Rest
    <2>2. DOMAIN job'[j] = Fields
      BY <2>1, IdleShape DEF Prepared, Exporting, Same
    <2> QED BY <2>1, <2>2 DEF Shaped
  <1>3. ASSUME NEW j \in Jobs, Commits(j)
        PROVE  Shaped' /\ setting' = setting
    BY <1>3, Committing, IdleShape DEF Shaped, Same
  <1>4. ASSUME NEW j \in Jobs, StoreSnapshot(j)
        PROVE  Shaped' /\ setting' = setting
    BY <1>4, Goes, IdleShape DEF Shaped, StoreSnapshot
  <1> QED BY <1>1, <1>2, <1>3, <1>4, Steps

---------------------------------------------------------------------------
(* SponsorBlock snapshots.                                                 *)

Pieces(id) == {g.segment : g \in {g \in segments : g.snapshot = id}}
Known(id) == \E s \in snapshots : s.id = id

\* A snapshot is named by the answer it stores, whole; no one is fetched after n.
SnapshotsHold(n) ==
  \A s \in snapshots :
    /\ s.fetched \in 0..n
    /\ s.id \in Answers /\ s.categories = s.id.categories /\ Pieces(s.id) = s.id.segments

\* A refresh holds an answer; an export the name of a stored one, and in the end its segments.
AnswerHeld(r) ==
  /\ r.pc = "store" => r.answer \in Answers
  /\ r.pc \in {"segments", "done"} /\ r.snapshot # None =>
       /\ Known(r.snapshot.id) /\ r.snapshot.id \in Answers
       /\ r.snapshot.categories = r.snapshot.id.categories
       /\ r.pc = "done" => r.segments = r.snapshot.id.segments

SnapInv ==
  /\ Shaped /\ setting \in Settings
  /\ \E n \in Nat : SnapshotsHold(n)
  /\ \A g \in segments : Known(g.snapshot)
  /\ \A j \in Jobs : AnswerHeld(job[j])

Less == {p \in Nat \X Nat : p[1] < p[2]}

\* Numbers up to a bound have a largest one.
LEMMA Largest ==
  ASSUME NEW n \in Nat, NEW S \in SUBSET (0..n), S # {}
  PROVE  \E x \in S : \A y \in S : y <= x
  <1> DEFINE Bounds == {m \in Nat : \A y \in S : y <= m}
  <1>1. n \in Bounds /\ Bounds \subseteq Nat
    OBVIOUS
  <1>2. IsWellFoundedOn(Less, Nat)
    BY NatLessThanWellFounded DEF OpToRel, Less
  <1>3. PICK x \in Bounds : \A y \in Bounds : <<y, x>> \notin Less
    BY <1>1, <1>2, WFMin
  <1>4. CASE x \in S
    BY <1>3, <1>4
  <1>5. CASE x \notin S
    <2>1. \A y \in S : y <= x - 1 /\ y \in Nat
      BY <1>3, <1>5
    <2>2. x - 1 \in Bounds
      <3>1. PICK y \in S : TRUE
        OBVIOUS
      <3>2. x \in Nat /\ y \in Nat /\ y <= x - 1
        BY <1>3, <2>1
      <3>3. x - 1 \in Nat
        BY <3>2
      <3> QED BY <2>1, <3>3
    <2>3. <<x - 1, x>> \in Less
      BY <1>3, <2>2 DEF Less
    <2> QED BY <1>3, <2>2, <2>3
  <1> QED BY <1>4, <1>5

LEMMA NewestStored ==
  ASSUME NEW n \in Nat, SnapshotsHold(n), snapshots # {}
  PROVE  Newest \in snapshots
  <1> DEFINE Times == {s.fetched : s \in snapshots}
  <1>1. Times \in SUBSET (0..n) /\ Times # {}
    BY DEF SnapshotsHold
  <1>2. PICK x \in Times : \A y \in Times : y <= x
    BY <1>1, Largest
  <1>3. \E s \in snapshots : \A r \in snapshots : r.fetched <= s.fetched
    BY <1>2
  <1> QED BY <1>3 DEF Newest

LEMMA PreparedAnswers ==
  ASSUME NEW j, NEW r, NEW q, Prepared(j, r, q)
  PROVE  AnswerHeld(q)
  BY EndedFields DEF Prepared, AnswerHeld

LEMMA ExportedAnswers ==
  ASSUME NEW n \in Nat, SnapshotsHold(n), NEW e, NEW r, NEW q, AnswerHeld(r),
         Exporting(e, r, q)
  PROVE  AnswerHeld(q)
  <1>1. CASE q = Ended("failed")
    BY <1>1, EndedFields DEF AnswerHeld
  <1>2. CASE r.pc = "links" /\ q.pc = "segments"
    <2>1. q.snapshot = IF snapshots = {} THEN None ELSE Newest
      BY <1>2, EndedFields DEF Exporting
    <2>2. CASE q.snapshot # None
      <3>1. q.snapshot \in snapshots
        BY <2>1, <2>2, NewestStored
      <3> QED BY <1>2, <3>1 DEF AnswerHeld, SnapshotsHold, Known
    <2> QED BY <1>2, <2>2 DEF AnswerHeld
  <1>3. CASE r.pc = "segments" /\ q.pc = "done"
    <2>1. q.segments = SegmentsOf(r.snapshot) /\ q.snapshot = r.snapshot
      <3>1. "snapshot" \in Fields
        BY DEF Fields
      <3> QED BY <1>3, <3>1, EndedFields DEF Exporting, Same
    <2>2. CASE q.snapshot # None
      <3>1. /\ Known(r.snapshot.id) /\ r.snapshot.id \in Answers
            /\ r.snapshot.categories = r.snapshot.id.categories
        BY <1>3, <2>1, <2>2 DEF AnswerHeld
      <3>2. Pieces(r.snapshot.id) = r.snapshot.id.segments
        BY <3>1 DEF SnapshotsHold, Known
      <3>3. q.segments = Pieces(r.snapshot.id)
        BY <2>1, <2>2 DEF SegmentsOf, Pieces
      <3> QED BY <1>3, <2>1, <3>1, <3>2, <3>3 DEF AnswerHeld
    <2> QED BY <1>3, <2>2 DEF AnswerHeld
  <1>4. CASE q.pc \notin {"store", "segments", "done"}
    BY <1>4 DEF AnswerHeld
  <1> QED BY <1>1, <1>2, <1>3, <1>4 DEF Exporting

LEMMA StoringSnapshot ==
  ASSUME SnapInv, NEW j \in Jobs, StoreSnapshot(j)
  PROVE  SnapInv'
  <1>a. PICK a \in Answers : a = job[j].answer
    BY DEF SnapInv, AnswerHeld, StoreSnapshot
  <1> DEFINE Own(g) == g.snapshot = a /\ \E s \in a.segments : s.uuid = g.segment.uuid
             Times == {0} \cup {s.fetched : s \in snapshots}
             at == 1 + Max(Times)
             new == [id |-> a, categories |-> a.categories, fetched |-> at]
  <1>1. /\ snapshots' = {s \in snapshots : s.id # a} \cup {new}
        /\ segments' = {g \in segments : ~Own(g)} \cup
             {[snapshot |-> a, segment |-> s] : s \in a.segments}
        /\ Go(j, Ended("done"))
        /\ UNCHANGED setting
    BY <1>a DEF StoreSnapshot, HashOf
  <1>2. new.id = a /\ new.categories = a.categories /\ new.fetched = at
    OBVIOUS
  <1>3. PICK n \in Nat : SnapshotsHold(n)
    BY DEF SnapInv
  <1>4. at \in Nat
    <2>1. Times \in SUBSET (0..n) /\ Times # {}
      BY <1>3 DEF SnapshotsHold
    <2>2. \A t \in Times : t \in Nat
      BY <2>1
    <2> HIDE DEF Times
    <2>3. \E x \in Times : \A y \in Times : y <= x
      BY <2>1, Largest
    <2>4. \E x \in Times : \A y \in Times : x >= y
      BY <2>2, <2>3
    <2>5. Max(Times) \in Times
      BY <2>4 DEF Max
    <2> QED BY <2>2, <2>5
  <1> HIDE DEF Times, at, new
  <1>5. \A s \in snapshots : \E r \in snapshots' : r.id = s.id
    BY <1>1, <1>2
  <1>6. \E r \in snapshots' : r.id = a
    BY <1>1, <1>2
  <1>7. \A id : id # a => {g.segment : g \in {g \in segments' : g.snapshot = id}} = Pieces(id)
    <2>1. \A g \in segments' \ segments : g.snapshot = a
      BY <1>1
    <2>2. \A g \in segments \ segments' : g.snapshot = a
      BY <1>1
    <2> QED BY <2>1, <2>2 DEF Pieces
  <1>8. {g.segment : g \in {g \in segments' : g.snapshot = a}} = a.segments
    <2>1. ASSUME NEW g \in segments, g.snapshot = a
          PROVE  Own(g)
      <3>1. PICK s \in snapshots : s.id = a
        BY <2>1 DEF SnapInv, Known
      <3>2. Pieces(a) = a.segments
        BY <1>3, <3>1 DEF SnapshotsHold
      <3>3. g.segment \in a.segments
        BY <2>1, <3>2 DEF Pieces
      <3> QED BY <2>1, <3>3
    <2> HIDE DEF Own
    <2>2. {g \in segments' : g.snapshot = a} =
            {[snapshot |-> a, segment |-> s] : s \in a.segments}
      BY <1>1, <2>1
    <2> DEFINE D == {g \in segments' : g.snapshot = a}
    <2>3. \A g \in D : g.segment \in a.segments
      BY <2>2
    <2>4. ASSUME NEW s \in a.segments
          PROVE  \E g \in D : g.segment = s
      <3> DEFINE g == [snapshot |-> a, segment |-> s]
      <3>1. g \in D /\ g.segment = s
        BY <2>2
      <3> HIDE DEF g, D
      <3> QED BY <3>1
    <2> HIDE DEF D
    <2>5. {g.segment : g \in D} = a.segments
      BY <2>3, <2>4
    <2> QED BY <2>5 DEF D
  <1> HIDE DEF Own
  <1>9. \E m \in Nat : SnapshotsHold(m)'
    <2>0. \E m \in Nat : n <= m /\ at <= m
      BY <1>4
    <2>1. PICK m \in Nat : n <= m /\ at <= m
      BY <2>0
    <2>2. ASSUME NEW s \in snapshots, s.id # a
          PROVE  /\ s.fetched \in 0..m /\ s.id \in Answers /\ s.categories = s.id.categories
                 /\ {g.segment : g \in {g \in segments' : g.snapshot = s.id}} = s.id.segments
      BY <1>3, <1>7, <2>1, <2>2 DEF SnapshotsHold
    <2>3. /\ new.fetched \in 0..m /\ new.id \in Answers /\ new.categories = new.id.categories
          /\ {g.segment : g \in {g \in segments' : g.snapshot = new.id}} = new.id.segments
      BY <1>2, <1>4, <1>8, <2>1
    <2>4. \A s \in snapshots' :
            /\ s.fetched \in 0..m /\ s.id \in Answers /\ s.categories = s.id.categories
            /\ {g.segment : g \in {g \in segments' : g.snapshot = s.id}} = s.id.segments
      BY <1>1, <2>2, <2>3
    <2> QED BY <2>1, <2>4 DEF SnapshotsHold, Pieces
  <1>10. \A g \in segments' : \E s \in snapshots' : s.id = g.snapshot
    BY <1>1, <1>5, <1>6 DEF SnapInv, Known
  <1>11. ASSUME NEW i \in Jobs
         PROVE  AnswerHeld(job[i])'
    <2>1. CASE i = j
      <3>1. job'[i].pc = "done" /\ job'[i].snapshot = None
        BY <1>1, <2>1, Goes, EndedFields DEF SnapInv
      <3> QED BY <3>1 DEF AnswerHeld
    <2>2. CASE i # j
      <3>1. job'[i] = job[i] /\ AnswerHeld(job[i])
        BY <1>1, <2>2, Goes DEF SnapInv
      <3> QED BY <1>5, <3>1 DEF AnswerHeld, Known
    <2> QED BY <2>1, <2>2
  <1>12. Shaped'
    BY <1>1, Goes, IdleShape DEF SnapInv, Shaped
  <1>13. \A g \in segments' : Known(g.snapshot)'
    BY <1>10 DEF Known
  <1> QED BY <1>1, <1>9, <1>11, <1>12, <1>13 DEF SnapInv

LEMMA SnapStep ==
  ASSUME SnapInv, [Next]_vars
  PROVE  SnapInv'
  <1>1. Shaped' /\ setting' = setting
    BY ShapedStays DEF SnapInv
  <1>2. PICK n \in Nat : SnapshotsHold(n)
    BY DEF SnapInv
  <1>3. ASSUME UNCHANGED <<snapshots, segments>>, \A i \in Jobs : AnswerHeld(job'[i])
        PROVE  SnapInv'
    BY <1>1, <1>2, <1>3 DEF SnapInv, SnapshotsHold, Known, Pieces, AnswerHeld
  <1>4. CASE Replace \/ Release \/ UNCHANGED vars
    BY <1>3, <1>4 DEF Replace, Release, vars, SnapInv
  <1>5. ASSUME NEW j \in Jobs, Prepares(j)
        PROVE  SnapInv'
    BY <1>3, <1>5, Preparing, PreparedAnswers DEF SnapInv, Rest
  <1>6. ASSUME NEW j \in Jobs, Exports(j)
        PROVE  SnapInv'
    BY <1>2, <1>3, <1>6, ExportReads, ExportedAnswers DEF SnapInv, Rest
  <1>7. ASSUME NEW j \in Jobs, Commits(j)
        PROVE  SnapInv'
    <2>1. AnswerHeld(Ended("done"))
      BY EndedFields DEF AnswerHeld
    <2>2. ASSUME NEW i \in Jobs, Same(job[i], job'[i], {"torn"})
          PROVE  AnswerHeld(job'[i])
      BY <2>2 DEF Same, Fields, AnswerHeld, SnapInv
    <2> QED BY <1>3, <1>7, <2>1, <2>2, Committing DEF SnapInv
  <1> QED BY <1>4, <1>5, <1>6, <1>7, Steps, StoringSnapshot

LEMMA SnapInit ==
  ASSUME Init
  PROVE  SnapInv
  <1>1. Shaped /\ setting \in Settings
    BY IdleShape DEF Init, Shaped
  <1>2. SnapshotsHold(0) /\ \A g \in segments : Known(g.snapshot)
    BY DEF Init, SnapshotsHold
  <1>3. \A j \in Jobs : AnswerHeld(job[j])
    BY DEF Init, AnswerHeld, Idle
  <1> QED BY <1>1, <1>2, <1>3 DEF SnapInv

LEMMA SnapHolds ==
  ASSUME SnapInv
  PROVE  SnapshotIsOneAnswer
  <1>1. PICK n \in Nat : SnapshotsHold(n)
    BY DEF SnapInv
  <1>2. ASSUME NEW s \in snapshots
        PROVE  \E a \in Answers :
                 /\ a.categories = s.categories
                 /\ a.segments = {g.segment : g \in {g \in segments : g.snapshot = s.id}}
    BY <1>1 DEF SnapshotsHold, Pieces
  <1>3. ASSUME NEW e \in Exported, job[e].snapshot # None
        PROVE  \E a \in Answers : /\ a.categories = job[e].snapshot.categories
                                  /\ a.segments = job[e].segments
    BY <1>3 DEF SnapInv, AnswerHeld, Exported
  <1> QED BY <1>2, <1>3 DEF SnapshotIsOneAnswer

\* What is stored, and exported, as a snapshot of SponsorBlock is one answer of it.
THEOREM OneAnswer == Spec => []SnapshotIsOneAnswer
  <1>1. Init => SnapInv
    BY SnapInit
  <1>2. SnapInv /\ [Next]_vars => SnapInv'
    BY SnapStep
  <1>3. SnapInv => SnapshotIsOneAnswer
    BY SnapHolds
  <1> QED BY <1>1, <1>2, <1>3, PTL DEF Spec

---------------------------------------------------------------------------
(* Folds, one element after the other.                                     *)

\* Induction over the numbers up to n, for a set.
LEMMA UpTo ==
  ASSUME NEW n \in Nat, NEW S, 0 \in S, \A i \in 0..(n - 1) : i \in S => i + 1 \in S
  PROVE  \A i \in 0..n : i \in S
  <1> DEFINE Missing == {i \in 0..n : i \notin S}
  <1>1. SUFFICES ASSUME Missing # {} PROVE FALSE
    OBVIOUS
  <1>2. IsWellFoundedOn(Less, Nat)
    BY NatLessThanWellFounded DEF OpToRel, Less
  <1>3. Missing \subseteq Nat
    OBVIOUS
  <1>4. PICK x \in Missing : \A y \in Missing : <<y, x>> \notin Less
    BY <1>1, <1>2, <1>3, WFMin
  <1>5. x # 0 /\ x - 1 \in 0..(n - 1) /\ x = (x - 1) + 1
    BY <1>4
  <1>6. x - 1 \in Missing
    BY <1>4, <1>5
  <1>7. <<x - 1, x>> \in Less
    BY <1>5 DEF Less
  <1> QED BY <1>4, <1>6, <1>7

LEMMA MaxOf ==
  ASSUME NEW n \in Nat, NEW S \in SUBSET (1..n), S # {}
  PROVE  /\ Max(S) \in S /\ \A y \in S : y <= Max(S)
         /\ Max(S) \in 1..n /\ S \ {Max(S)} \in SUBSET (1..n)
  <1>1. S \in SUBSET (0..n)
    OBVIOUS
  <1>2. \E x \in S : \A y \in S : y <= x
    BY <1>1, Largest
  <1>3. \E x \in S : \A y \in S : x >= y
    BY <1>2
  <1>4. Max(S) \in S /\ \A y \in S : Max(S) >= y
    BY <1>3 DEF Max
  <1> HIDE DEF Max
  <1> QED BY <1>4

LEMMA MaxOfFirst ==
  ASSUME NEW n \in Nat, NEW i \in 1..n
  PROVE  /\ Max(1..i) = i /\ (1..i) \ {i} = 1..(i - 1)
         /\ 1..i \in SUBSET (1..n) /\ 1..i # {}
  <1>1. /\ (1..i) \ {i} = 1..(i - 1)
        /\ 1..i \in SUBSET (1..n) /\ 1..i # {} /\ i \in 1..i
    OBVIOUS
  <1>2. Max(1..i) \in 1..i /\ i <= Max(1..i)
    BY <1>1, MaxOf
  <1>3. Max(1..i) = i
    BY <1>2
  <1> QED BY <1>1, <1>3

\* What a fold builds over the indices up to n.
FoldsUp(n, base, next, g) ==
  \A s \in SUBSET (1..n) : g[s] = IF s = {} THEN base ELSE next[<<g[s \ {Max(s)}], Max(s)>>]

LEMMA FoldExists ==
  ASSUME NEW n \in Nat, NEW T, NEW base \in T, NEW next \in [T \X (1..n) -> T]
  PROVE  \E g \in [SUBSET (1..n) -> T] : FoldsUp(n, base, next, g)
  <1> DEFINE S == {m \in 0..n : \E g \in [SUBSET (1..m) -> T] : FoldsUp(m, base, next, g)}
  <1>1. 0 \in S
    <2> DEFINE g == [s \in SUBSET (1..0) |-> base]
    <2>1. g \in [SUBSET (1..0) -> T] /\ FoldsUp(0, base, next, g)
      BY DEF FoldsUp
    <2> HIDE DEF g
    <2>2. \E x \in [SUBSET (1..0) -> T] : FoldsUp(0, base, next, x)
      BY <2>1
    <2>3. 0 \in 0..n
      OBVIOUS
    <2> QED BY <2>2, <2>3, Zenon
  <1>2. ASSUME NEW m \in 0..(n - 1), m \in S
        PROVE  m + 1 \in S
    <2>1. PICK g \in [SUBSET (1..m) -> T] : FoldsUp(m, base, next, g)
      BY <1>2
    <2> DEFINE h == [s \in SUBSET (1..(m + 1)) |->
                       IF m + 1 \in s THEN next[<<g[s \ {m + 1}], m + 1>>] ELSE g[s]]
    <2>2. h \in [SUBSET (1..(m + 1)) -> T]
      <3>1. ASSUME NEW s \in SUBSET (1..(m + 1)), m + 1 \in s
            PROVE  next[<<g[s \ {m + 1}], m + 1>>] \in T
        <4>1. s \ {m + 1} \in SUBSET (1..m) /\ m + 1 \in 1..n
          OBVIOUS
        <4> QED BY <4>1
      <3>2. ASSUME NEW s \in SUBSET (1..(m + 1)), m + 1 \notin s
            PROVE  g[s] \in T
        <4>1. s \in SUBSET (1..m)
          BY <3>2
        <4> QED BY <4>1
      <3> QED BY <3>1, <3>2
    <2>3. ASSUME NEW s \in SUBSET (1..(m + 1)), m + 1 \in s
          PROVE  h[s] = IF s = {} THEN base ELSE next[<<h[s \ {Max(s)}], Max(s)>>]
      <3>1. Max(s) = m + 1
        <4>1. m + 1 \in Nat
          OBVIOUS
        <4>2. Max(s) \in 1..(m + 1) /\ m + 1 <= Max(s)
          BY <2>3, <4>1, MaxOf
        <4> QED BY <4>1, <4>2
      <3>2. s \ {m + 1} \in SUBSET (1..(m + 1)) /\ m + 1 \notin s \ {m + 1}
        OBVIOUS
      <3>3. h[s \ {m + 1}] = g[s \ {m + 1}]
        BY <3>2
      <3>4. h[s] = next[<<g[s \ {m + 1}], m + 1>>]
        BY <2>3
      <3> QED BY <2>3, <3>1, <3>3, <3>4
    <2>4. ASSUME NEW s \in SUBSET (1..(m + 1)), m + 1 \notin s
          PROVE  h[s] = IF s = {} THEN base ELSE next[<<h[s \ {Max(s)}], Max(s)>>]
      <3>1. s \in SUBSET (1..m) /\ h[s] = g[s]
        BY <2>4
      <3>2. g[s] = IF s = {} THEN base ELSE next[<<g[s \ {Max(s)}], Max(s)>>]
        BY <2>1, <3>1 DEF FoldsUp
      <3>3. s \ {Max(s)} \in SUBSET (1..(m + 1)) /\ m + 1 \notin s \ {Max(s)}
        BY <2>4
      <3>4. h[s \ {Max(s)}] = g[s \ {Max(s)}]
        BY <3>3
      <3> QED BY <3>1, <3>2, <3>4
    <2> HIDE DEF h
    <2>5. FoldsUp(m + 1, base, next, h)
      BY <2>3, <2>4 DEF FoldsUp
    <2> QED BY <2>2, <2>5
  <1> HIDE DEF S
  <1>3. n \in S
    BY <1>1, <1>2, UpTo
  <1> QED BY <1>3 DEF S

\* The folds of the model, by name.
SampleAll(base, q) == FoldLeft(SampleFrame, base, q)
AssignAll(base, q) == FoldLeft(AssignTrack, base, q)
FrameAll(base, q) == FoldLeft(TrackFrame, base, q)
WindowAll(base, q) == FoldLeft(TakeWindows, base, q)
SumAll(base, q) == FoldLeft(+, base, q)

SampleClosed(T, n, q) ==
  DOMAIN q = 1..n /\ \A x \in T : \A i \in 1..n : SampleFrame(x, q[i]) \in T
SampleRun(T, base, n, q, h) ==
  /\ h[0] = base /\ h[n] = SampleAll(base, q)
  /\ \A i \in 1..n : h[i] = SampleFrame(h[i - 1], q[i])
  /\ \A i \in 0..n : h[i] \in T

LEMMA SampleFolds ==
  ASSUME NEW T, NEW base \in T, NEW n \in Nat, NEW q, SampleClosed(T, n, q)
  PROVE  \E h : SampleRun(T, base, n, q, h)
  <1>0. DOMAIN q = 1..n /\ \A x \in T : \A i \in 1..n : SampleFrame(x, q[i]) \in T
    BY DEF SampleClosed
  <1> USE <1>0
  <1> DEFINE next == [p \in T \X (1..n) |-> SampleFrame(p[1], q[p[2]])]
             Folds(g) == g = [s \in SUBSET (1..n) |->
               IF s = {} THEN base ELSE SampleFrame(g[s \ {Max(s)}], q[Max(s)])]
             iter == CHOOSE g : Folds(g)
  <1>1. next \in [T \X (1..n) -> T]
    OBVIOUS
  <1>2. PICK g \in [SUBSET (1..n) -> T] : FoldsUp(n, base, next, g)
    <2> HIDE DEF next
    <2> QED BY <1>1, FoldExists
  <1>3. \A s \in SUBSET (1..n) :
          g[s] = IF s = {} THEN base ELSE SampleFrame(g[s \ {Max(s)}], q[Max(s)])
    <2> TAKE s \in SUBSET (1..n)
    <2>1. s # {} => Max(s) \in 1..n /\ s \ {Max(s)} \in SUBSET (1..n)
      BY MaxOf
    <2> QED BY <1>2, <2>1 DEF FoldsUp
  <1>4. Folds(g)
    BY <1>2, <1>3
  <1>5. Folds(iter)
    <2> HIDE DEF Folds
    <2> QED BY <1>4
  <1>6. SampleAll(base, q) = iter[1..n]
    BY DEF SampleAll, FoldLeft, MapThenFoldSet
  <1> HIDE DEF iter, next
  <1>7. \A s \in SUBSET (1..n) :
          iter[s] = IF s = {} THEN base ELSE SampleFrame(iter[s \ {Max(s)}], q[Max(s)])
    BY <1>5
  <1> DEFINE h == [i \in 0..n |-> iter[1..i]]
  <1>8. h[0] = base
    <2>1. 1..0 = {} /\ {} \in SUBSET (1..n) /\ 0 \in 0..n
      OBVIOUS
    <2> QED BY <1>7, <2>1
  <1>9. \A i \in 1..n : h[i] = SampleFrame(h[i - 1], q[i])
    <2> TAKE i \in 1..n
    <2>1. Max(1..i) = i /\ (1..i) \ {i} = 1..(i - 1) /\ 1..i \in SUBSET (1..n) /\ 1..i # {}
      BY MaxOfFirst
    <2>2. iter[1..i] = SampleFrame(iter[1..(i - 1)], q[i])
      BY <1>7, <2>1
    <2>3. i \in 0..n /\ i - 1 \in 0..n
      OBVIOUS
    <2> QED BY <2>2, <2>3
  <1>10. h[n] = SampleAll(base, q)
    <2>1. h[n] = iter[1..n]
      OBVIOUS
    <2> QED BY <1>6, <2>1, Zenon
  <1> HIDE DEF h
  <1>11. \A i \in 0..n : h[i] \in T
    <2> DEFINE S == {i \in 0..n : h[i] \in T}
    <2>1. 0 \in S
      BY <1>8
    <2>2. \A i \in 0..(n - 1) : i \in S => i + 1 \in S
      <3> TAKE i \in 0..(n - 1)
      <3> HAVE i \in S
      <3>1. i + 1 \in 1..n /\ (i + 1) - 1 = i /\ h[i] \in T
        OBVIOUS
      <3>2. h[i + 1] = SampleFrame(h[i], q[i + 1])
        BY <1>9, <3>1
      <3> QED BY <3>1, <3>2
    <2> HIDE DEF S
    <2>3. \A i \in 0..n : i \in S
      BY <2>1, <2>2, UpTo
    <2> QED BY <2>3 DEF S
  <1>12. SampleRun(T, base, n, q, h)
    BY <1>8, <1>9, <1>10, <1>11 DEF SampleRun
  <1> QED BY <1>12

AssignClosed(T, n, q) ==
  DOMAIN q = 1..n /\ \A x \in T : \A i \in 1..n : AssignTrack(x, q[i]) \in T
AssignRun(T, base, n, q, h) ==
  /\ h[0] = base /\ h[n] = AssignAll(base, q)
  /\ \A i \in 1..n : h[i] = AssignTrack(h[i - 1], q[i])
  /\ \A i \in 0..n : h[i] \in T

LEMMA AssignFolds ==
  ASSUME NEW T, NEW base \in T, NEW n \in Nat, NEW q, AssignClosed(T, n, q)
  PROVE  \E h : AssignRun(T, base, n, q, h)
  <1>0. DOMAIN q = 1..n /\ \A x \in T : \A i \in 1..n : AssignTrack(x, q[i]) \in T
    BY DEF AssignClosed
  <1> USE <1>0
  <1> DEFINE next == [p \in T \X (1..n) |-> AssignTrack(p[1], q[p[2]])]
             Folds(g) == g = [s \in SUBSET (1..n) |->
               IF s = {} THEN base ELSE AssignTrack(g[s \ {Max(s)}], q[Max(s)])]
             iter == CHOOSE g : Folds(g)
  <1>1. next \in [T \X (1..n) -> T]
    OBVIOUS
  <1>2. PICK g \in [SUBSET (1..n) -> T] : FoldsUp(n, base, next, g)
    <2> HIDE DEF next
    <2> QED BY <1>1, FoldExists
  <1>3. \A s \in SUBSET (1..n) :
          g[s] = IF s = {} THEN base ELSE AssignTrack(g[s \ {Max(s)}], q[Max(s)])
    <2> TAKE s \in SUBSET (1..n)
    <2>1. s # {} => Max(s) \in 1..n /\ s \ {Max(s)} \in SUBSET (1..n)
      BY MaxOf
    <2> QED BY <1>2, <2>1 DEF FoldsUp
  <1>4. Folds(g)
    BY <1>2, <1>3
  <1>5. Folds(iter)
    <2> HIDE DEF Folds
    <2> QED BY <1>4
  <1>6. AssignAll(base, q) = iter[1..n]
    BY DEF AssignAll, FoldLeft, MapThenFoldSet
  <1> HIDE DEF iter, next
  <1>7. \A s \in SUBSET (1..n) :
          iter[s] = IF s = {} THEN base ELSE AssignTrack(iter[s \ {Max(s)}], q[Max(s)])
    BY <1>5
  <1> DEFINE h == [i \in 0..n |-> iter[1..i]]
  <1>8. h[0] = base
    <2>1. 1..0 = {} /\ {} \in SUBSET (1..n) /\ 0 \in 0..n
      OBVIOUS
    <2> QED BY <1>7, <2>1
  <1>9. \A i \in 1..n : h[i] = AssignTrack(h[i - 1], q[i])
    <2> TAKE i \in 1..n
    <2>1. Max(1..i) = i /\ (1..i) \ {i} = 1..(i - 1) /\ 1..i \in SUBSET (1..n) /\ 1..i # {}
      BY MaxOfFirst
    <2>2. iter[1..i] = AssignTrack(iter[1..(i - 1)], q[i])
      BY <1>7, <2>1
    <2>3. i \in 0..n /\ i - 1 \in 0..n
      OBVIOUS
    <2> QED BY <2>2, <2>3
  <1>10. h[n] = AssignAll(base, q)
    <2>1. h[n] = iter[1..n]
      OBVIOUS
    <2> QED BY <1>6, <2>1, Zenon
  <1> HIDE DEF h
  <1>11. \A i \in 0..n : h[i] \in T
    <2> DEFINE S == {i \in 0..n : h[i] \in T}
    <2>1. 0 \in S
      BY <1>8
    <2>2. \A i \in 0..(n - 1) : i \in S => i + 1 \in S
      <3> TAKE i \in 0..(n - 1)
      <3> HAVE i \in S
      <3>1. i + 1 \in 1..n /\ (i + 1) - 1 = i /\ h[i] \in T
        OBVIOUS
      <3>2. h[i + 1] = AssignTrack(h[i], q[i + 1])
        BY <1>9, <3>1
      <3> QED BY <3>1, <3>2
    <2> HIDE DEF S
    <2>3. \A i \in 0..n : i \in S
      BY <2>1, <2>2, UpTo
    <2> QED BY <2>3 DEF S
  <1>12. AssignRun(T, base, n, q, h)
    BY <1>8, <1>9, <1>10, <1>11 DEF AssignRun
  <1> QED BY <1>12

FrameClosed(T, n, q) ==
  DOMAIN q = 1..n /\ \A x \in T : \A i \in 1..n : TrackFrame(x, q[i]) \in T
FrameRun(T, base, n, q, h) ==
  /\ h[0] = base /\ h[n] = FrameAll(base, q)
  /\ \A i \in 1..n : h[i] = TrackFrame(h[i - 1], q[i])
  /\ \A i \in 0..n : h[i] \in T

LEMMA FrameFolds ==
  ASSUME NEW T, NEW base \in T, NEW n \in Nat, NEW q, FrameClosed(T, n, q)
  PROVE  \E h : FrameRun(T, base, n, q, h)
  <1>0. DOMAIN q = 1..n /\ \A x \in T : \A i \in 1..n : TrackFrame(x, q[i]) \in T
    BY DEF FrameClosed
  <1> USE <1>0
  <1> DEFINE next == [p \in T \X (1..n) |-> TrackFrame(p[1], q[p[2]])]
             Folds(g) == g = [s \in SUBSET (1..n) |->
               IF s = {} THEN base ELSE TrackFrame(g[s \ {Max(s)}], q[Max(s)])]
             iter == CHOOSE g : Folds(g)
  <1>1. next \in [T \X (1..n) -> T]
    OBVIOUS
  <1>2. PICK g \in [SUBSET (1..n) -> T] : FoldsUp(n, base, next, g)
    <2> HIDE DEF next
    <2> QED BY <1>1, FoldExists
  <1>3. \A s \in SUBSET (1..n) :
          g[s] = IF s = {} THEN base ELSE TrackFrame(g[s \ {Max(s)}], q[Max(s)])
    <2> TAKE s \in SUBSET (1..n)
    <2>1. s # {} => Max(s) \in 1..n /\ s \ {Max(s)} \in SUBSET (1..n)
      BY MaxOf
    <2> QED BY <1>2, <2>1 DEF FoldsUp
  <1>4. Folds(g)
    BY <1>2, <1>3
  <1>5. Folds(iter)
    <2> HIDE DEF Folds
    <2> QED BY <1>4
  <1>6. FrameAll(base, q) = iter[1..n]
    BY DEF FrameAll, FoldLeft, MapThenFoldSet
  <1> HIDE DEF iter, next
  <1>7. \A s \in SUBSET (1..n) :
          iter[s] = IF s = {} THEN base ELSE TrackFrame(iter[s \ {Max(s)}], q[Max(s)])
    BY <1>5
  <1> DEFINE h == [i \in 0..n |-> iter[1..i]]
  <1>8. h[0] = base
    <2>1. 1..0 = {} /\ {} \in SUBSET (1..n) /\ 0 \in 0..n
      OBVIOUS
    <2> QED BY <1>7, <2>1
  <1>9. \A i \in 1..n : h[i] = TrackFrame(h[i - 1], q[i])
    <2> TAKE i \in 1..n
    <2>1. Max(1..i) = i /\ (1..i) \ {i} = 1..(i - 1) /\ 1..i \in SUBSET (1..n) /\ 1..i # {}
      BY MaxOfFirst
    <2>2. iter[1..i] = TrackFrame(iter[1..(i - 1)], q[i])
      BY <1>7, <2>1
    <2>3. i \in 0..n /\ i - 1 \in 0..n
      OBVIOUS
    <2> QED BY <2>2, <2>3
  <1>10. h[n] = FrameAll(base, q)
    <2>1. h[n] = iter[1..n]
      OBVIOUS
    <2> QED BY <1>6, <2>1, Zenon
  <1> HIDE DEF h
  <1>11. \A i \in 0..n : h[i] \in T
    <2> DEFINE S == {i \in 0..n : h[i] \in T}
    <2>1. 0 \in S
      BY <1>8
    <2>2. \A i \in 0..(n - 1) : i \in S => i + 1 \in S
      <3> TAKE i \in 0..(n - 1)
      <3> HAVE i \in S
      <3>1. i + 1 \in 1..n /\ (i + 1) - 1 = i /\ h[i] \in T
        OBVIOUS
      <3>2. h[i + 1] = TrackFrame(h[i], q[i + 1])
        BY <1>9, <3>1
      <3> QED BY <3>1, <3>2
    <2> HIDE DEF S
    <2>3. \A i \in 0..n : i \in S
      BY <2>1, <2>2, UpTo
    <2> QED BY <2>3 DEF S
  <1>12. FrameRun(T, base, n, q, h)
    BY <1>8, <1>9, <1>10, <1>11 DEF FrameRun
  <1> QED BY <1>12

WindowClosed(T, n, q) ==
  DOMAIN q = 1..n /\ \A x \in T : \A i \in 1..n : TakeWindows(x, q[i]) \in T
WindowRun(T, base, n, q, h) ==
  /\ h[0] = base /\ h[n] = WindowAll(base, q)
  /\ \A i \in 1..n : h[i] = TakeWindows(h[i - 1], q[i])
  /\ \A i \in 0..n : h[i] \in T

LEMMA WindowFolds ==
  ASSUME NEW T, NEW base \in T, NEW n \in Nat, NEW q, WindowClosed(T, n, q)
  PROVE  \E h : WindowRun(T, base, n, q, h)
  <1>0. DOMAIN q = 1..n /\ \A x \in T : \A i \in 1..n : TakeWindows(x, q[i]) \in T
    BY DEF WindowClosed
  <1> USE <1>0
  <1> DEFINE next == [p \in T \X (1..n) |-> TakeWindows(p[1], q[p[2]])]
             Folds(g) == g = [s \in SUBSET (1..n) |->
               IF s = {} THEN base ELSE TakeWindows(g[s \ {Max(s)}], q[Max(s)])]
             iter == CHOOSE g : Folds(g)
  <1>1. next \in [T \X (1..n) -> T]
    OBVIOUS
  <1>2. PICK g \in [SUBSET (1..n) -> T] : FoldsUp(n, base, next, g)
    <2> HIDE DEF next
    <2> QED BY <1>1, FoldExists
  <1>3. \A s \in SUBSET (1..n) :
          g[s] = IF s = {} THEN base ELSE TakeWindows(g[s \ {Max(s)}], q[Max(s)])
    <2> TAKE s \in SUBSET (1..n)
    <2>1. s # {} => Max(s) \in 1..n /\ s \ {Max(s)} \in SUBSET (1..n)
      BY MaxOf
    <2> QED BY <1>2, <2>1 DEF FoldsUp
  <1>4. Folds(g)
    BY <1>2, <1>3
  <1>5. Folds(iter)
    <2> HIDE DEF Folds
    <2> QED BY <1>4
  <1>6. WindowAll(base, q) = iter[1..n]
    BY DEF WindowAll, FoldLeft, MapThenFoldSet
  <1> HIDE DEF iter, next
  <1>7. \A s \in SUBSET (1..n) :
          iter[s] = IF s = {} THEN base ELSE TakeWindows(iter[s \ {Max(s)}], q[Max(s)])
    BY <1>5
  <1> DEFINE h == [i \in 0..n |-> iter[1..i]]
  <1>8. h[0] = base
    <2>1. 1..0 = {} /\ {} \in SUBSET (1..n) /\ 0 \in 0..n
      OBVIOUS
    <2> QED BY <1>7, <2>1
  <1>9. \A i \in 1..n : h[i] = TakeWindows(h[i - 1], q[i])
    <2> TAKE i \in 1..n
    <2>1. Max(1..i) = i /\ (1..i) \ {i} = 1..(i - 1) /\ 1..i \in SUBSET (1..n) /\ 1..i # {}
      BY MaxOfFirst
    <2>2. iter[1..i] = TakeWindows(iter[1..(i - 1)], q[i])
      BY <1>7, <2>1
    <2>3. i \in 0..n /\ i - 1 \in 0..n
      OBVIOUS
    <2> QED BY <2>2, <2>3
  <1>10. h[n] = WindowAll(base, q)
    <2>1. h[n] = iter[1..n]
      OBVIOUS
    <2> QED BY <1>6, <2>1, Zenon
  <1> HIDE DEF h
  <1>11. \A i \in 0..n : h[i] \in T
    <2> DEFINE S == {i \in 0..n : h[i] \in T}
    <2>1. 0 \in S
      BY <1>8
    <2>2. \A i \in 0..(n - 1) : i \in S => i + 1 \in S
      <3> TAKE i \in 0..(n - 1)
      <3> HAVE i \in S
      <3>1. i + 1 \in 1..n /\ (i + 1) - 1 = i /\ h[i] \in T
        OBVIOUS
      <3>2. h[i + 1] = TakeWindows(h[i], q[i + 1])
        BY <1>9, <3>1
      <3> QED BY <3>1, <3>2
    <2> HIDE DEF S
    <2>3. \A i \in 0..n : i \in S
      BY <2>1, <2>2, UpTo
    <2> QED BY <2>3 DEF S
  <1>12. WindowRun(T, base, n, q, h)
    BY <1>8, <1>9, <1>10, <1>11 DEF WindowRun
  <1> QED BY <1>12

SumClosed(T, n, q) ==
  DOMAIN q = 1..n /\ \A x \in T : \A i \in 1..n : x + q[i] \in T
SumRun(T, base, n, q, h) ==
  /\ h[0] = base /\ h[n] = SumAll(base, q)
  /\ \A i \in 1..n : h[i] = h[i - 1] + q[i]
  /\ \A i \in 0..n : h[i] \in T

LEMMA SumFolds ==
  ASSUME NEW T, NEW base \in T, NEW n \in Nat, NEW q, SumClosed(T, n, q)
  PROVE  \E h : SumRun(T, base, n, q, h)
  <1>0. DOMAIN q = 1..n /\ \A x \in T : \A i \in 1..n : x + q[i] \in T
    BY DEF SumClosed
  <1> USE <1>0
  <1> DEFINE next == [p \in T \X (1..n) |-> p[1] + q[p[2]]]
             Folds(g) == g = [s \in SUBSET (1..n) |->
               IF s = {} THEN base ELSE g[s \ {Max(s)}] + q[Max(s)]]
             iter == CHOOSE g : Folds(g)
  <1>1. next \in [T \X (1..n) -> T]
    OBVIOUS
  <1>2. PICK g \in [SUBSET (1..n) -> T] : FoldsUp(n, base, next, g)
    <2> HIDE DEF next
    <2> QED BY <1>1, FoldExists
  <1>3. \A s \in SUBSET (1..n) :
          g[s] = IF s = {} THEN base ELSE g[s \ {Max(s)}] + q[Max(s)]
    <2> TAKE s \in SUBSET (1..n)
    <2>1. s # {} => Max(s) \in 1..n /\ s \ {Max(s)} \in SUBSET (1..n)
      BY MaxOf
    <2> QED BY <1>2, <2>1 DEF FoldsUp
  <1>4. Folds(g)
    BY <1>2, <1>3
  <1>5. Folds(iter)
    <2> HIDE DEF Folds
    <2> QED BY <1>4
  <1>6. SumAll(base, q) = iter[1..n]
    BY DEF SumAll, FoldLeft, MapThenFoldSet
  <1> HIDE DEF iter, next
  <1>7. \A s \in SUBSET (1..n) :
          iter[s] = IF s = {} THEN base ELSE iter[s \ {Max(s)}] + q[Max(s)]
    BY <1>5
  <1> DEFINE h == [i \in 0..n |-> iter[1..i]]
  <1>8. h[0] = base
    <2>1. 1..0 = {} /\ {} \in SUBSET (1..n) /\ 0 \in 0..n
      OBVIOUS
    <2> QED BY <1>7, <2>1
  <1>9. \A i \in 1..n : h[i] = h[i - 1] + q[i]
    <2> TAKE i \in 1..n
    <2>1. Max(1..i) = i /\ (1..i) \ {i} = 1..(i - 1) /\ 1..i \in SUBSET (1..n) /\ 1..i # {}
      BY MaxOfFirst
    <2>2. iter[1..i] = iter[1..(i - 1)] + q[i]
      BY <1>7, <2>1
    <2>3. i \in 0..n /\ i - 1 \in 0..n
      OBVIOUS
    <2> QED BY <2>2, <2>3
  <1>10. h[n] = SumAll(base, q)
    <2>1. h[n] = iter[1..n]
      OBVIOUS
    <2> QED BY <1>6, <2>1, Zenon
  <1> HIDE DEF h
  <1>11. \A i \in 0..n : h[i] \in T
    <2> DEFINE S == {i \in 0..n : h[i] \in T}
    <2>1. 0 \in S
      BY <1>8
    <2>2. \A i \in 0..(n - 1) : i \in S => i + 1 \in S
      <3> TAKE i \in 0..(n - 1)
      <3> HAVE i \in S
      <3>1. i + 1 \in 1..n /\ (i + 1) - 1 = i /\ h[i] \in T
        OBVIOUS
      <3>2. h[i + 1] = h[i] + q[i + 1]
        BY <1>9, <3>1
      <3> QED BY <3>1, <3>2
    <2> HIDE DEF S
    <2>3. \A i \in 0..n : i \in S
      BY <2>1, <2>2, UpTo
    <2> QED BY <2>3 DEF S
  <1>12. SumRun(T, base, n, q, h)
    BY <1>8, <1>9, <1>10, <1>11 DEF SumRun
  <1> QED BY <1>12

---------------------------------------------------------------------------
(* What a batch is, before it is stored and as the rows of its run.        *)

Tracking == {"faces", "voices", "ocr"}

MembersIn(lnk, key) == {l[2] : l \in {l \in lnk : l[1] = key}}

FaceTrackHolds(t, members) ==
  /\ \A o, p \in members : o.at = p.at => o = p
  /\ \A o \in members :
       \/ o.at = t.end
       \/ \E p \in members : p.at > o.at /\ p.at - o.at <= MaxGap
  /\ t.start = Min({o.at : o \in members}) /\ t.end = Max({o.at : o \in members})
  /\ \E o \in members : o.face = t.face /\ \A p \in members : p.score <= o.score

VoicesHold(obs, trk, lnk) ==
  /\ \A o, p \in obs : o.key < p.key => o.end <= p.start
  /\ \A o \in obs : o.start < o.end
  /\ \A t \in trk : MembersIn(lnk, t.key) = {o.key : o \in {o \in obs : o.speaker = t.key}}

BatchHolds(detector, obs, trk, lnk) ==
  /\ \A l \in lnk : /\ l = <<l[1], l[2]>>
                    /\ (\E o \in obs : o.key = l[2]) /\ \E t \in trk : t.key = l[1]
  /\ \A t \in trk : /\ IsFiniteSet(MembersIn(lnk, t.key))
                    /\ Cardinality(MembersIn(lnk, t.key)) = t.count /\ t.count > 0
  /\ detector \in {"faces", "voices"} =>
       \A o \in obs : \E k : {l \in lnk : l[2] = o.key} = {<<k, o.key>>}
  /\ detector = "faces" =>
       \A t \in trk : FaceTrackHolds(t, {o \in obs : o.key \in MembersIn(lnk, t.key)})
  /\ detector = "voices" => VoicesHold(obs, trk, lnk)

SceneLinksHold(batch, known) ==
  \A l \in batch.sceneLinks : l[2] \in known /\ \E t \in batch.tracks : t.key = l[1]

LEMMA TextBatchHolds ==
  ASSUME NEW f, IsTextFootage(f), NEW known, TextBatch(f, known).valid
  PROVE  LET b == TextBatch(f, known)
         IN BatchHolds("ocr", b.observations, b.tracks, b.links) /\ SceneLinksHold(b, known)
  <1> DEFINE obs == TextObservations(f)
             trk == TextTracks(f)
             lnk == TextLinks(f)
             slk == TextSceneLinks(f, known)
             b == TextBatch(f, known)
  <1>1. b.observations = obs /\ b.tracks = trk /\ b.links = lnk /\ b.sceneLinks = slk
    BY DEF TextBatch
  <1>2. \A t \in Range(f.tracks) :
          /\ t.members \subseteq {o.key : o \in obs} /\ t.samples > 0
          /\ Cardinality(t.members) = t.samples
    BY DEF TextBatch
  <1>3. \A s, t \in Range(f.tracks) : s.key = t.key => s = t
    BY DEF IsTextFootage, Range
  <1>4. \A o \in obs : o.key \in DOMAIN f.observations
    BY DEF TextObservations
  <1>5. \A l : l \in lnk <=> \E t \in Range(f.tracks) : \E i \in t.members : l = <<t.key, i>>
    BY DEF TextLinks
  <1>6. ASSUME NEW t \in Range(f.tracks)
        PROVE  /\ MembersIn(lnk, t.key) = t.members /\ IsFiniteSet(t.members)
               /\ \E r \in trk : r.key = t.key /\ r.count = t.samples
    <2>1. \A i \in t.members : i \in MembersIn(lnk, t.key)
      <3> TAKE i \in t.members
      <3> DEFINE l == <<t.key, i>>
      <3>1. l \in lnk /\ l[1] = t.key /\ l[2] = i
        BY <1>5
      <3> HIDE DEF l, lnk
      <3> QED BY <3>1 DEF MembersIn
    <2>2. \A i \in MembersIn(lnk, t.key) : i \in t.members
      <3> TAKE i \in MembersIn(lnk, t.key)
      <3>1. PICK l \in lnk : l[1] = t.key /\ l[2] = i
        BY DEF MembersIn
      <3>2. PICK s \in Range(f.tracks) : \E k \in s.members : l = <<s.key, k>>
        BY <1>5, <3>1
      <3> QED BY <1>3, <3>1, <3>2
    <2>3. IsFiniteSet(t.members)
      <3>1. t.members \subseteq 1..Len(f.observations) /\ Len(f.observations) \in Nat
        BY <1>2, <1>4 DEF IsTextFootage
      <3>2. IsFiniteSet(1..Len(f.observations))
        BY <3>1, FS_Interval
      <3> HIDE DEF obs
      <3>3. t.members \in SUBSET (1..Len(f.observations))
        BY <3>1
      <3> QED BY <3>2, <3>3, FS_Subset, Zenon
    <2>4. \E r \in trk : r.key = t.key /\ r.count = t.samples
      <3> DEFINE r == [key |-> t.key, count |-> t.samples]
      <3>1. r \in trk /\ r.key = t.key /\ r.count = t.samples
        BY DEF TextTracks
      <3> HIDE DEF r, trk
      <3> QED BY <3>1
    <2> QED BY <2>1, <2>2, <2>3, <2>4
  <1>7. \A r \in trk : \E t \in Range(f.tracks) : r.key = t.key /\ r.count = t.samples
    BY DEF TextTracks
  <1>8. \A l \in slk : l[2] \in known /\ \E r \in trk : r.key = l[1]
    <2> TAKE l \in slk
    <2>1. PICK t \in Range(f.tracks), s \in known : l = <<t.key, s>>
      BY DEF TextSceneLinks
    <2> QED BY <1>6, <2>1
  <1>9. ASSUME NEW l \in lnk
        PROVE  /\ l = <<l[1], l[2]>>
               /\ (\E o \in obs : o.key = l[2]) /\ \E r \in trk : r.key = l[1]
    <2>1. PICK t \in Range(f.tracks) : \E i \in t.members : l = <<t.key, i>>
      BY <1>5
    <2> QED BY <1>2, <1>6, <2>1
  <1> HIDE DEF obs, trk, lnk, slk, b
  <1>10. BatchHolds("ocr", obs, trk, lnk)
    BY <1>2, <1>6, <1>7, <1>9 DEF BatchHolds
  <1> QED BY <1>1, <1>8, <1>10 DEF SceneLinksHold, b

---------------------------------------------------------------------------
(* Face tracks.                                                            *)

Detection == [face : DOMAIN Similarity, score : Nat, inside : BOOLEAN]
Frame == [at : Nat, faces : Seq(Detection)]
Keys == Nat \X Nat
Sighting == [at : Nat, key : Keys, face : DOMAIN Similarity, score : Nat, inside : BOOLEAN]
OpenTrack == [key : Keys, start : Nat, end : Nat, score : Nat, face : DOMAIN Similarity,
              members : SUBSET Keys]
TrackState == [seen : Seq(Sighting), tracks : Seq(OpenTrack), used : SUBSET Nat]

\* Of finitely many numbered values one is the largest, and the first of the largest.
LEMMA BestExists ==
  ASSUME NEW n \in Nat, NEW F \in [1..n -> Int], NEW C \in SUBSET (1..n), C # {}
  PROVE  \E t \in C : \A u \in C : F[t] > F[u] \/ (F[t] = F[u] /\ t <= u)
  <1> DEFINE Best(C0, t) == \A u \in C0 : F[t] > F[u] \/ (F[t] = F[u] /\ t <= u)
             S == {m \in 0..n : \A C0 \in SUBSET (1..m) : C0 # {} => \E t \in C0 : Best(C0, t)}
  <1>1. 0 \in S
    <2>1. 1..0 = {} /\ 0 \in 0..n
      OBVIOUS
    <2> QED BY <2>1
  <1>2. ASSUME NEW m \in 0..(n - 1), m \in S
        PROVE  m + 1 \in S
    <2>1. ASSUME NEW C0 \in SUBSET (1..(m + 1)), C0 # {}
          PROVE  \E t \in C0 : Best(C0, t)
      <3> DEFINE B == C0 \ {m + 1}
      <3>1. B \in SUBSET (1..m)
        OBVIOUS
      <3>2. CASE B = {}
        <4>1. C0 = {m + 1}
          BY <2>1, <3>2
        <4>2. Best(C0, m + 1)
          BY <4>1
        <4> QED BY <4>1, <4>2
      <3>3. CASE B # {}
        <4>1. PICK t \in B : Best(B, t)
          BY <1>2, <3>1, <3>3
        <4>2. /\ \A u \in C0 : u \in B \/ u = m + 1
              /\ \A u \in C0 : F[u] \in Int /\ u \in Int
              /\ t \in C0 /\ t < m + 1 /\ F[t] \in Int
          BY <3>1, <4>1
        <4>3. CASE m + 1 \in C0 /\ F[m + 1] > F[t]
          <5>1. Best(C0, m + 1)
            BY <4>1, <4>2, <4>3
          <5> QED BY <4>3, <5>1
        <4>4. CASE ~(m + 1 \in C0 /\ F[m + 1] > F[t])
          <5>1. Best(C0, t)
            BY <4>1, <4>2, <4>4
          <5> QED BY <4>2, <5>1
        <4> QED BY <4>3, <4>4
      <3> QED BY <3>2, <3>3
    <2>2. m + 1 \in 0..n
      OBVIOUS
    <2> HIDE DEF Best
    <2> QED BY <2>1, <2>2
  <1> HIDE DEF S
  <1>3. \A i \in 0..n : i \in S
    <2> HIDE DEF Best
    <2> QED BY <1>1, <1>2, UpTo
  <1>4. n \in S
    BY <1>3
  <1> QED BY <1>4 DEF S

LEMMA BestIsClose ==
  ASSUME NEW all \in Seq(OpenTrack), NEW C \in SUBSET (DOMAIN all), C # {}, NEW o \in Sighting
  PROVE  BestTrack(all, C, o) \in C
  <1> DEFINE F == [t \in 1..Len(all) |-> Similarity[all[t].face][o.face]]
  <1>1. \A t \in 1..Len(all) : Similarity[all[t].face][o.face] \in Int
    <2> TAKE t \in 1..Len(all)
    <2>1. all[t] \in OpenTrack
      OBVIOUS
    <2>2. all[t].face \in DOMAIN Similarity /\ o.face \in DOMAIN Similarity
      BY <2>1 DEF OpenTrack, Sighting
    <2>3. Similarity[all[t].face] \in [DOMAIN Similarity -> Int]
      BY <2>2, ConfigurationAssumption
    <2> QED BY <2>2, <2>3
  <1>2. F \in [1..Len(all) -> Int] /\ Len(all) \in Nat /\ C \in SUBSET (1..Len(all))
    BY <1>1
  <1> HIDE DEF F
  <1>3. \E t \in C : \A u \in C : F[t] > F[u] \/ (F[t] = F[u] /\ t <= u)
    BY <1>2, BestExists
  <1>4. \A t \in C : F[t] = Similarity[all[t].face][o.face]
    BY <1>2 DEF F
  <1>5. \E t \in C : \A u \in C :
          \/ Similarity[all[t].face][o.face] > Similarity[all[u].face][o.face]
          \/ Similarity[all[t].face][o.face] = Similarity[all[u].face][o.face] /\ t <= u
    BY <1>3, <1>4
  <1> QED BY <1>5 DEF BestTrack

\* The track a sighting opens, and a track it joins.
Opened(o) ==
  [key |-> o.key, start |-> o.at, end |-> o.at, score |-> o.score, face |-> o.face,
   members |-> {o.key}]
Joined(t, o) ==
  LET better == o.score > t.score IN
  [t EXCEPT !.end = o.at, !.score = IF better THEN o.score ELSE @,
            !.face = IF better THEN o.face ELSE @, !.members = @ \cup {o.key}]

LEMMA OpenedFields ==
  ASSUME NEW o \in Sighting
  PROVE  /\ Opened(o) \in OpenTrack
         /\ Opened(o).key = o.key /\ Opened(o).start = o.at /\ Opened(o).end = o.at
         /\ Opened(o).score = o.score /\ Opened(o).face = o.face /\ Opened(o).members = {o.key}
  BY DEF Opened, OpenTrack, Sighting

LEMMA JoinedFields ==
  ASSUME NEW t \in OpenTrack, NEW o \in Sighting, NEW q, q = Joined(t, o)
  PROVE  /\ q \in OpenTrack
         /\ q.key = t.key /\ q.start = t.start /\ q.end = o.at
         /\ q.members = t.members \cup {o.key}
         /\ \/ o.score > t.score /\ q.score = o.score /\ q.face = o.face
            \/ ~(o.score > t.score) /\ q.score = t.score /\ q.face = t.face
  <1>1. CASE o.score > t.score
    BY <1>1 DEF Joined, OpenTrack, Sighting
  <1>2. CASE ~(o.score > t.score)
    BY <1>2 DEF Joined, OpenTrack, Sighting
  <1> QED BY <1>1, <1>2

LEMMA JoinedMembers ==
  ASSUME NEW t \in OpenTrack, NEW o \in Sighting
  PROVE  Joined(t, o).members = t.members \cup {o.key} /\ Joined(t, o).end = o.at
  BY JoinedFields

\* assign_track, by its two outcomes.
LEMMA Assigning ==
  ASSUME NEW x \in TrackState, NEW o \in Sighting, NEW q, q = AssignTrack(x, o)
  PROVE  /\ q.seen = Append(x.seen, o)
         /\ \/ q.tracks = Append(x.tracks, Opened(o)) /\ q.used = x.used \cup {Len(x.tracks) + 1}
            \/ \E t \in DOMAIN x.tracks :
                 /\ t \notin x.used /\ o.at - x.tracks[t].end <= MaxGap
                 /\ q.tracks = [x.tracks EXCEPT ![t] = Joined(x.tracks[t], o)]
                 /\ q.used = x.used \cup {t}
         /\ q \in TrackState
  <1> DEFINE close == Close(x.tracks, x.used, o)
             t == BestTrack(x.tracks, close, o)
  <1>0. x.seen \in Seq(Sighting) /\ x.tracks \in Seq(OpenTrack) /\ x.used \in SUBSET Nat
    BY DEF TrackState
  <1>1. CASE close = {}
    <2>1. q = [seen |-> Append(x.seen, o), tracks |-> Append(x.tracks, Opened(o)),
               used |-> x.used \cup {Len(x.tracks) + 1}]
      BY <1>1 DEF AssignTrack, Opened
    <2>2. /\ Append(x.seen, o) \in Seq(Sighting)
          /\ Append(x.tracks, Opened(o)) \in Seq(OpenTrack)
          /\ x.used \cup {Len(x.tracks) + 1} \in SUBSET Nat
      BY <1>0, OpenedFields
    <2> QED BY <2>1, <2>2 DEF TrackState
  <1>2. CASE close # {}
    <2>1. t \in close
      <3>1. close \in SUBSET (DOMAIN x.tracks)
        BY DEF Close, FreeTracks
      <3> HIDE DEF close
      <3> QED BY <1>0, <1>2, <3>1, BestIsClose
    <2>2. q = [seen |-> Append(x.seen, o),
               tracks |-> [x.tracks EXCEPT ![t] = Joined(x.tracks[t], o)],
               used |-> x.used \cup {t}]
      BY <1>2 DEF AssignTrack, Joined
    <2>3. t \in DOMAIN x.tracks /\ t \notin x.used /\ o.at - x.tracks[t].end <= MaxGap
      BY <2>1 DEF Close, FreeTracks
    <2> HIDE DEF t, close
    <2>4. Joined(x.tracks[t], o) \in OpenTrack
      BY <1>0, <2>3, JoinedFields
    <2>5. /\ Append(x.seen, o) \in Seq(Sighting)
          /\ [x.tracks EXCEPT ![t] = Joined(x.tracks[t], o)] \in Seq(OpenTrack)
          /\ x.used \cup {t} \in SUBSET Nat
      BY <1>0, <2>3, <2>4
    <2>6. /\ q.seen = Append(x.seen, o) /\ q.used = x.used \cup {t}
          /\ q.tracks = [x.tracks EXCEPT ![t] = Joined(x.tracks[t], o)]
      BY <2>2
    <2>7. q \in TrackState
      BY <2>2, <2>5 DEF TrackState
    <2> QED BY <2>3, <2>6, <2>7
  <1> QED BY <1>1, <1>2

\* The sightings among S that a track has.
In(t, S) == {o \in S : o.key \in t.members}

\* What a track is of the sightings S.
TrackGood(t, S) ==
  /\ t.key \in t.members /\ IsFiniteSet(t.members)
  /\ \A m \in t.members : \E o \in S : o.key = m
  /\ \A o, p \in In(t, S) : o.at = p.at => o = p
  /\ \A o \in In(t, S) : o.at = t.end \/ \E p \in In(t, S) : p.at > o.at /\ p.at - o.at <= MaxGap
  /\ \A o \in In(t, S) : t.start <= o.at /\ o.at <= t.end /\ o.score <= t.score
  /\ \E o \in In(t, S) : o.at = t.start
  /\ \E o \in In(t, S) : o.at = t.end
  /\ \E o \in In(t, S) : o.face = t.face /\ o.score = t.score

NewKey(S, o) == S \subseteq Sighting /\ o \in Sighting /\ \A p \in S : p.key # o.key

LEMMA OpenedGood ==
  ASSUME NEW S, NEW o, NewKey(S, o)
  PROVE  TrackGood(Opened(o), S \cup {o})
  <1>1. In(Opened(o), S \cup {o}) = {o}
    BY OpenedFields DEF In, NewKey
  <1>2. o \in Sighting /\ o.at \in Nat /\ o.score \in Nat
    BY DEF NewKey, Sighting
  <1>3. IsFiniteSet({o.key})
    BY FS_Singleton
  <1> DEFINE t == Opened(o)
  <1>4. t.key = o.key /\ t.start = o.at /\ t.end = o.at
        /\ t.score = o.score /\ t.face = o.face /\ t.members = {o.key}
    BY <1>2, OpenedFields
  <1>5. In(t, S \cup {o}) = {o}
    BY <1>1
  <1> HIDE DEF t
  <1>6. TrackGood(t, S \cup {o})
    <2> DEFINE U == S \cup {o}
    <2>1. o \in In(t, U) /\ \A p \in In(t, U) : p = o
      BY <1>5
    <2>2. o \in U
      OBVIOUS
    <2> HIDE DEF U
    <2>3. t.key \in t.members /\ IsFiniteSet(t.members)
          /\ \A m \in t.members : \E p \in U : p.key = m
      BY <1>3, <1>4, <2>2
    <2>4. \A p \in In(t, U) : /\ p.at = t.end /\ t.start <= p.at /\ p.at <= t.end
                              /\ p.score <= t.score
      BY <1>2, <1>4, <2>1
    <2>5. o.at = t.start /\ o.at = t.end /\ o.face = t.face /\ o.score = t.score
      BY <1>4
    <2>6. TrackGood(t, U)
      BY <2>1, <2>3, <2>4, <2>5 DEF TrackGood
    <2> QED BY <2>6 DEF U
  <1> QED BY <1>6 DEF t

LEMMA OthersGood ==
  ASSUME NEW S, NEW o, NewKey(S, o), NEW t, TrackGood(t, S)
  PROVE  TrackGood(t, S \cup {o}) /\ o.key \notin t.members
  <1>1. o.key \notin t.members
    BY DEF TrackGood, NewKey
  <1>2. In(t, S \cup {o}) = In(t, S)
    BY <1>1 DEF In
  <1>3. \A m \in t.members : \E p \in S \cup {o} : p.key = m
    BY DEF TrackGood
  <1> QED BY <1>1, <1>2, <1>3 DEF TrackGood

LEMMA JoinedGood ==
  ASSUME NEW S, NEW o, NewKey(S, o), NEW t \in OpenTrack, TrackGood(t, S),
         t.end < o.at, o.at - t.end <= MaxGap
  PROVE  TrackGood(Joined(t, o), S \cup {o})
  <1> DEFINE q == Joined(t, o)
             M == In(t, S)
             N == In(q, S \cup {o})
  <1>1. /\ o \in Sighting /\ o.at \in Nat /\ o.score \in Nat
        /\ t.start \in Nat /\ t.end \in Nat /\ t.score \in Nat
    BY DEF NewKey, Sighting, OpenTrack
  <1>2. /\ q.key = t.key /\ q.start = t.start /\ q.end = o.at
        /\ q.members = t.members \cup {o.key}
        /\ \/ o.score > t.score /\ q.score = o.score /\ q.face = o.face
           \/ ~(o.score > t.score) /\ q.score = t.score /\ q.face = t.face
    BY <1>1, JoinedFields
  <1> HIDE DEF q
  <1>3. N = M \cup {o}
    BY <1>2 DEF In, NewKey
  <1>4. \A p \in M : p.at \in Nat /\ p.score \in Nat
    BY DEF In, NewKey, Sighting
  <1> HIDE DEF M, N
  <1>5. /\ \A p, r \in M : p.at = r.at => p = r
        /\ \A p \in M : p.at = t.end \/ \E r \in M : r.at > p.at /\ r.at - p.at <= MaxGap
        /\ \A p \in M : t.start <= p.at /\ p.at <= t.end /\ p.score <= t.score
        /\ \E p \in M : p.at = t.start
        /\ \E p \in M : p.face = t.face /\ p.score = t.score
    BY DEF TrackGood, M
  <1>6. \A p, r \in N : p.at = r.at => p = r
    BY <1>1, <1>3, <1>4, <1>5
  <1>7. \A p \in N : p.at = q.end \/ \E r \in N : r.at > p.at /\ r.at - p.at <= MaxGap
    BY <1>1, <1>2, <1>3, <1>4, <1>5
  <1>8. \A p \in N : q.start <= p.at /\ p.at <= q.end /\ p.score <= q.score
    <2>1. t.start <= o.at
      BY <1>1, <1>4, <1>5
    <2> QED BY <1>1, <1>2, <1>3, <1>4, <1>5, <2>1
  <1>9. /\ \E p \in N : p.at = q.start
        /\ \E p \in N : p.at = q.end
        /\ \E p \in N : p.face = q.face /\ p.score = q.score
    BY <1>2, <1>3, <1>5
  <1>10. q.key \in q.members /\ IsFiniteSet(q.members)
    <2>1. t.key \in t.members /\ IsFiniteSet(t.members)
      BY DEF TrackGood
    <2> QED BY <1>2, <2>1, FS_AddElement
  <1>11. \A m \in q.members : \E p \in S \cup {o} : p.key = m
    BY <1>2 DEF TrackGood
  <1> QED BY <1>6, <1>7, <1>8, <1>9, <1>10, <1>11 DEF TrackGood, N, q

\* The tracker's state at a time of the film, after k faces of the frame.
Tracked(x, at, k) ==
  /\ x \in TrackState /\ at \in Nat /\ k \in Nat
  /\ \A o \in Range(x.seen) : o.at <= at /\ (o.at = at => o.key \in {<<at, i>> : i \in 1..k})
  /\ \A o \in Range(x.seen) : o.key[1] = o.at
  /\ \A o, p \in Range(x.seen) : o.key = p.key => o = p
  /\ \A t \in DOMAIN x.tracks : TrackGood(x.tracks[t], Range(x.seen))
  /\ \A o \in Range(x.seen) : \E t \in DOMAIN x.tracks : o.key \in x.tracks[t].members
  /\ \A t, u \in DOMAIN x.tracks : t # u => x.tracks[t].members \cap x.tracks[u].members = {}
  /\ \A t \in DOMAIN x.tracks :
       x.tracks[t].end <= at /\ (x.tracks[t].end = at => t \in x.used)

LEMMA SeenGrows ==
  ASSUME NEW A, NEW s \in Seq(A), NEW o \in A
  PROVE  /\ Range(Append(s, o)) = Range(s) \cup {o} /\ Range(s) \subseteq A
  <1>1. /\ \A i \in DOMAIN s : i \in DOMAIN Append(s, o) /\ Append(s, o)[i] = s[i]
        /\ \A i \in DOMAIN Append(s, o) : i \in DOMAIN s \/ i = Len(s) + 1
        /\ Len(s) + 1 \in DOMAIN Append(s, o) /\ Append(s, o)[Len(s) + 1] = o
    OBVIOUS
  <1> QED BY <1>1 DEF Range

LEMMA AssignStep ==
  ASSUME NEW x, NEW at, NEW k, Tracked(x, at, k), NEW o \in Sighting,
         o.at = at, o.key = <<at, k + 1>>
  PROVE  Tracked(AssignTrack(x, o), at, k + 1)
  <1> DEFINE q == AssignTrack(x, o)
             S == Range(x.seen)
  <1>1. /\ q.seen = Append(x.seen, o)
        /\ \/ q.tracks = Append(x.tracks, Opened(o)) /\ q.used = x.used \cup {Len(x.tracks) + 1}
           \/ \E t \in DOMAIN x.tracks :
                /\ t \notin x.used /\ o.at - x.tracks[t].end <= MaxGap
                /\ q.tracks = [x.tracks EXCEPT ![t] = Joined(x.tracks[t], o)]
                /\ q.used = x.used \cup {t}
        /\ q \in TrackState
    BY Assigning DEF Tracked
  <1> HIDE DEF q
  <1>2. x.seen \in Seq(Sighting) /\ x.tracks \in Seq(OpenTrack) /\ at \in Nat /\ k \in Nat
    BY DEF Tracked, TrackState
  <1>3. Range(q.seen) = S \cup {o} /\ S \subseteq Sighting
    BY <1>1, <1>2, SeenGrows
  <1>4. \A p \in S : p.key # o.key
    <2> TAKE p \in S
    <2>1. p.key[1] = p.at
      BY DEF Tracked
    <2>2. CASE p.at = at
      <3>1. PICK i \in 1..k : p.key = <<at, i>>
        BY <2>2 DEF Tracked
      <3> QED BY <1>2, <3>1
    <2>3. CASE p.at # at
      BY <2>1, <2>3
    <2> QED BY <2>2, <2>3
  <1>5. NewKey(S, o)
    BY <1>3, <1>4 DEF NewKey
  <1>6. \A t \in DOMAIN x.tracks :
          TrackGood(x.tracks[t], S \cup {o}) /\ o.key \notin x.tracks[t].members
    BY <1>5, OthersGood DEF Tracked
  <1>7. /\ \A p \in S \cup {o} : p.at <= at /\ (p.at = at => p.key \in {<<at, i>> : i \in 1..(k + 1)})
        /\ \A p \in S \cup {o} : p.key[1] = p.at
        /\ \A p, r \in S \cup {o} : p.key = r.key => p = r
    <2>1. \A p \in S : p.at <= at /\ (p.at = at => p.key \in {<<at, i>> : i \in 1..(k + 1)})
      BY <1>2 DEF Tracked
    <2>2. o.key \in {<<at, i>> : i \in 1..(k + 1)} /\ o.key[1] = o.at
      BY <1>2
    <2>3. \A p \in S : p.key[1] = p.at
      BY DEF Tracked
    <2>4. \A p, r \in S : p.key = r.key => p = r
      BY DEF Tracked
    <2>5. \A p, r \in S \cup {o} : p.key = r.key => p = r
      BY <1>4, <2>4
    <2>6. \A p \in S \cup {o} : p.key[1] = p.at
      BY <2>2, <2>3
    <2>7. at <= at
      BY <1>2
    <2> QED BY <2>1, <2>2, <2>5, <2>6, <2>7
  <1>8. k + 1 \in Nat
    BY <1>2
  <1>9. /\ \A p \in S : \E t \in DOMAIN x.tracks : p.key \in x.tracks[t].members
        /\ \A t, u \in DOMAIN x.tracks : t # u => x.tracks[t].members \cap x.tracks[u].members = {}
        /\ \A t \in DOMAIN x.tracks :
             x.tracks[t].end <= at /\ (x.tracks[t].end = at => t \in x.used)
    BY DEF Tracked
  <1>b. ASSUME \A t \in DOMAIN q.tracks : TrackGood(q.tracks[t], S \cup {o}),
               \A p \in S \cup {o} : \E t \in DOMAIN q.tracks : p.key \in q.tracks[t].members,
               \A t, u \in DOMAIN q.tracks :
                 t # u => q.tracks[t].members \cap q.tracks[u].members = {},
               \A t \in DOMAIN q.tracks :
                 q.tracks[t].end <= at /\ (q.tracks[t].end = at => t \in q.used)
        PROVE  Tracked(q, at, k + 1)
    <2> HIDE DEF S
    <2>1. q \in TrackState /\ at \in Nat /\ k + 1 \in Nat /\ Range(q.seen) = S \cup {o}
      BY <1>1, <1>2, <1>3, <1>8
    <2> QED BY <1>7, <1>b, <2>1, Zenon DEF Tracked
  <1>10. CASE q.tracks = Append(x.tracks, Opened(o)) /\ q.used = x.used \cup {Len(x.tracks) + 1}
    <2> DEFINE n == Len(x.tracks) + 1
    <2>1. /\ DOMAIN q.tracks = DOMAIN x.tracks \cup {n} /\ n \notin DOMAIN x.tracks
          /\ q.tracks[n] = Opened(o) /\ \A t \in DOMAIN x.tracks : q.tracks[t] = x.tracks[t]
      BY <1>2, <1>10
    <2>2. Opened(o).members = {o.key} /\ Opened(o).end = at
      BY OpenedFields
    <2> HIDE DEF n
    <2>3. \A t \in DOMAIN q.tracks : TrackGood(q.tracks[t], S \cup {o})
      <3>1. TrackGood(Opened(o), S \cup {o})
        BY <1>5, OpenedGood
      <3> QED BY <1>6, <2>1, <3>1
    <2>4. \A p \in S \cup {o} : \E t \in DOMAIN q.tracks : p.key \in q.tracks[t].members
      BY <1>9, <2>1, <2>2
    <2>5. \A t, u \in DOMAIN q.tracks : t # u => q.tracks[t].members \cap q.tracks[u].members = {}
      BY <1>6, <1>9, <2>1, <2>2
    <2>6. \A t \in DOMAIN q.tracks :
            q.tracks[t].end <= at /\ (q.tracks[t].end = at => t \in q.used)
      BY <1>2, <1>9, <1>10, <2>1, <2>2 DEF n
    <2>7. Tracked(q, at, k + 1)
      BY <1>b, <2>3, <2>4, <2>5, <2>6
    <2> QED BY <2>7 DEF q
  <1>11. ASSUME NEW n \in DOMAIN x.tracks,
                n \notin x.used, o.at - x.tracks[n].end <= MaxGap,
                q.tracks = [x.tracks EXCEPT ![n] = Joined(x.tracks[n], o)],
                q.used = x.used \cup {n}
         PROVE  Tracked(AssignTrack(x, o), at, k + 1)
    <2> DEFINE j == Joined(x.tracks[n], o)
    <2>1. /\ DOMAIN q.tracks = DOMAIN x.tracks
          /\ q.tracks[n] = j /\ \A t \in DOMAIN x.tracks \ {n} : q.tracks[t] = x.tracks[t]
      BY <1>2, <1>11
    <2>2. x.tracks[n] \in OpenTrack /\ x.tracks[n].end \in Nat
      <3>1. x.tracks[n] \in OpenTrack
        BY <1>2, <1>11
      <3> QED BY <3>1 DEF OpenTrack
    <2>a. j = Joined(x.tracks[n], o)
      OBVIOUS
    <2> HIDE DEF j
    <2>3. j.members = x.tracks[n].members \cup {o.key} /\ j.end = at
      <3>1. PICK t \in OpenTrack : t = x.tracks[n]
        BY <2>2
      <3>2. j = Joined(t, o)
        BY <2>a, <3>1
      <3>3. j.members = t.members \cup {o.key} /\ j.end = o.at
        BY <3>2, JoinedMembers
      <3> QED BY <3>1, <3>3
    <2>4. TrackGood(j, S \cup {o})
      <3>1. x.tracks[n].end < o.at
        BY <1>2, <1>9, <1>11, <2>2
      <3>2. TrackGood(x.tracks[n], S)
        BY DEF Tracked
      <3> QED BY <1>5, <1>11, <2>2, <2>a, <3>1, <3>2, JoinedGood
    <2>5. \A t \in DOMAIN q.tracks : TrackGood(q.tracks[t], S \cup {o})
      BY <1>6, <2>1, <2>4
    <2>6. \A p \in S \cup {o} : \E t \in DOMAIN q.tracks : p.key \in q.tracks[t].members
      BY <1>9, <2>1, <2>3
    <2>7. \A t, u \in DOMAIN q.tracks : t # u => q.tracks[t].members \cap q.tracks[u].members = {}
      BY <1>6, <1>9, <2>1, <2>3
    <2>8. \A t \in DOMAIN q.tracks :
            q.tracks[t].end <= at /\ (q.tracks[t].end = at => t \in q.used)
      BY <1>2, <1>9, <1>11, <2>1, <2>3
    <2>9. Tracked(q, at, k + 1)
      BY <1>b, <2>5, <2>6, <2>7, <2>8
    <2> QED BY <2>9 DEF q
  <1> QED BY <1>1, <1>10, <1>11

LEMMA SeenAt ==
  ASSUME NEW s \in Seq(Sighting)
  PROVE  \A o \in Range(s) : o \in Sighting /\ o.at \in Nat
  <1> TAKE o \in Range(s)
  <1>1. PICK i \in DOMAIN s : o = s[i]
    BY DEF Range
  <1>2. o \in Sighting
    BY <1>1
  <1> QED BY <1>2 DEF Sighting

\* The next frame starts with no track used.
LEMMA NextFrame ==
  ASSUME NEW x, NEW at, NEW k, Tracked(x, at, k), NEW next \in Nat,
         at < next \/ (x.seen = <<>> /\ x.tracks = <<>>)
  PROVE  Tracked([x EXCEPT !.used = {}], next, 0)
  <1> DEFINE q == [x EXCEPT !.used = {}]
  <1>1. q \in TrackState /\ q.seen = x.seen /\ q.tracks = x.tracks /\ q.used = {}
    BY DEF Tracked, TrackState
  <1>2. x.seen \in Seq(Sighting) /\ x.tracks \in Seq(OpenTrack) /\ at \in Nat
    BY DEF Tracked, TrackState
  <1>3. \A o \in Range(x.seen) : o.at < next
    <2>1. CASE at < next
      <3>1. \A o \in Range(x.seen) : o.at \in Nat
        BY <1>2, SeenAt
      <3>2. \A o \in Range(x.seen) : o.at <= at
        BY DEF Tracked
      <3> QED BY <1>2, <2>1, <3>1, <3>2
    <2>2. CASE x.seen = <<>>
      BY <2>2 DEF Range
    <2> QED BY <2>1, <2>2
  <1>4. \A t \in DOMAIN x.tracks : x.tracks[t].end < next
    <2>1. CASE at < next
      <3>1. \A t \in DOMAIN x.tracks : x.tracks[t].end \in Nat
        <4> TAKE t \in DOMAIN x.tracks
        <4>1. x.tracks[t] \in OpenTrack
          BY <1>2
        <4> QED BY <4>1 DEF OpenTrack
      <3>2. \A t \in DOMAIN x.tracks : x.tracks[t].end <= at
        BY DEF Tracked
      <3> QED BY <1>2, <2>1, <3>1, <3>2
    <2>2. CASE x.tracks = <<>>
      BY <2>2
    <2> QED BY <2>1, <2>2
  <1> HIDE DEF q
  <1>5. \A o \in Range(x.seen) : o.at \in Nat
    BY <1>2, SeenAt
  <1>6. \A t \in DOMAIN x.tracks : x.tracks[t].end \in Nat
    <2> TAKE t \in DOMAIN x.tracks
    <2>1. x.tracks[t] \in OpenTrack
      BY <1>2
    <2> QED BY <2>1 DEF OpenTrack
  <1>7. \A o \in Range(x.seen) : o.at <= next /\ o.at # next
    BY <1>3, <1>5
  <1>8. \A t \in DOMAIN x.tracks : x.tracks[t].end <= next /\ x.tracks[t].end # next
    BY <1>4, <1>6
  <1>9. Tracked(q, next, 0)
    BY <1>1, <1>7, <1>8 DEF Tracked
  <1> QED BY <1>9 DEF q

\* The sightings of a frame, one after the other.
LEMMA FrameStep ==
  ASSUME NEW x, NEW at, NEW k, Tracked(x, at, k), NEW frame \in Frame,
         at < frame.at \/ (x.seen = <<>> /\ x.tracks = <<>>)
  PROVE  Tracked(TrackFrame(x, frame), frame.at, Len(frame.faces))
  <1> DEFINE n == Len(frame.faces)
             keyed == [i \in DOMAIN frame.faces |->
                  LET d == frame.faces[i]
                  IN [at |-> frame.at, key |-> <<frame.at, i>>, face |-> d.face,
                      score |-> d.score, inside |-> d.inside]]
             base == [x EXCEPT !.used = {}]
  <1>1. frame.at \in Nat /\ frame.faces \in Seq(Detection) /\ n \in Nat
    BY DEF Frame
  <1>2. DOMAIN keyed = 1..n
    BY <1>1
  <1>3. ASSUME NEW i \in 1..n
        PROVE  keyed[i] \in Sighting /\ keyed[i].at = frame.at /\ keyed[i].key = <<frame.at, i>>
    <2>1. frame.faces[i] \in Detection /\ i \in DOMAIN frame.faces
      BY <1>1
    <2>2. keyed[i] = [at |-> frame.at, key |-> <<frame.at, i>>, face |-> frame.faces[i].face,
                      score |-> frame.faces[i].score, inside |-> frame.faces[i].inside]
      BY <2>1
    <2>3. <<frame.at, i>> \in Keys
      BY <1>1 DEF Keys
    <2> HIDE DEF keyed
    <2>4. keyed[i].at = frame.at /\ keyed[i].key = <<frame.at, i>>
      BY <2>2
    <2>5. keyed[i] \in Sighting
      BY <1>1, <2>1, <2>2, <2>3 DEF Sighting, Detection
    <2> QED BY <2>4, <2>5
  <1>4. TrackFrame(x, frame) = AssignAll(base, keyed)
    BY DEF TrackFrame, AssignAll
  <1>5. Tracked(base, frame.at, 0)
    BY <1>1, NextFrame
  <1> HIDE DEF keyed, base, n
  <1>6. base \in TrackState
    BY <1>5 DEF Tracked
  <1>7. \A y \in TrackState : \A i \in 1..n : AssignTrack(y, keyed[i]) \in TrackState
    BY <1>3, Assigning
  <1>8. PICK h : AssignRun(TrackState, base, n, keyed, h)
    <2>1. AssignClosed(TrackState, n, keyed)
      BY <1>2, <1>7 DEF AssignClosed
    <2> QED BY <1>1, <1>6, <2>1, AssignFolds
  <1> USE <1>8 DEF AssignRun
  <1> DEFINE S == {i \in 0..n : Tracked(h[i], frame.at, i)}
  <1>9. 0 \in S
    BY <1>1, <1>5, <1>8
  <1>10. ASSUME NEW i \in 0..(n - 1), i \in S
         PROVE  i + 1 \in S
    <2>1. /\ i \in Nat /\ i + 1 \in 1..n /\ i + 1 \in 0..n /\ (i + 1) - 1 = i
          /\ Tracked(h[i], frame.at, i)
      BY <1>1, <1>10
    <2>2. h[i + 1] = AssignTrack(h[i], keyed[i + 1])
      BY <1>8, <2>1
    <2>3. /\ keyed[i + 1] \in Sighting /\ keyed[i + 1].at = frame.at
          /\ keyed[i + 1].key = <<frame.at, i + 1>>
      BY <1>3, <2>1
    <2>4. Tracked(h[i + 1], frame.at, i + 1)
      BY <2>1, <2>2, <2>3, AssignStep
    <2> QED BY <2>1, <2>4
  <1> HIDE DEF S
  <1>11. \A i \in 0..n : i \in S
    BY <1>1, <1>9, <1>10, UpTo
  <1>12. Tracked(h[n], frame.at, n)
    BY <1>1, <1>11 DEF S
  <1> QED BY <1>4, <1>8, <1>12 DEF n

\* The frames taken are later and later, and come before the next to be taken.
SampleState == [frames : Seq(Frame), next : Nat]
Spaced(s) ==
  /\ s \in SampleState
  /\ \A i \in DOMAIN s.frames : s.frames[i].at < s.next
  /\ \A i, j \in DOMAIN s.frames : i < j => s.frames[i].at < s.frames[j].at

LEMMA SampleStep ==
  ASSUME NEW s \in SampleState, NEW frame \in Frame
  PROVE  /\ SampleFrame(s, frame) \in SampleState
         /\ Spaced(s) => Spaced(SampleFrame(s, frame))
  <1>1. s.frames \in Seq(Frame) /\ s.next \in Nat /\ frame.at \in Nat
    BY DEF SampleState, Frame
  <1>2. CASE frame.at < s.next
    BY <1>2 DEF SampleFrame
  <1>3. CASE ~(frame.at < s.next)
    <2> DEFINE q == [frames |-> Append(s.frames, frame), next |-> frame.at + SampleInterval]
    <2>1. SampleFrame(s, frame) = q
      BY <1>3 DEF SampleFrame
    <2>2. /\ q.frames = Append(s.frames, frame) /\ q.next = frame.at + SampleInterval
          /\ q \in SampleState
      BY <1>1, ConfigurationAssumption DEF SampleState
    <2> HIDE DEF q
    <2>3. q.next \in Nat /\ frame.at < q.next /\ s.next <= frame.at /\ s.next < q.next
      BY <1>1, <1>3, <2>2, ConfigurationAssumption
    <2>4. /\ \A i \in DOMAIN s.frames : q.frames[i] = s.frames[i] /\ i < Len(s.frames) + 1
          /\ \A i \in DOMAIN q.frames : i \in DOMAIN s.frames \/ i = Len(s.frames) + 1
          /\ q.frames[Len(s.frames) + 1] = frame
      BY <1>1, <2>2
    <2>5. \A i \in DOMAIN s.frames : s.frames[i].at \in Nat /\ i \in Nat
      <3> TAKE i \in DOMAIN s.frames
      <3>1. s.frames[i] \in Frame /\ i \in Nat
        BY <1>1
      <3> QED BY <3>1 DEF Frame
    <2>6. ASSUME Spaced(s)
          PROVE  Spaced(q)
      <3>1. \A i \in DOMAIN q.frames : q.frames[i].at < q.next
        BY <1>1, <2>3, <2>4, <2>5, <2>6 DEF Spaced
      <3>2. ASSUME NEW i \in DOMAIN q.frames, NEW j \in DOMAIN q.frames, i < j
            PROVE  q.frames[i].at < q.frames[j].at
        <4>1. CASE j \in DOMAIN s.frames
          <5>1. i \in DOMAIN s.frames
            BY <1>1, <2>4, <2>5, <3>2, <4>1
          <5> QED BY <2>4, <2>6, <3>2, <4>1, <5>1 DEF Spaced
        <4>2. CASE j = Len(s.frames) + 1
          <5>1. i \in DOMAIN s.frames
            BY <1>1, <2>4, <2>5, <3>2, <4>2
          <5>2. s.frames[i].at < s.next
            BY <2>6, <5>1 DEF Spaced
          <5> QED BY <1>1, <2>3, <2>4, <2>5, <4>2, <5>1, <5>2
        <4> QED BY <2>4, <4>1, <4>2
      <3> QED BY <2>2, <3>1, <3>2 DEF Spaced
    <2> QED BY <2>1, <2>2, <2>6
  <1> QED BY <1>2, <1>3

LEMMA SampledFrames ==
  ASSUME NEW f \in Seq(Frame)
  PROVE  /\ Sampled(f) \in Seq(Frame)
         /\ \A i, j \in DOMAIN Sampled(f) : i < j => Sampled(f)[i].at < Sampled(f)[j].at
  <1> DEFINE n == Len(f)
             base == [frames |-> <<>>, next |-> 0]
  <1>1. n \in Nat /\ DOMAIN f = 1..n /\ \A i \in 1..n : f[i] \in Frame
    OBVIOUS
  <1>2. base \in SampleState /\ Spaced(base)
    <2>1. <<>> \in Seq(Frame) /\ DOMAIN base.frames = {}
      OBVIOUS
    <2> QED BY <2>1 DEF SampleState, Spaced
  <1>3. Sampled(f) = SampleAll(base, f).frames
    BY DEF Sampled, SampleAll
  <1> HIDE DEF base, n
  <1>4. \A x \in SampleState : \A i \in 1..n : SampleFrame(x, f[i]) \in SampleState
    BY <1>1, SampleStep
  <1>5. PICK h : SampleRun(SampleState, base, n, f, h)
    <2>1. SampleClosed(SampleState, n, f)
      BY <1>1, <1>4 DEF SampleClosed
    <2> QED BY <1>1, <1>2, <2>1, SampleFolds
  <1> USE <1>5 DEF SampleRun
  <1> DEFINE S == {i \in 0..n : Spaced(h[i])}
  <1>6. 0 \in S
    BY <1>1, <1>2, <1>5
  <1>7. ASSUME NEW i \in 0..(n - 1), i \in S
        PROVE  i + 1 \in S
    <2>1. i + 1 \in 1..n /\ i + 1 \in 0..n /\ (i + 1) - 1 = i /\ Spaced(h[i])
      BY <1>1, <1>7
    <2>2. h[i + 1] = SampleFrame(h[i], f[i + 1]) /\ f[i + 1] \in Frame
      BY <1>1, <1>5, <2>1
    <2>3. h[i] \in SampleState
      BY <2>1 DEF Spaced
    <2> QED BY <2>1, <2>2, <2>3, SampleStep
  <1> HIDE DEF S
  <1>8. \A i \in 0..n : i \in S
    BY <1>1, <1>6, <1>7, UpTo
  <1>9. Spaced(h[n])
    BY <1>1, <1>8 DEF S
  <1> QED BY <1>3, <1>5, <1>9 DEF Spaced, SampleState

\* A frame takes the tracker from a state to a state.
LEMMA FrameTypes ==
  ASSUME NEW x \in TrackState, NEW frame \in Frame
  PROVE  TrackFrame(x, frame) \in TrackState
  <1> DEFINE n == Len(frame.faces)
             keyed == [i \in DOMAIN frame.faces |->
                  LET d == frame.faces[i]
                  IN [at |-> frame.at, key |-> <<frame.at, i>>, face |-> d.face,
                      score |-> d.score, inside |-> d.inside]]
             base == [x EXCEPT !.used = {}]
  <1>1. frame.at \in Nat /\ frame.faces \in Seq(Detection) /\ n \in Nat
    BY DEF Frame
  <1>2. DOMAIN keyed = 1..n
    BY <1>1
  <1>3. ASSUME NEW i \in 1..n
        PROVE  keyed[i] \in Sighting
    <2>1. frame.faces[i] \in Detection /\ i \in DOMAIN frame.faces
      BY <1>1
    <2>2. keyed[i] = [at |-> frame.at, key |-> <<frame.at, i>>, face |-> frame.faces[i].face,
                      score |-> frame.faces[i].score, inside |-> frame.faces[i].inside]
      BY <2>1
    <2>3. <<frame.at, i>> \in Keys
      BY <1>1 DEF Keys
    <2> HIDE DEF keyed
    <2> QED BY <1>1, <2>1, <2>2, <2>3 DEF Sighting, Detection
  <1>4. TrackFrame(x, frame) = AssignAll(base, keyed)
    BY DEF TrackFrame, AssignAll
  <1>5. base \in TrackState
    BY DEF TrackState
  <1> HIDE DEF keyed, base, n
  <1>6. \A y \in TrackState : \A i \in 1..n : AssignTrack(y, keyed[i]) \in TrackState
    BY <1>3, Assigning
  <1>7. PICK h : AssignRun(TrackState, base, n, keyed, h)
    <2>1. AssignClosed(TrackState, n, keyed)
      BY <1>2, <1>6 DEF AssignClosed
    <2> QED BY <1>1, <1>5, <2>1, AssignFolds
  <1>8. n \in 0..n
    BY <1>1
  <1> QED BY <1>4, <1>7, <1>8 DEF AssignRun

LEMMA NothingTracked ==
  ASSUME NEW at \in Nat
  PROVE  Tracked([seen |-> <<>>, tracks |-> <<>>, used |-> {}], at, 0)
  <1> DEFINE x == [seen |-> <<>>, tracks |-> <<>>, used |-> {}]
  <1>1. x.seen = <<>> /\ x.tracks = <<>> /\ x.used = {} /\ x \in TrackState
    <2>1. <<>> \in Seq(Sighting) /\ <<>> \in Seq(OpenTrack) /\ {} \in SUBSET Nat
      OBVIOUS
    <2> QED BY <2>1 DEF TrackState
  <1>2. Range(x.seen) = {} /\ DOMAIN x.tracks = {}
    <2> HIDE DEF x
    <2> QED BY <1>1 DEF Range
  <1> HIDE DEF x
  <1>3. Tracked(x, at, 0)
    BY <1>1, <1>2 DEF Tracked
  <1> QED BY <1>3 DEF x

\* However many frames there are, in the end the tracks are those of a tracker.
LEMMA FacesTracked ==
  ASSUME NEW f, IsFaceFootage(f)
  PROVE  \E at, k : Tracked(TrackFaces(f), at, k)
  <1> DEFINE frames == Sampled(f)
             n == Len(frames)
             base == [seen |-> <<>>, tracks |-> <<>>, used |-> {}]
  <1>1. f \in Seq(Frame)
    BY DEF IsFaceFootage, Frame, Detection
  <1>2. /\ frames \in Seq(Frame)
        /\ \A i, j \in DOMAIN frames : i < j => frames[i].at < frames[j].at
    BY <1>1, SampledFrames
  <1>3. TrackFaces(f) = FrameAll(base, frames)
    BY DEF TrackFaces, FrameAll
  <1>4. base \in TrackState /\ Tracked(base, 0, 0)
    BY NothingTracked DEF Tracked
  <1>5. base.seen = <<>> /\ base.tracks = <<>>
    OBVIOUS
  <1> HIDE DEF frames, base
  <1>6. n \in Nat /\ DOMAIN frames = 1..n /\ \A i \in 1..n : frames[i] \in Frame
    BY <1>2
  <1> HIDE DEF n
  <1>7. PICK h : FrameRun(TrackState, base, n, frames, h)
    <2>1. \A y \in TrackState : \A i \in 1..n : TrackFrame(y, frames[i]) \in TrackState
      BY <1>6, FrameTypes
    <2>2. FrameClosed(TrackState, n, frames)
      BY <1>6, <2>1 DEF FrameClosed
    <2> QED BY <1>4, <1>6, <2>2, FrameFolds
  <1> DEFINE Fine(i) == IF i = 0 THEN h[i] = base
                        ELSE \E k : Tracked(h[i], frames[i].at, k)
             S == {i \in 0..n : Fine(i)}
  <1>8. 0 \in S
    BY <1>6, <1>7 DEF FrameRun
  <1>9. ASSUME NEW i \in 0..(n - 1), i \in S
        PROVE  i + 1 \in S
    <2>1. i \in Nat /\ i + 1 \in 1..n /\ i + 1 \in 0..n /\ (i + 1) - 1 = i /\ Fine(i) /\ i + 1 # 0
      BY <1>6, <1>9
    <2>2. h[i + 1] = TrackFrame(h[i], frames[i + 1]) /\ frames[i + 1] \in Frame
      BY <1>6, <1>7, <2>1 DEF FrameRun
    <2>3. \E at, k : /\ Tracked(h[i], at, k)
                     /\ at < frames[i + 1].at \/ (h[i].seen = <<>> /\ h[i].tracks = <<>>)
      <3>1. CASE i = 0
        BY <1>4, <1>5, <2>1, <3>1
      <3>2. CASE i # 0
        <4>1. PICK k : Tracked(h[i], frames[i].at, k)
          BY <2>1, <3>2
        <4>2. i \in 1..n /\ i < i + 1
          BY <1>6, <2>1, <3>2
        <4>3. frames[i].at < frames[i + 1].at
          BY <1>2, <1>6, <2>1, <4>2
        <4> QED BY <4>1, <4>3
      <3> QED BY <3>1, <3>2
    <2>4. PICK at, k : /\ Tracked(h[i], at, k)
                       /\ at < frames[i + 1].at \/ (h[i].seen = <<>> /\ h[i].tracks = <<>>)
      BY <2>3
    <2>5. Tracked(h[i + 1], frames[i + 1].at, Len(frames[i + 1].faces))
      BY <2>2, <2>4, FrameStep
    <2>6. Fine(i + 1)
      BY <2>1, <2>5
    <2> HIDE DEF Fine
    <2> QED BY <2>1, <2>6
  <1> HIDE DEF S
  <1>10. \A i \in 0..n : i \in S
    BY <1>6, <1>8, <1>9, UpTo
  <1>11. Fine(n)
    BY <1>6, <1>10 DEF S
  <1>12. \E at, k : Tracked(h[n], at, k)
    <2>1. CASE n = 0
      BY <1>4, <1>11, <2>1
    <2>2. CASE n # 0
      BY <1>11, <2>2
    <2> QED BY <2>1, <2>2
  <1>13. h[n] = TrackFaces(f)
    BY <1>3, <1>7 DEF FrameRun
  <1> QED BY <1>12, <1>13

\* The least and the greatest of some numbers.
LEMMA LeastAndGreatest ==
  ASSUME NEW N, NEW a \in Nat, NEW b \in Nat, a \in N, b \in N,
         \A m \in N : m \in Nat /\ a <= m /\ m <= b
  PROVE  Min(N) = a /\ Max(N) = b
  <1>1. \A x \in N : (\A y \in N : x <= y) => x = a
    OBVIOUS
  <1>2. \A x \in N : (\A y \in N : x >= y) => x = b
    OBVIOUS
  <1>3. Min(N) = a
    BY <1>1 DEF Min
  <1>4. Max(N) = b
    BY <1>2 DEF Max
  <1> QED BY <1>3, <1>4

\* The row of a track is true of its members.
LEMMA FaceTrackRow ==
  ASSUME NEW S \in SUBSET Sighting, NEW t \in OpenTrack, TrackGood(t, S),
         NEW r, r = [key |-> t.key, count |-> Cardinality(t.members), start |-> t.start,
                     end |-> t.end, face |-> t.face],
         NEW M, M = In(t, S)
  PROVE  FaceTrackHolds(r, M) /\ r.count > 0
  <1>1. r.start = t.start /\ r.end = t.end /\ r.face = t.face /\ r.count = Cardinality(t.members)
    OBVIOUS
  <1>2. t.start \in Nat /\ t.end \in Nat /\ \A o \in M : o.at \in Nat /\ o.score \in Nat
    BY DEF OpenTrack, In, Sighting
  <1>3. r.count > 0
    <2>1. Cardinality(t.members) \in Nat /\ Cardinality(t.members) # 0
      BY FS_EmptySet, FS_CardinalityType DEF TrackGood
    <2> QED BY <1>1, <2>1
  <1> DEFINE N == {o.at : o \in M}
  <1>4. t.start \in N /\ t.end \in N /\ \A m \in N : m \in Nat /\ t.start <= m /\ m <= t.end
    BY <1>2 DEF TrackGood
  <1>5. Min(N) = t.start /\ Max(N) = t.end
    <2> HIDE DEF N
    <2> QED BY <1>2, <1>4, LeastAndGreatest
  <1>6. \E o \in M : o.face = r.face /\ \A p \in M : p.score <= o.score
    BY <1>1 DEF TrackGood
  <1>7. \A o, p \in M : o.at = p.at => o = p
    BY DEF TrackGood
  <1>8. \A o \in M : o.at = r.end \/ \E p \in M : p.at > o.at /\ p.at - o.at <= MaxGap
    BY <1>1 DEF TrackGood
  <1>9. FaceTrackHolds(r, M)
    BY <1>1, <1>5, <1>6, <1>7, <1>8 DEF FaceTrackHolds
  <1> QED BY <1>3, <1>9

\* A batch of faces: every face in one track, and the tracks true of their faces.
LEMMA FaceBatchHolds ==
  ASSUME NEW f, IsFaceFootage(f)
  PROVE  LET b == FaceBatch(f)
         IN BatchHolds("faces", b.observations, b.tracks, b.links) /\ SceneLinksHold(b, {})
  <1> DEFINE e == TrackFaces(f)
             T == e.tracks
             S == Range(e.seen)
             trk == FaceTracks(e)
             lnk == FaceLinks(e)
             b == FaceBatch(f)
             Row(t) == [key |-> t.key, count |-> Cardinality(t.members), start |-> t.start,
                        end |-> t.end, face |-> t.face]
  <1>1. b.observations = S /\ b.tracks = trk /\ b.links = lnk /\ b.sceneLinks = {}
    BY DEF FaceBatch, FaceObservations
  <1>2. \E at, k : Tracked(e, at, k)
    BY FacesTracked
  <1>3. /\ e \in TrackState
        /\ \A o, p \in S : o.key = p.key => o = p
        /\ \A i \in DOMAIN T : TrackGood(T[i], S)
        /\ \A o \in S : \E i \in DOMAIN T : o.key \in T[i].members
        /\ \A i, j \in DOMAIN T : i # j => T[i].members \cap T[j].members = {}
    <2> HIDE DEF e
    <2> QED BY <1>2 DEF Tracked
  <1>4. trk = {Row(t) : t \in Range(T)}
    BY DEF FaceTracks
  <1>5. \A r : r \in trk <=> \E i \in DOMAIN T : r = Row(T[i])
    <2> HIDE DEF Row, T
    <2> QED BY <1>4 DEF Range
  <1>6. \A l : l \in lnk <=> \E i \in DOMAIN T : \E m \in T[i].members : l = <<T[i].key, m>>
    <2>1. lnk = UNION {{<<t.key, o>> : o \in t.members} : t \in Range(T)}
      BY DEF FaceLinks
    <2> HIDE DEF T, lnk
    <2> QED BY <2>1 DEF Range
  <1> HIDE DEF e, trk, lnk, b
  <1>7. T \in Seq(OpenTrack) /\ S \in SUBSET Sighting
    <2>1. e.tracks \in Seq(OpenTrack) /\ e.seen \in Seq(Sighting)
      BY <1>3 DEF TrackState
    <2>2. \A o \in S : o \in Sighting
      BY <2>1, SeenAt
    <2> QED BY <2>1, <2>2
  <1> HIDE DEF T, S
  <1>8. \A i, j \in DOMAIN T : T[i].key = T[j].key => i = j
    BY <1>3 DEF TrackGood
  <1>9. ASSUME NEW i \in DOMAIN T
        PROVE  MembersIn(lnk, T[i].key) = T[i].members
    <2>1. \A m \in T[i].members : m \in MembersIn(lnk, T[i].key)
      <3> TAKE m \in T[i].members
      <3> DEFINE l == <<T[i].key, m>>
      <3>1. l \in lnk /\ l[1] = T[i].key /\ l[2] = m
        BY <1>6
      <3> HIDE DEF l
      <3> QED BY <3>1 DEF MembersIn
    <2>2. \A m \in MembersIn(lnk, T[i].key) : m \in T[i].members
      <3> TAKE m \in MembersIn(lnk, T[i].key)
      <3>1. PICK l \in lnk : l[1] = T[i].key /\ l[2] = m
        BY DEF MembersIn
      <3>2. PICK j \in DOMAIN T : \E k \in T[j].members : l = <<T[j].key, k>>
        BY <1>6, <3>1
      <3> QED BY <1>8, <3>1, <3>2
    <2> QED BY <2>1, <2>2
  <1>10. ASSUME NEW l \in lnk
         PROVE  l = <<l[1], l[2]>> /\ (\E o \in S : o.key = l[2]) /\ \E r \in trk : r.key = l[1]
    <2>1. PICK i \in DOMAIN T : \E m \in T[i].members : l = <<T[i].key, m>>
      BY <1>6
    <2>2. Row(T[i]) \in trk /\ Row(T[i]).key = T[i].key
      BY <1>5
    <2> HIDE DEF Row
    <2> QED BY <1>3, <2>1, <2>2 DEF TrackGood
  <1>11. ASSUME NEW r \in trk
         PROVE  LET M == {o \in S : o.key \in MembersIn(lnk, r.key)}
                IN /\ IsFiniteSet(MembersIn(lnk, r.key))
                   /\ Cardinality(MembersIn(lnk, r.key)) = r.count /\ r.count > 0
                   /\ FaceTrackHolds(r, M)
    <2>1. PICK i \in DOMAIN T : r = Row(T[i])
      BY <1>5
    <2>2. r.key = T[i].key /\ r.count = Cardinality(T[i].members)
      BY <2>1
    <2>3. MembersIn(lnk, r.key) = T[i].members
      BY <1>9, <2>2
    <2>4. T[i] \in OpenTrack /\ TrackGood(T[i], S) /\ IsFiniteSet(T[i].members)
      BY <1>3, <1>7 DEF TrackGood
    <2>5. {o \in S : o.key \in MembersIn(lnk, r.key)} = In(T[i], S)
      BY <2>3 DEF In
    <2>6. FaceTrackHolds(r, In(T[i], S)) /\ r.count > 0
      BY <1>7, <2>1, <2>4, FaceTrackRow
    <2> QED BY <2>2, <2>3, <2>4, <2>5, <2>6
  <1>12. ASSUME NEW o \in S
         PROVE  \E k : {l \in lnk : l[2] = o.key} = {<<k, o.key>>}
    <2>1. PICK i \in DOMAIN T : o.key \in T[i].members
      BY <1>3
    <2> DEFINE l == <<T[i].key, o.key>>
    <2>2. l \in lnk /\ l[2] = o.key
      BY <1>6, <2>1
    <2>3. \A q \in lnk : q[2] = o.key => q = l
      <3> TAKE q \in lnk
      <3> HAVE q[2] = o.key
      <3>1. PICK j \in DOMAIN T : \E m \in T[j].members : q = <<T[j].key, m>>
        BY <1>6
      <3>2. o.key \in T[j].members /\ q = <<T[j].key, o.key>>
        BY <3>1
      <3>3. i = j
        BY <1>3, <2>1, <3>2
      <3> QED BY <3>2, <3>3
    <2>4. {q \in lnk : q[2] = o.key} = {l}
      <3> HIDE DEF l
      <3> QED BY <2>2, <2>3
    <2> QED BY <2>4
  <1>13. BatchHolds("faces", S, trk, lnk)
    BY <1>10, <1>11, <1>12 DEF BatchHolds
  <1>14. SceneLinksHold(b, {})
    BY <1>1 DEF SceneLinksHold
  <1> QED BY <1>1, <1>13, <1>14 DEF b

---------------------------------------------------------------------------
(* Voice tracks.                                                           *)

Lengths == Seq(Nat \ {0})

\* The lengths of the first windows, one by one.
LEMMA OneMoreWindow ==
  ASSUME NEW w \in Lengths
  PROVE  /\ FirstWindows(w, 0) = 0
         /\ \A n \in 1..Len(w) : FirstWindows(w, n) = FirstWindows(w, n - 1) + w[n]
         /\ \A n \in 0..Len(w) : FirstWindows(w, n) \in Nat
  <1> DEFINE q(n) == SubSeq(w, 1, n)
  <1>1. \A n \in 0..Len(w) : FirstWindows(w, n) = SumAll(0, q(n))
    BY DEF FirstWindows, SumAll
  <1>2. ASSUME NEW n \in 0..Len(w)
        PROVE  n \in Nat /\ DOMAIN q(n) = 1..n /\ \A i \in 1..n : q(n)[i] = w[i] /\ w[i] \in Nat
    BY DEF Lengths
  <1> HIDE DEF q
  <1>3. ASSUME NEW n \in 0..Len(w)
        PROVE  \E h : SumRun(Nat, 0, n, q(n), h)
    <2>1. SumClosed(Nat, n, q(n))
      BY <1>2 DEF SumClosed
    <2>2. 0 \in Nat
      OBVIOUS
    <2> QED BY <1>2, <2>1, <2>2, SumFolds
  <1>4. ASSUME NEW n \in 0..Len(w)
        PROVE  FirstWindows(w, n) \in Nat
    <2>1. PICK h : SumRun(Nat, 0, n, q(n), h)
      BY <1>3
    <2>2. n \in 0..n
      BY <1>2
    <2> QED BY <1>1, <2>1, <2>2 DEF SumRun
  <1>5. FirstWindows(w, 0) = 0
    <2>1. 0 \in 0..Len(w)
      BY DEF Lengths
    <2>2. PICK h : SumRun(Nat, 0, 0, q(0), h)
      BY <1>3, <2>1
    <2> QED BY <1>1, <2>1, <2>2 DEF SumRun
  <1>6. ASSUME NEW n \in 1..Len(w)
        PROVE  FirstWindows(w, n) = FirstWindows(w, n - 1) + w[n]
    <2>1. n \in 0..Len(w) /\ n - 1 \in 0..Len(w) /\ n \in Nat /\ n - 1 \in Nat
      BY DEF Lengths
    <2>2. PICK g : SumRun(Nat, 0, n, q(n), g)
      BY <1>3, <2>1
    <2>3. PICK h : SumRun(Nat, 0, n - 1, q(n - 1), h)
      BY <1>3, <2>1
    <2> DEFINE S == {i \in 0..(n - 1) : g[i] = h[i]}
    <2>4. 0 \in S
      BY <2>1, <2>2, <2>3 DEF SumRun
    <2>5. ASSUME NEW i \in 0..((n - 1) - 1), i \in S
          PROVE  i + 1 \in S
      <3>1. /\ i + 1 \in 1..n /\ i + 1 \in 1..(n - 1) /\ (i + 1) - 1 = i /\ i + 1 \in 0..(n - 1)
            /\ g[i] = h[i]
        BY <2>1, <2>5
      <3>2. g[i + 1] = g[i] + q(n)[i + 1] /\ h[i + 1] = h[i] + q(n - 1)[i + 1]
        BY <2>2, <2>3, <3>1 DEF SumRun
      <3>3. q(n)[i + 1] = w[i + 1] /\ q(n - 1)[i + 1] = w[i + 1]
        BY <1>2, <2>1, <3>1
      <3> QED BY <3>1, <3>2, <3>3
    <2> HIDE DEF S
    <2>6. \A i \in 0..(n - 1) : i \in S
      BY <2>1, <2>4, <2>5, UpTo
    <2>7. g[n - 1] = h[n - 1]
      BY <2>1, <2>6 DEF S
    <2>8. n \in 1..n /\ g[n] = g[n - 1] + q(n)[n] /\ q(n)[n] = w[n]
      BY <1>2, <2>1, <2>2 DEF SumRun
    <2>9. FirstWindows(w, n) = g[n] /\ FirstWindows(w, n - 1) = h[n - 1]
      BY <1>1, <2>1, <2>2, <2>3 DEF SumRun
    <2> QED BY <2>7, <2>8, <2>9
  <1> QED BY <1>4, <1>5, <1>6

LEMMA MoreWindows ==
  ASSUME NEW w \in Lengths, NEW m \in 0..Len(w), NEW n \in 0..Len(w), m <= n
  PROVE  FirstWindows(w, m) <= FirstWindows(w, n)
  <1> DEFINE S == {i \in 0..(n - m) : FirstWindows(w, m) <= FirstWindows(w, m + i)}
             k == n - m
  <1>1. m \in Nat /\ n \in Nat /\ k \in Nat /\ Len(w) \in Nat
    BY DEF Lengths
  <1>2. \A i \in 0..Len(w) : FirstWindows(w, i) \in Nat
    BY OneMoreWindow
  <1>3. 0 \in S
    <2>1. m + 0 = m /\ 0 \in 0..(n - m)
      BY <1>1
    <2> QED BY <1>2, <2>1
  <1>4. ASSUME NEW i \in 0..(k - 1), i \in S
        PROVE  i + 1 \in S
    <2>1. /\ m + i + 1 \in 1..Len(w) /\ (m + i + 1) - 1 = m + i /\ m + i \in 0..Len(w)
          /\ i + 1 \in 0..(n - m) /\ m + i + 1 = m + (i + 1) /\ m + i + 1 \in 0..Len(w)
      BY <1>1
    <2>2. FirstWindows(w, m + i + 1) = FirstWindows(w, m + i) + w[m + i + 1]
      BY <2>1, OneMoreWindow
    <2>3. w[m + i + 1] \in Nat
      BY <2>1 DEF Lengths
    <2>4. FirstWindows(w, m) <= FirstWindows(w, m + i)
      BY <1>4
    <2>5. FirstWindows(w, m) <= FirstWindows(w, m + i + 1)
      BY <1>2, <2>1, <2>2, <2>3, <2>4
    <2> QED BY <2>1, <2>5
  <1> HIDE DEF S
  <1>5. \A i \in 0..k : i \in S
    <2> HIDE DEF k
    <2> QED BY <1>1, <1>3, <1>4, UpTo
  <1>6. k \in S /\ m + k = n
    BY <1>1, <1>5
  <1> QED BY <1>6 DEF S

Window(speakers) == [key : Nat, speaker : speakers, start : Nat, end : Nat]
Diarising(speakers) == [ok : BOOLEAN, windows : Lengths, seen : Seq(Window(speakers))]
Segment(s, speakers) ==
  s.start \in Nat /\ s.end \in Nat /\ s.start < s.end /\ s.speaker \in speakers

\* Where the i-th of n windows taken from a segment begins and ends.
Begins(s, w, i) == s.start + FirstWindows(w, i - 1)
Ends(s, w, n, i) == IF i = n THEN s.end ELSE Begins(s, w, i + 1)
WindowRows(m, s, w, n) ==
  [i \in 1..n |-> [key |-> m + i, speaker |-> s.speaker,
                   start |-> Begins(s, w, i), end |-> Ends(s, w, n, i)]]

LEMMA WindowBounds ==
  ASSUME NEW w \in Lengths, NEW s, s.start \in Nat, s.end \in Nat, s.start < s.end,
         NEW n \in WindowsOf(s, w)
  PROVE  /\ n \in 1..Len(w)
         /\ \A i \in 1..n : /\ Begins(s, w, i) \in Nat /\ Ends(s, w, n, i) \in Nat
                            /\ s.start <= Begins(s, w, i) /\ Ends(s, w, n, i) <= s.end
                            /\ Begins(s, w, i) < Ends(s, w, n, i)
         /\ \A i, j \in 1..n : i < j => Ends(s, w, n, i) <= Begins(s, w, j)
  <1>1. n \in 1..Len(w) /\ Len(w) \in Nat
    BY DEF WindowsOf, Lengths
  <1>2. \A m \in 1..(n - 1) : (s.end - s.start) - FirstWindows(w, m) > Slack
    BY DEF WindowsOf
  <1>3. \A m \in 0..Len(w) : FirstWindows(w, m) \in Nat
    BY OneMoreWindow
  <1>4. \A m \in 1..(n - 1) : s.start + FirstWindows(w, m) < s.end
    <2> TAKE m \in 1..(n - 1)
    <2>1. FirstWindows(w, m) \in Nat /\ (s.end - s.start) - FirstWindows(w, m) > Slack
      BY <1>1, <1>2, <1>3
    <2> QED BY <2>1, ConfigurationAssumption
  <1>5. FirstWindows(w, 0) = 0
    BY OneMoreWindow
  <1>6. ASSUME NEW i \in 1..n
        PROVE  /\ Begins(s, w, i) \in Nat /\ s.start <= Begins(s, w, i) /\ Begins(s, w, i) < s.end
               /\ i # n => /\ Ends(s, w, n, i) = s.start + FirstWindows(w, i)
                           /\ i \in 1..(n - 1) /\ i \in 0..Len(w)
               /\ i = n => Ends(s, w, n, i) = s.end
    <2>1. i - 1 \in 0..Len(w) /\ FirstWindows(w, i - 1) \in Nat /\ (i + 1) - 1 = i
      BY <1>1, <1>3
    <2>2. i = 1 \/ i - 1 \in 1..(n - 1)
      BY <1>1
    <2>3. i # n => i \in 1..(n - 1) /\ i \in 0..Len(w)
      BY <1>1
    <2>4. s.start + FirstWindows(w, i - 1) < s.end
      <3>1. CASE i = 1
        <4>1. i - 1 = 0
          BY <3>1
        <4> QED BY <1>5, <4>1
      <3>2. CASE i - 1 \in 1..(n - 1)
        BY <1>4, <3>2
      <3> QED BY <2>2, <3>1, <3>2
    <2> QED BY <2>1, <2>3, <2>4 DEF Begins, Ends
  <1>7. ASSUME NEW i \in 1..n
        PROVE  /\ Ends(s, w, n, i) \in Nat /\ Ends(s, w, n, i) <= s.end
               /\ Begins(s, w, i) < Ends(s, w, n, i)
    <2>1. CASE i = n
      BY <1>6, <2>1
    <2>2. CASE i # n
      <3>1. i \in 1..(n - 1) /\ i \in 1..Len(w) /\ i \in 0..Len(w) /\ i - 1 \in 0..Len(w)
        BY <1>1, <2>2
      <3>2. /\ FirstWindows(w, i) = FirstWindows(w, i - 1) + w[i]
            /\ FirstWindows(w, i) \in Nat /\ FirstWindows(w, i - 1) \in Nat
        BY <1>3, <3>1, OneMoreWindow
      <3>3. w[i] \in Nat /\ w[i] > 0
        BY <3>1 DEF Lengths
      <3>4. s.start + FirstWindows(w, i) < s.end
        BY <1>4, <3>1
      <3>5. Ends(s, w, n, i) = s.start + FirstWindows(w, i)
        BY <1>6, <2>2
      <3>6. Begins(s, w, i) = s.start + FirstWindows(w, i - 1)
        BY DEF Begins
      <3> QED BY <3>2, <3>3, <3>4, <3>5, <3>6
    <2> QED BY <2>1, <2>2
  <1>8. ASSUME NEW i \in 1..n, NEW j \in 1..n, i < j
        PROVE  Ends(s, w, n, i) <= Begins(s, w, j)
    <2>1. i # n /\ i \in 0..Len(w) /\ j - 1 \in 0..Len(w) /\ i <= j - 1
      BY <1>1, <1>8
    <2>2. FirstWindows(w, i) <= FirstWindows(w, j - 1)
      BY <2>1, MoreWindows
    <2>3. FirstWindows(w, i) \in Nat /\ FirstWindows(w, j - 1) \in Nat
      BY <1>3, <2>1
    <2>4. Ends(s, w, n, i) = s.start + FirstWindows(w, i)
      BY <1>6, <2>1
    <2>5. Begins(s, w, j) = s.start + FirstWindows(w, j - 1)
      BY DEF Begins
    <2> QED BY <2>2, <2>3, <2>4, <2>5
  <1> QED BY <1>1, <1>6, <1>7, <1>8

\* What has been heard up to the i-th segment.
Heard(x, segs, i, speakers) ==
  /\ x \in Diarising(speakers)
  /\ \A k \in DOMAIN x.seen : /\ x.seen[k].key = k /\ x.seen[k].start < x.seen[k].end
                              /\ \E j \in 1..i : x.seen[k].end <= segs[j].end
  /\ \A k, l \in DOMAIN x.seen : k < l => x.seen[k].end <= x.seen[l].start

\* A segment leaves what was seen, or adds its windows.
Took(x, s, y) ==
  \/ y.seen = x.seen
  \/ \E n \in WindowsOf(s, x.windows) :
       y.seen = x.seen \o WindowRows(Len(x.seen), s, x.windows, n)

LEMMA TakingWindows ==
  ASSUME NEW speakers, NEW x \in Diarising(speakers), NEW s, Segment(s, speakers),
         NEW y, y = TakeWindows(x, s)
  PROVE  y \in Diarising(speakers) /\ Took(x, s, y)
  <1>0. x.ok \in BOOLEAN /\ x.windows \in Lengths /\ x.seen \in Seq(Window(speakers))
    BY DEF Diarising
  <1>1. s.start \in Nat /\ s.end \in Nat /\ s.start < s.end /\ s.speaker \in speakers
    BY DEF Segment
  <1>2. CASE s.speaker = None \/ ~x.ok
    BY <1>2 DEF TakeWindows, Took
  <1>3. CASE ~(s.speaker = None \/ ~x.ok) /\ WindowsOf(s, x.windows) = {}
    <2>1. y = [x EXCEPT !.ok = FALSE]
      BY <1>3 DEF TakeWindows
    <2>2. y.seen = x.seen /\ y \in Diarising(speakers)
      BY <2>1 DEF Diarising
    <2> QED BY <2>2 DEF Took
  <1>4. CASE ~(s.speaker = None \/ ~x.ok) /\ WindowsOf(s, x.windows) # {}
    <2> DEFINE n == CHOOSE k \in WindowsOf(s, x.windows) : TRUE
               more == WindowRows(Len(x.seen), s, x.windows, n)
    <2>1. n \in WindowsOf(s, x.windows)
      BY <1>4
    <2>2. y = [ok |-> TRUE, windows |-> SubSeq(x.windows, n + 1, Len(x.windows)),
               seen |-> x.seen \o more]
      BY <1>4 DEF TakeWindows, WindowRows, Begins, Ends
    <2> HIDE DEF n
    <2>3. n \in 1..Len(x.windows) /\ n \in Nat /\ Len(x.windows) \in Nat
      BY <1>0, <1>1, <2>1, WindowBounds DEF Lengths
    <2>4. ASSUME NEW i \in 1..n
          PROVE  more[i] \in Window(speakers)
      <3>1. Begins(s, x.windows, i) \in Nat /\ Ends(s, x.windows, n, i) \in Nat
        BY <1>0, <1>1, <2>1, WindowBounds
      <3>2. Len(x.seen) + i \in Nat
        BY <1>0, <2>3
      <3> QED BY <1>1, <3>1, <3>2 DEF Window, WindowRows
    <2>5. more \in Seq(Window(speakers))
      <3>1. more \in [1..n -> Window(speakers)]
        BY <2>4 DEF WindowRows
      <3> HIDE DEF more
      <3> QED BY <2>3, <3>1
    <2>6. SubSeq(x.windows, n + 1, Len(x.windows)) \in Lengths
      BY <1>0, <2>3 DEF Lengths
    <2>7. x.seen \o more \in Seq(Window(speakers))
      <3> HIDE DEF more
      <3> QED BY <1>0, <2>5
    <2>8. y.seen = x.seen \o more
      <3> HIDE DEF more
      <3> QED BY <2>2
    <2>9. y \in Diarising(speakers)
      <3> HIDE DEF more
      <3> QED BY <2>2, <2>6, <2>7 DEF Diarising
    <2> HIDE DEF more
    <2>10. \E k \in WindowsOf(s, x.windows) :
             y.seen = x.seen \o WindowRows(Len(x.seen), s, x.windows, k)
      BY <2>1, <2>8 DEF more
    <2> QED BY <2>9, <2>10 DEF Took
  <1> QED BY <1>2, <1>3, <1>4

LEMMA HeardStep ==
  ASSUME NEW speakers, NEW segs, NEW i \in Nat, NEW x, Heard(x, segs, i, speakers),
         Segment(segs[i + 1], speakers),
         \A j \in 1..i : segs[j].end \in Nat /\ segs[j].end <= segs[i + 1].start
  PROVE  Heard(TakeWindows(x, segs[i + 1]), segs, i + 1, speakers)
  <1> DEFINE s == segs[i + 1]
             y == TakeWindows(x, s)
  <1>1. x \in Diarising(speakers) /\ x.seen \in Seq(Window(speakers)) /\ x.windows \in Lengths
    BY DEF Heard, Diarising
  <1>2. s.start \in Nat /\ s.end \in Nat /\ s.start < s.end
    BY DEF Segment
  <1>3. y \in Diarising(speakers) /\ Took(x, s, y)
    <2>1. Segment(s, speakers) /\ y = TakeWindows(x, s)
      OBVIOUS
    <2> HIDE DEF s, y
    <2> QED BY <1>1, <2>1, TakingWindows
  <1>4. \A k \in DOMAIN x.seen : /\ x.seen[k].key = k /\ x.seen[k].start < x.seen[k].end
                                 /\ \E j \in 1..(i + 1) : x.seen[k].end <= segs[j].end
    <2>1. 1..i \subseteq 1..(i + 1)
      OBVIOUS
    <2> QED BY <2>1 DEF Heard
  <1> HIDE DEF y
  <1>5. CASE y.seen = x.seen
    <2>1. Heard(y, segs, i + 1, speakers)
      BY <1>3, <1>4, <1>5 DEF Heard
    <2> QED BY <2>1 DEF y, s
  <1>6. ASSUME NEW n \in WindowsOf(s, x.windows),
               y.seen = x.seen \o WindowRows(Len(x.seen), s, x.windows, n)
        PROVE  Heard(y, segs, i + 1, speakers)
    <2> DEFINE w == x.windows
               m == Len(x.seen)
               more == WindowRows(m, s, w, n)
    <2>1. /\ n \in 1..Len(w)
          /\ \A k \in 1..n : /\ Begins(s, w, k) \in Nat /\ Ends(s, w, n, k) \in Nat
                             /\ s.start <= Begins(s, w, k) /\ Ends(s, w, n, k) <= s.end
                             /\ Begins(s, w, k) < Ends(s, w, n, k)
          /\ \A k, l \in 1..n : k < l => Ends(s, w, n, k) <= Begins(s, w, l)
      BY <1>1, <1>2, WindowBounds
    <2>2. n \in Nat /\ m \in Nat
      BY <1>1, <2>1 DEF Lengths
    <2>3. \A k \in 1..n : /\ more[k].key = m + k /\ more[k].start = Begins(s, w, k)
                          /\ more[k].end = Ends(s, w, n, k)
      BY DEF WindowRows
    <2>4. y.seen = x.seen \o more /\ DOMAIN more = 1..n /\ Len(more) = n
          /\ more \in Seq(Range(more))
      <3>1. y.seen = x.seen \o more
        BY <1>6
      <3>2. more \in [1..n -> Range(more)]
        BY DEF WindowRows, Range
      <3> HIDE DEF more
      <3>3. more \in Seq(Range(more))
        BY <2>2, <3>2
      <3> QED BY <2>2, <3>1, <3>2, <3>3
    <2> HIDE DEF more, s, w, m
    <2>5. /\ DOMAIN y.seen = 1..(m + n)
          /\ \A k \in 1..m : y.seen[k] = x.seen[k]
          /\ \A k \in (m + 1)..(m + n) : k - m \in 1..n /\ y.seen[k] = more[k - m]
      <3>1. m = Len(x.seen)
        BY DEF m
      <3> QED BY <1>1, <2>2, <2>4, <3>1
    <2>6. DOMAIN x.seen = 1..m /\ \A k \in 1..m : x.seen[k].end \in Nat /\ x.seen[k].start \in Nat
      <3>1. DOMAIN x.seen = 1..m
        BY <1>1 DEF m
      <3>2. ASSUME NEW k \in 1..m
            PROVE  x.seen[k].end \in Nat /\ x.seen[k].start \in Nat
        <4>1. x.seen[k] \in Window(speakers)
          BY <1>1, <2>2, <3>1
        <4> QED BY <4>1 DEF Window
      <3> QED BY <3>1, <3>2
    <2>7. ASSUME NEW k \in DOMAIN y.seen
          PROVE  /\ y.seen[k].key = k /\ y.seen[k].start < y.seen[k].end
                 /\ \E j \in 1..(i + 1) : y.seen[k].end <= segs[j].end
      <3>1. CASE k \in 1..m
        BY <1>4, <2>5, <2>6, <3>1
      <3>2. CASE k \in (m + 1)..(m + n)
        <4>1. k - m \in 1..n /\ y.seen[k] = more[k - m] /\ m + (k - m) = k
          BY <2>2, <2>5, <3>2
        <4>2. y.seen[k].end <= s.end /\ i + 1 \in 1..(i + 1)
          BY <2>1, <2>3, <4>1
        <4>3. y.seen[k].end <= segs[i + 1].end
          BY <4>2 DEF s
        <4> QED BY <2>1, <2>3, <4>1, <4>2, <4>3
      <3> QED BY <2>2, <2>5, <3>1, <3>2
    <2>8. ASSUME NEW k \in 1..m
          PROVE  x.seen[k].end <= s.start
      <3>1. PICK j \in 1..i : x.seen[k].end <= segs[j].end
        BY <2>6 DEF Heard
      <3>2. segs[j].end <= s.start /\ segs[j].end \in Nat
        BY DEF s
      <3> QED BY <1>2, <2>6, <3>1, <3>2 DEF s
    <2>9. ASSUME NEW k \in DOMAIN y.seen, NEW l \in DOMAIN y.seen, k < l
          PROVE  y.seen[k].end <= y.seen[l].start
      <3>1. CASE l \in 1..m
        <4>1. k \in 1..m
          BY <2>2, <2>5, <2>9, <3>1
        <4> QED BY <2>5, <2>6, <2>9, <3>1, <4>1 DEF Heard
      <3>2. CASE k \in 1..m /\ l \in (m + 1)..(m + n)
        <4>1. y.seen[k].end = x.seen[k].end /\ x.seen[k].end <= s.start /\ x.seen[k].end \in Nat
          BY <2>5, <2>6, <2>8, <3>2
        <4>2. l - m \in 1..n /\ y.seen[l].start = Begins(s, w, l - m)
          BY <2>3, <2>5, <3>2
        <4>3. s.start <= Begins(s, w, l - m) /\ Begins(s, w, l - m) \in Nat
          BY <2>1, <4>2
        <4>4. s.start \in Nat
          BY <1>2 DEF s
        <4> QED BY <4>1, <4>2, <4>3, <4>4
      <3>3. CASE k \in (m + 1)..(m + n) /\ l \in (m + 1)..(m + n)
        <4>1. k - m \in 1..n /\ l - m \in 1..n /\ k - m < l - m
          BY <2>2, <2>5, <2>9, <3>3
        <4>2. y.seen[k].end = Ends(s, w, n, k - m) /\ y.seen[l].start = Begins(s, w, l - m)
          BY <2>3, <2>5, <3>3
        <4> QED BY <2>1, <4>1, <4>2
      <3>4. k \in 1..m \/ k \in (m + 1)..(m + n)
        BY <2>2, <2>5
      <3>5. l \in 1..m \/ l \in (m + 1)..(m + n)
        BY <2>2, <2>5
      <3> QED BY <3>1, <3>2, <3>3, <3>4, <3>5
    <2> QED BY <1>3, <2>7, <2>9 DEF Heard
  <1>7. Heard(y, segs, i + 1, speakers)
    <2>1. CASE y.seen = x.seen
      BY <1>5, <2>1 DEF y, s
    <2>2. CASE \E n \in WindowsOf(s, x.windows) :
                 y.seen = x.seen \o WindowRows(Len(x.seen), s, x.windows, n)
      <3>1. PICK n \in WindowsOf(s, x.windows) :
              y.seen = x.seen \o WindowRows(Len(x.seen), s, x.windows, n)
        BY <2>2
      <3> HIDE DEF s
      <3> QED BY <1>6, <3>1
    <2> QED BY <1>3, <2>1, <2>2 DEF Took
  <1> QED BY <1>7 DEF y, s

\* What a recording's diarisation heard: numbered windows that follow each other.
HeardAll(seen, speakers) ==
  /\ seen \in Seq(Window(speakers))
  /\ \A k \in DOMAIN seen : seen[k].key = k /\ seen[k].start < seen[k].end
  /\ \A k, l \in DOMAIN seen : k < l => seen[k].end <= seen[l].start

LEMMA VoicesHeard ==
  ASSUME NEW f, IsVoiceFootage(f)
  PROVE  \E speakers : HeardAll(Diarise(f).seen, speakers)
  <1> DEFINE segs == f.segments
             n == Len(segs)
             speakers == {s.speaker : s \in Range(segs)}
             base == [ok |-> TRUE, windows |-> f.windows, seen |-> <<>>]
  <1>1. /\ segs \in Seq(Range(segs)) /\ f.windows \in Lengths
        /\ \A i \in DOMAIN segs :
             /\ segs[i].start \in Nat /\ segs[i].end \in Nat /\ segs[i].start < segs[i].end
             /\ \A k \in DOMAIN segs : i < k => segs[i].end <= segs[k].start
    BY DEF IsVoiceFootage, Lengths
  <1>2. n \in Nat /\ DOMAIN segs = 1..n
    BY <1>1
  <1>3. \A i \in 1..n : Segment(segs[i], speakers)
    <2> TAKE i \in 1..n
    <2>1. segs[i].speaker \in speakers
      BY <1>2 DEF Range
    <2> HIDE DEF segs, speakers
    <2> QED BY <1>1, <1>2, <2>1 DEF Segment
  <1>4. Diarise(f) = WindowAll(base, segs)
    BY DEF Diarise, WindowAll
  <1>5. base \in Diarising(speakers) /\ base.seen = <<>>
    <2>1. <<>> \in Seq(Window(speakers)) /\ TRUE \in BOOLEAN
      OBVIOUS
    <2> HIDE DEF speakers
    <2> QED BY <1>1, <2>1 DEF Diarising
  <1> HIDE DEF segs, speakers, base, n
  <1>6. Heard(base, segs, 0, speakers)
    <2>1. DOMAIN base.seen = {}
      BY <1>5
    <2> QED BY <1>5, <2>1 DEF Heard
  <1>7. PICK h : WindowRun(Diarising(speakers), base, n, segs, h)
    <2>1. \A y \in Diarising(speakers) : \A i \in 1..n :
            TakeWindows(y, segs[i]) \in Diarising(speakers)
      BY <1>3, TakingWindows
    <2>2. WindowClosed(Diarising(speakers), n, segs)
      BY <1>2, <2>1 DEF WindowClosed
    <2> QED BY <1>2, <1>5, <2>2, WindowFolds
  <1> DEFINE S == {i \in 0..n : Heard(h[i], segs, i, speakers)}
  <1>8. 0 \in S
    BY <1>2, <1>6, <1>7 DEF WindowRun
  <1>9. ASSUME NEW i \in 0..(n - 1), i \in S
        PROVE  i + 1 \in S
    <2>1. /\ i \in Nat /\ i + 1 \in 1..n /\ i + 1 \in 0..n /\ (i + 1) - 1 = i
          /\ Heard(h[i], segs, i, speakers)
      BY <1>2, <1>9
    <2>2. h[i + 1] = TakeWindows(h[i], segs[i + 1])
      BY <1>7, <2>1 DEF WindowRun
    <2>3. \A j \in 1..i : segs[j].end \in Nat /\ segs[j].end <= segs[i + 1].start
      <3> TAKE j \in 1..i
      <3>1. j \in 1..n /\ j < i + 1
        BY <1>2, <2>1
      <3> QED BY <1>1, <1>2, <2>1, <3>1
    <2>4. Segment(segs[i + 1], speakers)
      BY <1>3, <2>1
    <2>5. Heard(h[i + 1], segs, i + 1, speakers)
      BY <2>1, <2>2, <2>3, <2>4, HeardStep
    <2> QED BY <2>1, <2>5
  <1> HIDE DEF S
  <1>10. \A i \in 0..n : i \in S
    BY <1>2, <1>8, <1>9, UpTo
  <1>11. Heard(h[n], segs, n, speakers) /\ h[n] = Diarise(f)
    BY <1>2, <1>4, <1>7, <1>10 DEF S, WindowRun
  <1>12. HeardAll(Diarise(f).seen, speakers)
    BY <1>11 DEF Heard, HeardAll, Diarising
  <1> QED BY <1>12

\* A batch of voices: a track per speaker, with all that the speaker said.
LEMMA SpeakerRow ==
  ASSUME NEW speakers, NEW seen, HeardAll(seen, speakers), NEW S, S = Range(seen),
         NEW who, \E o \in S : o.speaker = who,
         NEW said, said = {o \in S : o.speaker = who}
  PROVE  /\ IsFiniteSet({o.key : o \in said})
         /\ Cardinality({o.key : o \in said}) = Cardinality(said)
         /\ Cardinality(said) > 0
  <1> DEFINE K == {o.key : o \in said}
             g == [k \in K |-> seen[k]]
  <1>1. /\ seen \in Seq(Window(speakers)) /\ Len(seen) \in Nat /\ DOMAIN seen = 1..Len(seen)
        /\ \A k \in DOMAIN seen : seen[k].key = k
    BY DEF HeardAll
  <1>2. \A o \in said : o.key \in DOMAIN seen /\ o = seen[o.key]
    BY <1>1 DEF Range
  <1>3. K \in SUBSET (1..Len(seen))
    BY <1>1, <1>2
  <1>4. IsFiniteSet(K)
    <2>1. IsFiniteSet(1..Len(seen))
      BY <1>1, FS_Interval
    <2> HIDE DEF K
    <2> QED BY <1>3, <2>1, FS_Subset, Zenon
  <1>5. \A k \in K : seen[k] \in said /\ seen[k].key = k
    BY <1>2
  <1>6. g \in Bijection(K, said)
    <2>1. g \in [K -> said]
      BY <1>5
    <2>2. \A k, l \in K : g[k] = g[l] => k = l
      BY <1>5
    <2>3. \A o \in said : \E k \in K : g[k] = o
      <3> TAKE o \in said
      <3>1. o.key \in K /\ seen[o.key] = o
        BY <1>2
      <3> QED BY <3>1
    <2> HIDE DEF g, K
    <2> QED BY <2>1, <2>2, <2>3 DEF Bijection, Injection, Surjection, IsInjective
  <1>7. IsFiniteSet(said) /\ Cardinality(said) = Cardinality(K)
    <2> HIDE DEF g, K
    <2>1. ExistsBijection(K, said)
      BY <1>6 DEF ExistsBijection
    <2> QED BY <1>4, <2>1, FS_Bijection
  <1>8. Cardinality(said) > 0
    <2>1. said # {}
      OBVIOUS
    <2>2. Cardinality(said) \in Nat /\ Cardinality(said) # 0
      BY <1>7, <2>1, FS_EmptySet, FS_CardinalityType
    <2> QED BY <2>2
  <1> QED BY <1>4, <1>7, <1>8

LEMMA VoiceBatchHolds ==
  ASSUME NEW f, IsVoiceFootage(f), VoiceBatch(f).valid
  PROVE  LET b == VoiceBatch(f)
         IN BatchHolds("voices", b.observations, b.tracks, b.links) /\ SceneLinksHold(b, {})
  <1> DEFINE e == Diarise(f)
             S == Range(e.seen)
             trk == VoiceTracks(e)
             lnk == VoiceLinks(e)
             b == VoiceBatch(f)
             Said(who) == {o \in S : o.speaker = who}
  <1>1. b.observations = S /\ b.tracks = trk /\ b.links = lnk /\ b.sceneLinks = {}
    BY DEF VoiceBatch, VoiceObservations
  <1>2. PICK speakers : HeardAll(e.seen, speakers)
    BY VoicesHeard
  <1>3. /\ \A r \in trk : \E o \in S : r.key = o.speaker /\ r.count = Cardinality(Said(o.speaker))
        /\ \A o \in S : \E r \in trk : r.key = o.speaker
    <2> DEFINE Row(s) == [key |-> s, count |-> Cardinality(SaidBy(e, s)),
                          start |-> Min({o.start : o \in SaidBy(e, s)}),
                          end |-> Max({o.end : o \in SaidBy(e, s)})]
    <2>1. trk = {Row(s) : s \in {o.speaker : o \in S}}
      BY DEF VoiceTracks, VoiceObservations
    <2>2. \A who : SaidBy(e, who) = Said(who)
      BY DEF SaidBy, VoiceObservations
    <2>3. \A who : Row(who).key = who /\ Row(who).count = Cardinality(Said(who))
      <3> HIDE DEF Said
      <3> QED BY <2>2
    <2> HIDE DEF Row, trk, S, Said
    <2>4. \A r \in trk : \E o \in S : r = Row(o.speaker)
      BY <2>1
    <2>5. \A o \in S : Row(o.speaker) \in trk
      BY <2>1
    <2> QED BY <2>3, <2>4, <2>5
  <1>4. \A l : l \in lnk <=> \E o \in S : l = <<o.speaker, o.key>>
    BY DEF VoiceLinks, VoiceObservations
  <1>5. /\ \A o \in S : /\ o.key \in DOMAIN e.seen /\ e.seen[o.key] = o /\ o.key \in Nat
                        /\ o.start < o.end
        /\ \A o, p \in S : o.key = p.key => o = p
        /\ \A o, p \in S : o.key < p.key => o.end <= p.start
    <2>1. /\ e.seen \in Seq(Window(speakers))
          /\ \A k \in DOMAIN e.seen : e.seen[k].key = k /\ e.seen[k].start < e.seen[k].end
          /\ \A k, l \in DOMAIN e.seen : k < l => e.seen[k].end <= e.seen[l].start
      BY <1>2 DEF HeardAll
    <2> HIDE DEF e
    <2>2. \A o \in S : \E k \in DOMAIN e.seen : k \in Nat /\ o = e.seen[k] /\ o.key = k
      BY <2>1 DEF Range
    <2>3. \A o \in S : o.key \in DOMAIN e.seen /\ e.seen[o.key] = o /\ o.key \in Nat
      BY <2>2
    <2> HIDE DEF S
    <2> QED BY <2>1, <2>3
  <1> HIDE DEF e, trk, lnk, b
  <1>6. ASSUME NEW who
        PROVE  MembersIn(lnk, who) = {o.key : o \in Said(who)}
    <2>1. \A m \in MembersIn(lnk, who) : \E o \in Said(who) : o.key = m
      <3> TAKE m \in MembersIn(lnk, who)
      <3>1. PICK l \in lnk : l[1] = who /\ l[2] = m
        BY DEF MembersIn
      <3>2. PICK o \in S : l = <<o.speaker, o.key>>
        BY <1>4, <3>1
      <3> QED BY <3>1, <3>2
    <2>2. \A o \in Said(who) : o.key \in MembersIn(lnk, who)
      <3> TAKE o \in Said(who)
      <3> DEFINE l == <<o.speaker, o.key>>
      <3>1. l \in lnk /\ l[1] = who /\ l[2] = o.key
        BY <1>4
      <3> HIDE DEF l, S
      <3> QED BY <3>1 DEF MembersIn
    <2> QED BY <2>1, <2>2
  <1>7. ASSUME NEW l \in lnk
        PROVE  l = <<l[1], l[2]>> /\ (\E o \in S : o.key = l[2]) /\ \E r \in trk : r.key = l[1]
    <2>1. PICK o \in S : l = <<o.speaker, o.key>>
      BY <1>4
    <2> QED BY <1>3, <2>1
  <1>8. ASSUME NEW r \in trk
        PROVE  /\ IsFiniteSet(MembersIn(lnk, r.key))
               /\ Cardinality(MembersIn(lnk, r.key)) = r.count /\ r.count > 0
    <2>1. PICK o \in S : r.key = o.speaker /\ r.count = Cardinality(Said(o.speaker))
      BY <1>3
    <2>2. \E p \in S : p.speaker = o.speaker
      BY <2>1
    <2> DEFINE said == Said(o.speaker)
    <2>3. /\ IsFiniteSet({p.key : p \in said})
          /\ Cardinality({p.key : p \in said}) = Cardinality(said) /\ Cardinality(said) > 0
      BY <1>2, <2>2, SpeakerRow
    <2>4. MembersIn(lnk, r.key) = {p.key : p \in said}
      BY <1>6, <2>1
    <2> HIDE DEF said
    <2>5. r.count = Cardinality(said)
      BY <2>1 DEF said
    <2> QED BY <2>3, <2>4, <2>5
  <1>9. ASSUME NEW o \in S
        PROVE  \E k : {l \in lnk : l[2] = o.key} = {<<k, o.key>>}
    <2> DEFINE l == <<o.speaker, o.key>>
    <2>1. l \in lnk /\ l[2] = o.key
      BY <1>4
    <2>2. \A q \in lnk : q[2] = o.key => q = l
      <3> TAKE q \in lnk
      <3> HAVE q[2] = o.key
      <3>1. PICK p \in S : q = <<p.speaker, p.key>>
        BY <1>4
      <3>2. p = o
        BY <1>5, <3>1
      <3> QED BY <3>1, <3>2
    <2>3. {q \in lnk : q[2] = o.key} = {l}
      <3> HIDE DEF l
      <3> QED BY <2>1, <2>2
    <2> QED BY <2>3
  <1>10. VoicesHold(S, trk, lnk)
    <2>1. \A t \in trk : MembersIn(lnk, t.key) = {o.key : o \in {o \in S : o.speaker = t.key}}
      BY <1>6
    <2> HIDE DEF S
    <2> QED BY <1>5, <2>1 DEF VoicesHold
  <1>11. BatchHolds("voices", S, trk, lnk)
    BY <1>7, <1>8, <1>9, <1>10 DEF BatchHolds
  <1>12. SceneLinksHold(b, {})
    BY <1>1 DEF SceneLinksHold
  <1> QED BY <1>1, <1>11, <1>12 DEF b

---------------------------------------------------------------------------
(* The tables.                                                             *)

LinksOf(run) == {<<l.track, l.observation>> : l \in {l \in links : l.run = run}}
RunHolds(run) ==
  BatchHolds(run.detector, RowsOf(observations, run), RowsOf(tracks, run), LinksOf(run))

\* Rows belong to runs, and the rows of a run are a batch.
RowsHold ==
  /\ \A x \in observations \cup tracks \cup links : x.run \in runs /\ x.run.detector \in Tracking
  /\ \A l \in links :
       l = [run |-> l.run, track |-> l.track, observation |-> l.observation]
  /\ \A run \in runs : run.detector \in Tracking => RunHolds(run)

\* A scene run is all the scenes of its bytes.
WholeRuns(all) == \A s \in all : RowsOf(all, s.run) = ScenesOf(s.run.input)

ScenesHold ==
  /\ \A s \in scenes : s = [run |-> s.run, row |-> s.row]
  /\ WholeRuns(scenes)
  /\ \A l \in sceneLinks :
       /\ l.scene \in scenes /\ l.scene.run = RunOf("scenes", l.run.input)
       /\ \E t \in RowsOf(tracks, l.run) : t.key = l.track

MediaHolds == newest \in Nat /\ file \in {None, newest}

\* What an analysis stores is of the bytes it hashed.
AnalysisHeld(j, r) ==
  /\ r.pc \in {"analyze", "compare"} => r.hash # None /\ r.hash \in Nat /\ r.hash <= newest
  /\ r.pc = "compare" => r.of \in Nat /\ r.hash <= r.of /\ r.of <= newest
  /\ r.pc \in {"match", "persist"} => r.of = r.hash
  /\ r.pc \in {"compare", "match", "persist"} => Fits(setting.job[j], r.seen)
  /\ r.pc = "persist" => r.known \subseteq MatchingScenes(r.hash)

Reading == {"observations", "tracks", "links", "sceneLinks", "segments"}

Resolved(t, obs) ==
  /\ Cardinality(t.members) = t.track.row.count
  /\ \A m \in t.members : \E o \in obs : o.run = m.run /\ o.row.key = m.key

ReadWell(r) ==
  /\ r.scenes = scenes
  /\ r.pc = "observations" => r.tracks = {}
  /\ r.pc # "observations" => r.observations = TextRows(observations)
  /\ r.todo \subseteq TextRows(tracks)
  /\ r.pc = "sceneLinks" => r.track \in r.todo /\ r.members = MembersNow(r.track)
  /\ \A t \in r.tracks : Resolved(t, r.observations) /\ t.scenes \subseteq scenes

\* An export has read the tables as they are now, unless one was written since.
ExportHeld(e, r) ==
  /\ r.pc = "idle" => r = Idle
  /\ r.pc \in Reading => setting.job[e] = "export"
  /\ r.pc \in Reading \cup {"done"} => WholeRuns(r.scenes)
  /\ r.pc \in Reading =>
       \A t \in r.tracks : t = [track |-> t.track, members |-> t.members, scenes |-> t.scenes]
  /\ r.pc \in Reading /\ ~r.torn => ReadWell(r)
  /\ r.pc = "done" =>
       /\ ~r.torn => \A t \in r.tracks : Resolved(t, r.observations)
       /\ ~r.torn \/ setting.select => \A t \in r.tracks : t.scenes \subseteq r.scenes

Base == Shaped /\ setting \in Settings /\ MediaHolds
TablesHold == RowsHold /\ ScenesHold
JobsHold == \A j \in Jobs : AnalysisHeld(j, job[j]) /\ ExportHeld(j, job[j])
IInv == Base /\ TablesHold /\ JobsHold

---------------------------------------------------------------------------
(* A transaction replaces the rows of its run.                             *)

LEMMA ReplacedRows ==
  ASSUME NEW table, NEW run, NEW rows, NEW after,
         after = Reconcile(Upsert(table, run, rows), run, rows)
  PROVE  /\ RowsOf(after, run) = rows
         /\ \A u : u # run => RowsOf(after, u) = RowsOf(table, u)
         /\ \A x \in after : x \in table \/ x.run = run
  <1> DEFINE New == {[run |-> run, row |-> o] : o \in rows}
  <1>1. \A x \in New : x.run = run /\ x.row \in rows
    OBVIOUS
  <1>2. \A o \in rows : \E x \in New : x.run = run /\ x.row = o
    <2> TAKE o \in rows
    <2> DEFINE x == [run |-> run, row |-> o]
    <2>1. x \in New /\ x.run = run /\ x.row = o
      OBVIOUS
    <2> HIDE DEF x, New
    <2> QED BY <2>1
  <1> HIDE DEF New
  <1>3. \A x : x \in after <=>
          \/ x \in New
          \/ x \in table /\ x.run # run
    <2>1. after = {x \in Upsert(table, run, rows) :
                     x.run = run => \E o \in rows : o.key = x.row.key}
      BY DEF Reconcile
    <2>2. Upsert(table, run, rows) =
            {x \in table : ~(x.run = run /\ \E o \in rows : o.key = x.row.key)} \cup New
      BY DEF Upsert, New
    <2> QED BY <2>1, <2>2, <1>1
  <1> QED BY <1>1, <1>2, <1>3 DEF RowsOf

\* The facts of a transaction that stores a valid batch.
LEMMA Storing ==
  ASSUME IInv, NEW j \in Jobs, Stores(j)
  PROVE  \E run, batch :
           /\ run.detector \in Tracking /\ run.input = job[j].hash
           /\ BatchHolds(run.detector, batch.observations, batch.tracks, batch.links)
           /\ SceneLinksHold(batch, MatchingScenes(job[j].hash) \cap scenes)
           /\ runs' = runs \cup {run}
           /\ observations' = Reconcile(Upsert(observations, run, batch.observations),
                                        run, batch.observations)
           /\ tracks' = Reconcile(Upsert(tracks, run, batch.tracks), run, batch.tracks)
           /\ links' = {l \in links : l.run # run} \cup
                {[run |-> run, track |-> l[1], observation |-> l[2]] : l \in batch.links}
           /\ sceneLinks' = {l \in sceneLinks : l.run # run} \cup
                {[run |-> run, track |-> l[1], scene |-> l[2]] : l \in batch.sceneLinks}
           /\ scenes' = scenes
  <1> DEFINE d == setting.job[j]
             run == RunOf(d, job[j].hash)
             batch == Batch(j)
  <1>1. d \in Tracking /\ job[j].pc = "persist" /\ Store(j, run, batch)
    BY DEF Stores, PersistFaces, PersistVoices, PersistText, Tracking
  <1>2. run.detector = d /\ run.input = job[j].hash
    BY <1>1 DEF RunOf, Tracking
  <1>3. Fits(d, job[j].seen) /\ job[j].known \subseteq MatchingScenes(job[j].hash) \cap scenes
    BY <1>1 DEF IInv, JobsHold, AnalysisHeld, MatchingScenes
  <1>4. batch.valid
    BY <1>1 DEF Store
  <1>5. /\ BatchHolds(d, batch.observations, batch.tracks, batch.links)
        /\ SceneLinksHold(batch, MatchingScenes(job[j].hash) \cap scenes)
    <2>1. CASE d = "faces"
      <3>1. batch = FaceBatch(job[j].seen) /\ IsFaceFootage(job[j].seen)
        BY <1>3, <2>1 DEF Batch, Fits
      <3> HIDE DEF batch
      <3> QED BY <2>1, <3>1, FaceBatchHolds DEF SceneLinksHold
    <2>2. CASE d = "voices"
      <3>1. batch = VoiceBatch(job[j].seen) /\ IsVoiceFootage(job[j].seen)
        BY <1>3, <2>2 DEF Batch, Fits
      <3> HIDE DEF batch
      <3> QED BY <1>4, <2>2, <3>1, VoiceBatchHolds DEF SceneLinksHold
    <2>3. CASE d = "ocr"
      <3>1. batch = TextBatch(job[j].seen, job[j].known) /\ IsTextFootage(job[j].seen)
        BY <1>3, <2>3 DEF Batch, Fits
      <3> HIDE DEF batch
      <3> QED BY <1>3, <1>4, <2>3, <3>1, TextBatchHolds DEF SceneLinksHold
    <2> QED BY <1>1, <2>1, <2>2, <2>3 DEF Tracking
  <1> HIDE DEF d, run, batch
  <1> QED BY <1>1, <1>2, <1>5, Zenon DEF Store

LEMMA StoreRows ==
  ASSUME IInv, NEW j \in Jobs, Stores(j)
  PROVE  TablesHold'
  <1>1. PICK run, batch :
           /\ run.detector \in Tracking /\ run.input = job[j].hash
           /\ BatchHolds(run.detector, batch.observations, batch.tracks, batch.links)
           /\ SceneLinksHold(batch, MatchingScenes(job[j].hash) \cap scenes)
           /\ runs' = runs \cup {run}
           /\ observations' = Reconcile(Upsert(observations, run, batch.observations),
                                        run, batch.observations)
           /\ tracks' = Reconcile(Upsert(tracks, run, batch.tracks), run, batch.tracks)
           /\ links' = {l \in links : l.run # run} \cup
                {[run |-> run, track |-> l[1], observation |-> l[2]] : l \in batch.links}
           /\ sceneLinks' = {l \in sceneLinks : l.run # run} \cup
                {[run |-> run, track |-> l[1], scene |-> l[2]] : l \in batch.sceneLinks}
           /\ scenes' = scenes
    BY Storing
  <1> DEFINE LinksNow(u) == {<<l.track, l.observation>> : l \in {l \in links' : l.run = u}}
  <1>2. /\ RowsOf(observations', run) = batch.observations
        /\ \A u : u # run => RowsOf(observations', u) = RowsOf(observations, u)
        /\ \A x \in observations' : x \in observations \/ x.run = run
    BY <1>1, ReplacedRows
  <1>3. /\ RowsOf(tracks', run) = batch.tracks
        /\ \A u : u # run => RowsOf(tracks', u) = RowsOf(tracks, u)
        /\ \A x \in tracks' : x \in tracks \/ x.run = run
    BY <1>1, ReplacedRows
  <1>4. \A u : u # run => LinksNow(u) = LinksOf(u)
    BY <1>1 DEF LinksOf
  <1>5. \A l \in links' : l = [run |-> l.run, track |-> l.track, observation |-> l.observation]
    BY <1>1 DEF IInv, TablesHold, RowsHold
  <1>6. LinksNow(run) = batch.links
    <2> DEFINE Row(l) == [run |-> run, track |-> l[1], observation |-> l[2]]
    <2>1. \A l : Row(l).run = run /\ Row(l).track = l[1] /\ Row(l).observation = l[2]
      OBVIOUS
    <2>2. \A k : k \in {l \in links' : l.run = run} <=> \E l \in batch.links : k = Row(l)
      BY <1>1, <2>1
    <2>3. \A l \in batch.links : l = <<l[1], l[2]>>
      BY <1>1 DEF BatchHolds
    <2> HIDE DEF Row
    <2>4. \A k : k \in {l \in links' : l.run = run} => <<k.track, k.observation>> \in batch.links
      BY <2>1, <2>2, <2>3
    <2>5. \A l \in batch.links : \E k \in {m \in links' : m.run = run} :
            l = <<k.track, k.observation>>
      BY <2>1, <2>2, <2>3
    <2> QED BY <2>4, <2>5
  <1>7. RunHolds(run)'
    <2>1. BatchHolds(run.detector, batch.observations, batch.tracks, LinksNow(run))
      BY <1>1, <1>6
    <2> QED BY <1>2, <1>3, <2>1 DEF RunHolds, LinksOf
  <1>8. \A u \in runs : u # run /\ u.detector \in Tracking => RunHolds(u)'
    BY <1>2, <1>3, <1>4 DEF RunHolds, LinksOf, IInv, TablesHold, RowsHold
  <1>9. RowsHold'
    BY <1>1, <1>2, <1>3, <1>5, <1>7, <1>8 DEF IInv, TablesHold, RowsHold
  <1>10. ASSUME NEW l \in sceneLinks'
         PROVE  /\ l.scene \in scenes' /\ l.scene.run = RunOf("scenes", l.run.input)
                /\ \E t \in RowsOf(tracks', l.run) : t.key = l.track
    <2>1. CASE l \in sceneLinks /\ l.run # run
      BY <1>1, <1>3, <2>1 DEF IInv, TablesHold, ScenesHold
    <2>2. CASE l \notin sceneLinks \/ l.run = run
      <3>1. PICK k \in batch.sceneLinks : l = [run |-> run, track |-> k[1], scene |-> k[2]]
        BY <1>1, <2>2
      <3> QED BY <1>1, <1>3, <3>1 DEF SceneLinksHold, MatchingScenes
    <2> QED BY <2>1, <2>2
  <1>11. ScenesHold'
    BY <1>1, <1>10 DEF IInv, TablesHold, ScenesHold
  <1> QED BY <1>9, <1>11 DEF TablesHold

\* A scene run is stored whole, and stays what it was when it is stored again.
LEMMA StoreScenes ==
  ASSUME IInv, NEW j \in Jobs, PersistScenes(j)
  PROVE  TablesHold' /\ scenes \subseteq scenes'
  <1>1. PICK run : run = RunOf(setting.job[j], job[j].hash)
    OBVIOUS
  <1>2. PICK rows : rows = ScenesOf(job[j].of)
    OBVIOUS
  <1>3. /\ job[j].of = run.input /\ run.detector = "scenes"
        /\ runs' = runs \cup {run}
        /\ scenes' = {s \in scenes : ~(s.run = run /\ \E o \in rows : o.index = s.row.index)}
                       \cup {[run |-> run, row |-> o] : o \in rows}
        /\ UNCHANGED <<observations, tracks, links, sceneLinks>>
    <2>1. job[j].of = job[j].hash /\ setting.job[j] \in {"scenes", "exact"}
      BY DEF IInv, JobsHold, AnalysisHeld, PersistScenes
    <2>2. run.input = job[j].hash /\ run.detector = "scenes"
      BY <1>1, <2>1 DEF RunOf
    <2> QED BY <1>1, <1>2, <2>1, <2>2 DEF PersistScenes
  <1>4. \A s \in scenes : s = [run |-> s.run, row |-> s.row]
    BY DEF IInv, TablesHold, ScenesHold
  <1>5. \A s \in scenes : s.run = run => s.row \in rows
    BY <1>2, <1>3 DEF IInv, TablesHold, ScenesHold, WholeRuns, RowsOf
  <1>6. \A s : s \in scenes' <=>
          (s \in scenes /\ s.run # run) \/ s \in {[run |-> run, row |-> o] : o \in rows}
    BY <1>3, <1>5
  <1>7. scenes \subseteq scenes'
    BY <1>4, <1>5, <1>6
  <1>8. \A s \in scenes' : s = [run |-> s.run, row |-> s.row]
    BY <1>4, <1>6
  <1>9. RowsOf(scenes', run) = rows
    <2>1. \A o \in rows : \E s \in scenes' : s.run = run /\ s.row = o
      <3> TAKE o \in rows
      <3> DEFINE s == [run |-> run, row |-> o]
      <3>1. s \in scenes' /\ s.run = run /\ s.row = o
        BY <1>6
      <3> HIDE DEF s
      <3> QED BY <3>1
    <2>2. \A s \in scenes' : s.run = run => s.row \in rows
      BY <1>6
    <2> QED BY <2>1, <2>2 DEF RowsOf
  <1>10. \A u : u # run => RowsOf(scenes', u) = RowsOf(scenes, u)
    BY <1>6 DEF RowsOf
  <1>11. WholeRuns(scenes)'
    <2>1. \A s \in scenes' : s.run # run => s \in scenes
      BY <1>6
    <2> QED BY <1>2, <1>3, <1>9, <1>10, <2>1 DEF WholeRuns, IInv, TablesHold, ScenesHold
  <1>12. ScenesHold'
    BY <1>3, <1>7, <1>8, <1>11 DEF IInv, TablesHold, ScenesHold
  <1>13. RowsHold'
    BY <1>3 DEF IInv, TablesHold, RowsHold, RunHolds, LinksOf, Tracking
  <1> QED BY <1>7, <1>12, <1>13 DEF TablesHold

LEMMA CommitTables ==
  ASSUME IInv, NEW j \in Jobs, Commits(j)
  PROVE  TablesHold' /\ scenes \subseteq scenes'
  BY StoreRows, StoreScenes, Storing DEF Commits

---------------------------------------------------------------------------
(* What jobs hold, through their own steps and the others'.                *)

Held(j, r) == AnalysisHeld(j, r) /\ ExportHeld(j, r)

LEMMA EndedHeld ==
  ASSUME NEW j, NEW result \in {"reused", "failed", "done"}
  PROVE  Held(j, Ended(result))
  BY EndedFields DEF Held, AnalysisHeld, ExportHeld, Reading, WholeRuns

LEMMA Keeps ==
  ASSUME NEW r, NEW q, NEW S, Same(r, q, S), NEW f \in Fields, f \notin S
  PROVE  q[f] = r[f]
  BY DEF Same

LEMMA PreparedHeld ==
  ASSUME MediaHolds, NEW j, NEW r, NEW q, Held(j, r), Prepared(j, r, q)
  PROVE  Held(j, q)
  <1>1. CASE \E result \in {"reused", "failed"} : q = Ended(result)
    BY <1>1, EndedHeld
  <1>2. CASE ~ \E result \in {"reused", "failed"} : q = Ended(result)
    <2>1. ExportHeld(j, q)
      <3>1. q.pc \in {"analyze", "compare", "match", "persist", "fetch", "store"}
        BY <1>2 DEF Prepared
      <3> QED BY <3>1 DEF ExportHeld, Reading
    <2>2. CASE r.pc = "idle" /\ q.pc = "analyze"
      <3>1. file # None /\ q.hash = file
        BY <1>2, <2>2 DEF Prepared
      <3> QED BY <2>1, <2>2, <3>1 DEF AnalysisHeld, MediaHolds, Held
    <2>3. CASE r.pc = "analyze" /\ q.pc = "compare"
      <3>1. /\ file # None /\ q.of = file /\ Fits(setting.job[j], q.seen)
            /\ Same(r, q, {"pc", "of", "seen"})
        BY <1>2, <2>3 DEF Prepared
      <3>2. q.hash = r.hash
        BY <3>1 DEF Same, Fields
      <3> QED BY <2>1, <2>3, <3>1, <3>2 DEF AnalysisHeld, MediaHolds, Held
    <2>4. CASE r.pc = "compare" /\ q.pc = "match"
      <3>1. file = r.hash /\ Same(r, q, {"pc"})
        BY <1>2, <2>4 DEF Prepared
      <3>2. q.hash = r.hash /\ q.of = r.of /\ q.seen = r.seen
        BY <3>1 DEF Same, Fields
      <3> QED BY <2>1, <2>4, <3>1, <3>2 DEF AnalysisHeld, MediaHolds, Held
    <2>5. CASE r.pc = "compare" /\ q.pc = "persist"
      <3>1. file = r.hash /\ q.known = {} /\ Same(r, q, {"pc", "known"})
        BY <1>2, <2>5 DEF Prepared
      <3>2. q.hash = r.hash /\ q.of = r.of /\ q.seen = r.seen
        BY <3>1 DEF Same, Fields
      <3> QED BY <2>1, <2>5, <3>1, <3>2 DEF AnalysisHeld, MediaHolds, Held
    <2>6. CASE r.pc = "match" /\ q.pc = "persist"
      <3>1. q.known = MatchingScenes(r.of) /\ Same(r, q, {"pc", "known"})
        BY <1>2, <2>6 DEF Prepared
      <3>2. q.hash = r.hash /\ q.of = r.of /\ q.seen = r.seen
        BY <3>1 DEF Same, Fields
      <3> QED BY <2>1, <2>6, <3>1, <3>2 DEF AnalysisHeld, Held
    <2>7. CASE q.pc \in {"fetch", "store"}
      BY <2>1, <2>7 DEF AnalysisHeld, Held
    <2> QED BY <1>2, <2>1, <2>2, <2>3, <2>4, <2>5, <2>6, <2>7 DEF Held, Prepared
  <1> QED BY <1>1, <1>2

LEMMA IdleFields ==
  /\ Idle.pc = "idle" /\ ~Idle.torn /\ Idle.observations = {} /\ Idle.todo = {}
  /\ Idle.tracks = {} /\ Idle.scenes = {}
  BY DEF Idle

\* A track of recognised text, as it is read from the tables, resolves in them.
LEMMA TrackResolves ==
  ASSUME TablesHold, NEW t \in TextRows(tracks), NEW u,
         u = [track |-> t, members |-> MembersNow(t), scenes |-> ScenesNow(t)]
  PROVE  Resolved(u, TextRows(observations)) /\ u.scenes \subseteq scenes
  <1>1. u.track = t /\ u.members = MembersNow(t) /\ u.scenes = ScenesNow(t)
    OBVIOUS
  <1>2. t \in tracks /\ t.run \in runs /\ t.run.detector = "ocr" /\ RunHolds(t.run)
    BY DEF TextRows, TablesHold, RowsHold, Tracking
  <1>3. t.row \in RowsOf(tracks, t.run)
    BY <1>2 DEF RowsOf
  <1> DEFINE M == MembersIn(LinksOf(t.run), t.row.key)
             Own == {l \in links : l.run = t.run /\ l.track = t.row.key}
             to == [o \in M |-> [run |-> t.run, key |-> o]]
  <1>4. IsFiniteSet(M) /\ Cardinality(M) = t.row.count
    BY <1>2, <1>3 DEF RunHolds, BatchHolds
  <1>5. M = {l.observation : l \in Own}
    <2>1. \A k : k \in LinksOf(t.run) <=>
            \E l \in links : l.run = t.run /\ k = <<l.track, l.observation>>
      BY DEF LinksOf
    <2>2. \A o : o \in M <=> \E k \in LinksOf(t.run) : k[1] = t.row.key /\ k[2] = o
      BY DEF MembersIn
    <2> HIDE DEF M
    <2>3. \A o \in M : \E l \in Own : o = l.observation
      <3> TAKE o \in M
      <3>1. PICK k \in LinksOf(t.run) : k[1] = t.row.key /\ k[2] = o
        BY <2>2
      <3>2. PICK l \in links : l.run = t.run /\ k = <<l.track, l.observation>>
        BY <2>1
      <3> QED BY <3>1, <3>2
    <2>4. \A l \in Own : l.observation \in M
      <3> TAKE l \in Own
      <3> DEFINE k == <<l.track, l.observation>>
      <3>1. k \in LinksOf(t.run) /\ k[1] = t.row.key /\ k[2] = l.observation
        BY <2>1
      <3> HIDE DEF k
      <3> QED BY <2>2, <3>1
    <2> QED BY <2>3, <2>4
  <1>6. MembersNow(t) = {[run |-> l.run, key |-> l.observation] : l \in Own}
    BY DEF MembersNow
  <1>7. \A m \in MembersNow(t) : \E l \in Own : m.run = t.run /\ m.key = l.observation
    BY <1>6
  <1>8. MembersNow(t) = {to[o] : o \in M}
    BY <1>5, <1>6
  <1>9. to \in Bijection(M, MembersNow(t))
    <2>1. \A o, p \in M : to[o] = to[p] => o = p
      OBVIOUS
    <2>2. to \in [M -> MembersNow(t)] /\ \A m \in MembersNow(t) : \E o \in M : to[o] = m
      BY <1>8
    <2> HIDE DEF to, M
    <2> QED BY <2>1, <2>2 DEF Bijection, Injection, Surjection, IsInjective
  <1>10. Cardinality(MembersNow(t)) = t.row.count
    <2> HIDE DEF to, M
    <2> QED BY <1>4, <1>9, FS_Bijection DEF ExistsBijection
  <1>11. \A l \in Own : \E o \in TextRows(observations) :
           o.run = t.run /\ o.row.key = l.observation
    <2> TAKE l \in Own
    <2>1. <<l.track, l.observation>> \in LinksOf(t.run)
      BY DEF LinksOf
    <2>2. \E o \in RowsOf(observations, t.run) : o.key = l.observation
      BY <1>2, <2>1 DEF RunHolds, BatchHolds
    <2> QED BY <1>2, <2>2 DEF RowsOf, TextRows
  <1>12. ScenesNow(t) \subseteq scenes
    BY DEF ScenesNow, TablesHold, ScenesHold
  <1> HIDE DEF Own
  <1> QED BY <1>1, <1>7, <1>10, <1>11, <1>12 DEF Resolved

LEMMA ExportingHeld ==
  ASSUME TablesHold, NEW e, NEW r, NEW q, Held(e, r), Exporting(e, r, q)
  PROVE  Held(e, q)
  <1>1. CASE q = Ended("failed")
    BY <1>1, EndedHeld
  <1>2. CASE q # Ended("failed")
    <2>0. AnalysisHeld(e, q)
      <3>1. q.pc \in Reading \cup {"done"}
        BY <1>2 DEF Exporting, Reading
      <3> QED BY <3>1 DEF AnalysisHeld, Reading
    <2>1. CASE r.pc = "idle" /\ q.pc = "observations"
      <3>1. /\ setting.job[e] = "export" /\ q.scenes = scenes /\ Same(r, q, {"pc", "scenes"})
            /\ r = Idle
        BY <1>2, <2>1 DEF Exporting, Held, ExportHeld
      <3>2. q.todo = {} /\ q.tracks = {}
        BY <3>1, IdleFields DEF Same, Fields
      <3>3. WholeRuns(q.scenes)
        BY <3>1 DEF TablesHold, ScenesHold
      <3> QED BY <2>0, <2>1, <3>1, <3>2, <3>3 DEF Held, ExportHeld, Reading, ReadWell
    <2>2. CASE r.pc = "observations" /\ q.pc = "tracks"
      <3>1. q.observations = TextRows(observations) /\ Same(r, q, {"pc", "observations"})
        BY <1>2, <2>2 DEF Exporting
      <3>2. /\ q.scenes = r.scenes /\ q.todo = r.todo /\ q.tracks = r.tracks
            /\ q.torn = r.torn
        BY <3>1 DEF Same, Fields
      <3> QED BY <2>0, <2>2, <3>1, <3>2 DEF Held, ExportHeld, Reading, ReadWell
    <2>3. CASE r.pc = "tracks" /\ q.pc = "links"
      <3>1. q.todo = TextRows(tracks) /\ Same(r, q, {"pc", "todo"})
        BY <1>2, <2>3 DEF Exporting
      <3>2. /\ q.scenes = r.scenes /\ q.observations = r.observations /\ q.tracks = r.tracks
            /\ q.torn = r.torn
        BY <3>1 DEF Same, Fields
      <3> QED BY <2>0, <2>3, <3>1, <3>2 DEF Held, ExportHeld, Reading, ReadWell
    <2>4. CASE r.pc = "links" /\ q.pc = "sceneLinks"
      <3>1. /\ q.track \in r.todo /\ q.members = MembersNow(q.track)
            /\ Same(r, q, {"pc", "track", "members"})
        BY <1>2, <2>4 DEF Exporting
      <3>2. /\ q.scenes = r.scenes /\ q.observations = r.observations /\ q.tracks = r.tracks
            /\ q.todo = r.todo /\ q.torn = r.torn
        BY <3>1 DEF Same, Fields
      <3> QED BY <2>0, <2>4, <3>1, <3>2 DEF Held, ExportHeld, Reading, ReadWell
    <2>5. CASE r.pc = "sceneLinks" /\ q.pc = "links"
      <3> DEFINE u == [track |-> r.track, members |-> r.members, scenes |-> ScenesNow(r.track)]
      <3>1. /\ q.todo = r.todo \ {r.track} /\ q.tracks = r.tracks \cup {u}
            /\ Same(r, q, {"pc", "todo", "tracks"})
        BY <1>2, <2>5 DEF Exporting
      <3>2. q.scenes = r.scenes /\ q.observations = r.observations /\ q.torn = r.torn
        BY <3>1 DEF Same, Fields
      <3>3. u = [track |-> u.track, members |-> u.members, scenes |-> u.scenes]
        OBVIOUS
      <3>4. ASSUME ReadWell(r)
            PROVE  Resolved(u, r.observations) /\ u.scenes \subseteq scenes
        <4>1. /\ r.track \in TextRows(tracks) /\ r.members = MembersNow(r.track)
              /\ r.observations = TextRows(observations)
          BY <2>5, <3>4 DEF ReadWell
        <4> QED BY <4>1, TrackResolves
      <3> HIDE DEF u
      <3> QED BY <2>0, <2>5, <3>1, <3>2, <3>3, <3>4 DEF Held, ExportHeld, Reading, ReadWell
    <2>6. CASE r.pc = "links" /\ q.pc = "segments"
      <3>1. Same(r, q, {"pc", "snapshot"})
        BY <1>2, <2>6 DEF Exporting
      <3>2. /\ q.scenes = r.scenes /\ q.observations = r.observations /\ q.tracks = r.tracks
            /\ q.todo = r.todo /\ q.torn = r.torn
        BY <3>1 DEF Same, Fields
      <3> QED BY <2>0, <2>6, <3>2 DEF Held, ExportHeld, Reading, ReadWell
    <2>7. CASE r.pc = "segments" /\ q.pc = "done" /\ ~setting.select /\ Same(r, q, {"pc", "segments"})
      <3>2. /\ q.scenes = r.scenes /\ q.observations = r.observations /\ q.tracks = r.tracks
            /\ q.torn = r.torn
        BY <2>7 DEF Same, Fields
      <3> QED BY <2>0, <2>7, <3>2 DEF Held, ExportHeld, Reading, ReadWell
    <2>8. CASE /\ r.pc = "segments" /\ q.pc = "done"
               /\ \E run : q.scenes = {s \in r.scenes : s.run = run}
               /\ q.tracks = {[t EXCEPT !.scenes = @ \cap q.scenes] : t \in r.tracks}
               /\ Same(r, q, {"pc", "segments", "scenes", "tracks"})
      <3>1. q.observations = r.observations /\ q.torn = r.torn
        BY <2>8 DEF Same, Fields
      <3>2. WholeRuns(q.scenes)
        <4>1. PICK run : q.scenes = {s \in r.scenes : s.run = run}
          BY <2>8
        <4>2. WholeRuns(r.scenes)
          BY <2>8 DEF Held, ExportHeld, Reading
        <4>3. \A s \in q.scenes : RowsOf(q.scenes, s.run) = RowsOf(r.scenes, s.run)
          BY <4>1 DEF RowsOf
        <4> QED BY <4>1, <4>2, <4>3 DEF WholeRuns
      <3>3. ASSUME NEW u \in q.tracks
            PROVE  \E t \in r.tracks : /\ u.track = t.track /\ u.members = t.members
                                       /\ u.scenes \subseteq q.scenes
        <4>1. PICK t \in r.tracks : u = [t EXCEPT !.scenes = @ \cap q.scenes]
          BY <2>8
        <4>2. t = [track |-> t.track, members |-> t.members, scenes |-> t.scenes]
          BY <2>8 DEF Held, ExportHeld, Reading
        <4>3. u.track = t.track /\ u.members = t.members /\ u.scenes = t.scenes \cap q.scenes
          BY <4>1, <4>2
        <4> QED BY <4>3
      <3>4. \A u \in q.tracks : u.scenes \subseteq q.scenes
        BY <3>3
      <3>5. ~q.torn => \A u \in q.tracks : Resolved(u, q.observations)
        <4>1. ~q.torn => \A t \in r.tracks : Resolved(t, q.observations)
          BY <2>8, <3>1 DEF Held, ExportHeld, Reading, ReadWell
        <4> QED BY <3>3, <4>1 DEF Resolved
      <3> QED BY <2>0, <2>8, <3>2, <3>4, <3>5 DEF Held, ExportHeld, Reading
    <2> QED BY <1>2, <2>1, <2>2, <2>3, <2>4, <2>5, <2>6, <2>7, <2>8 DEF Exporting
  <1> QED BY <1>1, <1>2

Others(j) == \A i \in Jobs \ {j} : job'[i] = job[i]

\* A job's step that writes no table.
LEMMA QuietStep ==
  ASSUME IInv, UNCHANGED <<setting, media, tables>>, Shaped',
         NEW j \in Jobs, Others(j), \A r : r = job'[j] => Held(j, r)
  PROVE  IInv'
  <1>1. Base' /\ TablesHold'
    BY DEF IInv, Base, MediaHolds, media, tables, TablesHold, RowsHold, ScenesHold, RunHolds,
           LinksOf
  <1>2. ASSUME NEW i \in Jobs
        PROVE  (AnalysisHeld(i, job[i]) /\ ExportHeld(i, job[i]))'
    <2>1. PICK r : r = job'[i]
      OBVIOUS
    <2>2. Held(i, r)
      BY <2>1 DEF Others, IInv, JobsHold, Held
    <2> QED BY <2>1, <2>2 DEF Held, AnalysisHeld, ExportHeld, ReadWell, MatchingScenes,
                media, tables, MembersNow
  <1> QED BY <1>1, <1>2 DEF IInv, JobsHold

LEMMA MediaStep ==
  ASSUME IInv, Replace \/ Release
  PROVE  IInv'
  <1>1. /\ UNCHANGED <<setting, tables, job>> /\ newest \in Nat
        /\ newest' \in Nat /\ newest <= newest' /\ file' \in {None, newest'}
    BY DEF Replace, Release, IInv, Base, MediaHolds
  <1>2. Base' /\ TablesHold'
    BY <1>1 DEF IInv, Base, MediaHolds, Shaped, tables, TablesHold, RowsHold, ScenesHold,
           RunHolds, LinksOf
  <1>3. ASSUME NEW i \in Jobs
        PROVE  AnalysisHeld(i, job[i])'
    <2>1. AnalysisHeld(i, job[i])
      BY DEF IInv, JobsHold
    <2> QED BY <1>1, <2>1 DEF AnalysisHeld, MatchingScenes, tables
  <1>4. ASSUME NEW i \in Jobs
        PROVE  ExportHeld(i, job[i])'
    <2>1. ExportHeld(i, job[i])
      BY DEF IInv, JobsHold
    <2> QED BY <1>1, <2>1 DEF ExportHeld, ReadWell, tables, MembersNow
  <1> QED BY <1>2, <1>3, <1>4 DEF IInv, JobsHold

LEMMA CommitStep ==
  ASSUME IInv, NEW j \in Jobs, Commits(j), Shaped'
  PROVE  IInv'
  <1>1. /\ job'[j] = Ended("done")
        /\ \A i \in Jobs \ {j} :
             \/ /\ setting.job[i] = "export" /\ Busy(i) /\ job'[i].torn
                /\ Same(job[i], job'[i], {"torn"})
             \/ ~(setting.job[i] = "export" /\ Busy(i)) /\ job'[i] = job[i]
        /\ UNCHANGED <<setting, media>>
    BY Committing DEF IInv, Base
  <1>2. Base' /\ TablesHold' /\ scenes \subseteq scenes'
    BY <1>1, CommitTables DEF IInv, Base, MediaHolds, media
  <1>3. ASSUME NEW i \in Jobs
        PROVE  (AnalysisHeld(i, job[i]) /\ ExportHeld(i, job[i]))'
    <2>1. PICK r : r = job'[i]
      OBVIOUS
    <2>2. CASE i = j
      <3>1. r.pc = "done" /\ r.tracks = {} /\ r.scenes = {}
        BY <1>1, <2>1, <2>2, EndedFields
      <3> QED BY <2>1, <3>1 DEF AnalysisHeld, ExportHeld, Reading, WholeRuns
    <2>3. CASE i # j /\ ~(setting.job[i] = "export" /\ Busy(i))
      <3>1. r = job[i] /\ AnalysisHeld(i, r) /\ ExportHeld(i, r)
        BY <1>1, <2>1, <2>3 DEF IInv, JobsHold
      <3>2. r.pc \notin Reading
        BY <2>3, <3>1 DEF ExportHeld, Reading, Busy
      <3>3. AnalysisHeld(i, job[i])'
        BY <1>1, <1>2, <2>1, <3>1 DEF AnalysisHeld, MatchingScenes, media
      <3>4. ExportHeld(i, job[i])'
        BY <1>1, <2>1, <3>1, <3>2 DEF ExportHeld
      <3> QED BY <3>3, <3>4
    <2>4. CASE i # j /\ setting.job[i] = "export" /\ Busy(i)
      <3>1. PICK q : q = job[i]
        OBVIOUS
      <3>2. AnalysisHeld(i, q) /\ ExportHeld(i, q)
        BY <3>1 DEF IInv, JobsHold
      <3>3. Same(q, r, {"torn"}) /\ r.torn
        BY <1>1, <2>1, <2>4, <3>1
      <3>4. /\ r.pc = q.pc /\ r.hash = q.hash /\ r.of = q.of /\ r.seen = q.seen
            /\ r.known = q.known
        BY <3>3 DEF Same, Fields
      <3>5. r.scenes = q.scenes /\ r.tracks = q.tracks
        BY <3>3 DEF Same, Fields
      <3>6. AnalysisHeld(i, job[i])'
        BY <1>1, <1>2, <2>1, <3>2, <3>4 DEF AnalysisHeld, MatchingScenes, media
      <3>7. ExportHeld(i, job[i])'
        <4>1. r.pc \notin {"idle", "done"}
          BY <2>4, <3>1, <3>4 DEF Busy
        <4> QED BY <1>1, <2>1, <3>2, <3>3, <3>4, <3>5, <4>1 DEF ExportHeld
      <3> QED BY <3>6, <3>7
    <2> QED BY <2>2, <2>3, <2>4
  <1> QED BY <1>2, <1>3 DEF IInv, JobsHold

LEMMA EvidenceStep ==
  ASSUME IInv, [Next]_vars
  PROVE  IInv'
  <1>0. Shaped' /\ Shaped /\ setting \in Settings /\ MediaHolds /\ TablesHold
    BY ShapedStays DEF IInv, Base
  <1>1. CASE Replace \/ Release
    BY <1>1, MediaStep
  <1>2. CASE UNCHANGED vars
    <2>1. UNCHANGED <<setting, media, tables, job>>
      BY <1>2 DEF vars
    <2>2. Base' /\ TablesHold'
      BY <2>1 DEF IInv, Base, MediaHolds, Shaped, media, tables, TablesHold, RowsHold,
             ScenesHold, RunHolds, LinksOf
    <2>3. ASSUME NEW i \in Jobs
          PROVE  (AnalysisHeld(i, job[i]) /\ ExportHeld(i, job[i]))'
      <3>1. AnalysisHeld(i, job[i]) /\ ExportHeld(i, job[i])
        BY DEF IInv, JobsHold
      <3> QED BY <2>1, <3>1 DEF AnalysisHeld, ExportHeld, ReadWell, MatchingScenes, media,
                  tables, MembersNow
    <2> QED BY <2>2, <2>3 DEF IInv, JobsHold
  <1>3. ASSUME NEW j \in Jobs, Prepares(j)
        PROVE  IInv'
    <2>1. Held(j, job[j])
      BY DEF IInv, JobsHold, Held
    <2>2. /\ UNCHANGED <<setting, media, tables>> /\ Others(j)
          /\ \A r : r = job'[j] => Held(j, r)
      BY <1>0, <1>3, <2>1, Preparing, PreparedHeld DEF Rest, Others
    <2> QED BY <1>0, <2>2, QuietStep
  <1>4. ASSUME NEW e \in Jobs, Exports(e)
        PROVE  IInv'
    <2>1. Held(e, job[e])
      BY DEF IInv, JobsHold, Held
    <2>2. /\ UNCHANGED <<setting, media, tables>> /\ Others(e)
          /\ \A r : r = job'[e] => Held(e, r)
      BY <1>0, <1>4, <2>1, ExportReads, ExportingHeld DEF Rest, Others
    <2> QED BY <1>0, <2>2, QuietStep
  <1>5. ASSUME NEW j \in Jobs, Commits(j)
        PROVE  IInv'
    BY <1>0, <1>5, CommitStep
  <1>6. ASSUME NEW j \in Jobs, StoreSnapshot(j)
        PROVE  IInv'
    <2>1. UNCHANGED <<setting, media, tables>> /\ Go(j, Ended("done"))
      BY <1>6 DEF StoreSnapshot
    <2>2. Others(j) /\ job'[j] = Ended("done")
      BY <1>0, <2>1, Goes DEF Others
    <2> QED BY <1>0, <2>1, <2>2, EndedHeld, QuietStep
  <1> QED BY <1>1, <1>2, <1>3, <1>4, <1>5, <1>6, Steps

LEMMA EvidenceInit ==
  ASSUME Init
  PROVE  IInv
  <1>1. Base
    BY IdleShape DEF Init, Base, Shaped, MediaHolds
  <1>2. TablesHold
    BY DEF Init, TablesHold, RowsHold, ScenesHold, WholeRuns
  <1>3. \A j \in Jobs : AnalysisHeld(j, job[j]) /\ ExportHeld(j, job[j])
    BY IdleFields DEF Init, AnalysisHeld, ExportHeld, Reading
  <1> QED BY <1>1, <1>2, <1>3 DEF IInv, JobsHold

---------------------------------------------------------------------------
(* What the invariant gives.                                               *)

LEMMA ExportsHold ==
  ASSUME IInv
  PROVE  ExportsResolve
  <1>1. ASSUME NEW e \in Exported
        PROVE  /\ \A s \in job[e].scenes :
                    RowsOf(job[e].scenes, s.run) = ScenesOf(s.run.input)
               /\ \A t \in job[e].tracks :
                    /\ ~job[e].torn \/ setting.select => t.scenes \subseteq job[e].scenes
                    /\ ~job[e].torn => Resolved(t, job[e].observations)
    <2>1. e \in Jobs /\ job[e].pc = "done" /\ ExportHeld(e, job[e])
      BY DEF Exported, IInv, JobsHold
    <2> QED BY <2>1 DEF ExportHeld, WholeRuns
  <1> QED BY <1>1 DEF ExportsResolve, Resolved

\* A track's members, as links of its run.
LEMMA MembersAre ==
  ASSUME NEW t
  PROVE  MembersOf(t) = MembersIn(LinksOf(t.run), t.row.key)
  <1> DEFINE M == MembersIn(LinksOf(t.run), t.row.key)
             Own == {l \in links : l.run = t.run /\ l.track = t.row.key}
  <1>1. \A k : k \in LinksOf(t.run) <=>
          \E l \in links : l.run = t.run /\ k = <<l.track, l.observation>>
    BY DEF LinksOf
  <1>2. \A o : o \in M <=> \E k \in LinksOf(t.run) : k[1] = t.row.key /\ k[2] = o
    BY DEF MembersIn
  <1> HIDE DEF M
  <1>3. \A o \in M : \E l \in Own : o = l.observation
    <2> TAKE o \in M
    <2>1. PICK k \in LinksOf(t.run) : k[1] = t.row.key /\ k[2] = o
      BY <1>2
    <2>2. PICK l \in links : l.run = t.run /\ k = <<l.track, l.observation>>
      BY <1>1
    <2> QED BY <2>1, <2>2
  <1>4. \A l \in Own : l.observation \in M
    <2> TAKE l \in Own
    <2> DEFINE k == <<l.track, l.observation>>
    <2>1. k \in LinksOf(t.run) /\ k[1] = t.row.key /\ k[2] = l.observation
      BY <1>1
    <2> HIDE DEF k
    <2> QED BY <1>2, <2>1
  <1>5. M = {l.observation : l \in Own}
    BY <1>3, <1>4
  <1> QED BY <1>5 DEF M, MembersOf

LEMMA RowsAreSound ==
  ASSUME IInv
  PROVE  StoredRowsAreSound
  <1>1. RowsHold /\ ScenesHold
    BY DEF IInv, TablesHold
  <1>2. \A x \in observations \cup tracks \cup links :
          x.run \in runs /\ x.run.detector \in Tracking /\ RunHolds(x.run)
    BY <1>1 DEF RowsHold
  <1>3. ASSUME NEW l \in links
        PROVE  /\ \E o \in RowsOf(observations, l.run) : o.key = l.observation
               /\ \E t \in RowsOf(tracks, l.run) : t.key = l.track
    <2> DEFINE k == <<l.track, l.observation>>
    <2>1. k \in LinksOf(l.run) /\ k[1] = l.track /\ k[2] = l.observation
      BY DEF LinksOf
    <2> HIDE DEF k
    <2> QED BY <1>2, <2>1 DEF RunHolds, BatchHolds
  <1>4. ASSUME NEW t \in tracks
        PROVE  /\ Cardinality(MembersOf(t)) = t.row.count /\ t.row.count > 0
               /\ t.run.detector = "faces" => FaceTrackIsSound(t)
    <2>1. t.row \in RowsOf(tracks, t.run)
      BY DEF RowsOf
    <2>2. MembersOf(t) = MembersIn(LinksOf(t.run), t.row.key)
      BY MembersAre
    <2>3. Cardinality(MembersOf(t)) = t.row.count /\ t.row.count > 0
      BY <1>2, <2>1, <2>2 DEF RunHolds, BatchHolds
    <2>4. t.run.detector = "faces" =>
            FaceTrackHolds(t.row, {o \in RowsOf(observations, t.run) : o.key \in MembersOf(t)})
      BY <1>2, <2>1, <2>2 DEF RunHolds, BatchHolds
    <2> QED BY <2>3, <2>4 DEF FaceTrackHolds, FaceTrackIsSound
  <1>5. ASSUME NEW x \in observations, x.run.detector \in {"faces", "voices"}
        PROVE  Cardinality({l \in links : l.run = x.run /\ l.observation = x.row.key}) = 1
    <2>1. x.row \in RowsOf(observations, x.run)
      BY DEF RowsOf
    <2>2. PICK k : {l \in LinksOf(x.run) : l[2] = x.row.key} = {<<k, x.row.key>>}
      BY <1>2, <1>5, <2>1 DEF RunHolds, BatchHolds
    <2> DEFINE Own == {l \in links : l.run = x.run /\ l.observation = x.row.key}
               one == [run |-> x.run, track |-> k, observation |-> x.row.key]
    <2>3. \A l \in Own : l = one
      <3> TAKE l \in Own
      <3> DEFINE p == <<l.track, l.observation>>
      <3>1. p \in LinksOf(x.run) /\ p[2] = x.row.key /\ p[1] = l.track
        BY DEF LinksOf
      <3>2. p[1] = k
        <4> HIDE DEF p
        <4>1. p = <<k, x.row.key>>
          BY <2>2, <3>1
        <4> QED BY <4>1
      <3>3. l = [run |-> l.run, track |-> l.track, observation |-> l.observation]
        BY <1>1 DEF RowsHold
      <3> QED BY <3>1, <3>2, <3>3
    <2>4. Own # {}
      <3>1. <<k, x.row.key>> \in LinksOf(x.run)
        BY <2>2
      <3>2. PICK l \in links : l.run = x.run /\ <<k, x.row.key>> = <<l.track, l.observation>>
        BY <3>1 DEF LinksOf
      <3> QED BY <3>2
    <2>5. Own = {one}
      BY <2>3, <2>4
    <2> HIDE DEF Own, one
    <2>6. Cardinality(Own) = 1
      BY <2>5, FS_Singleton
    <2> QED BY <2>6 DEF Own
  <1>6. ASSUME NEW run \in runs, run.detector = "voices"
        PROVE  VoicesAreSound(run)
    <2>1. VoicesHold(RowsOf(observations, run), RowsOf(tracks, run), LinksOf(run))
      BY <1>1, <1>6 DEF RowsHold, RunHolds, BatchHolds, Tracking
    <2>2. ASSUME NEW t \in tracks, t.run = run
          PROVE  MembersOf(t) =
                   {o.key : o \in {o \in RowsOf(observations, run) : o.speaker = t.row.key}}
      <3>1. t.row \in RowsOf(tracks, run)
        BY <2>2 DEF RowsOf
      <3> QED BY <2>1, <2>2, <3>1, MembersAre DEF VoicesHold
    <2> QED BY <2>1, <2>2 DEF VoicesHold, VoicesAreSound
  <1>7. TracksAreSound
    BY <1>2, <1>3, <1>4, <1>5, <1>6 DEF TracksAreSound
  <1>8. \A s \in scenes : s.row \in ScenesOf(s.run.input)
    BY <1>1 DEF ScenesHold, WholeRuns, RowsOf
  <1>9. LinkedScenesMatch
    BY <1>1, <1>8 DEF ScenesHold, LinkedScenesMatch
  <1> QED BY <1>7, <1>9 DEF StoredRowsAreSound

\* However often a file is analysed again, the rows of a run are those of one analysis,
\* its tracks are what the trackers promise, and text is linked to its own scenes.
THEOREM RowsSound == Spec => []StoredRowsAreSound
  <1>1. Init => IInv
    BY EvidenceInit
  <1>2. IInv /\ [Next]_vars => IInv'
    BY EvidenceStep
  <1>3. IInv => StoredRowsAreSound
    BY RowsAreSound
  <1> QED BY <1>1, <1>2, <1>3, PTL DEF Spec

\* A batch is exported whole: what its tracks name is in it, unless a commit came between.
THEOREM BatchesResolve == Spec => []ExportsResolve
  <1>1. Init => IInv
    BY EvidenceInit
  <1>2. IInv /\ [Next]_vars => IInv'
    BY EvidenceStep
  <1>3. IInv => ExportsResolve
    BY ExportsHold
  <1> QED BY <1>1, <1>2, <1>3, PTL DEF Spec
=============================================================================
