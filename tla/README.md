# Verification of youtube-corpus

youtube-corpus collects YouTube channels, playlists and videos into a Postgres
corpus, transcribes and analyses their media, derives people, identities,
events, translations and an index from them, and serves and exports the
result. Its core is sequential Rust over SQL; what makes it hard is that
several workers, HTTP requests and command-line processes do this at the same
time on the same rows, one statement or transaction at a time, around
downloads, analyses and model calls that take seconds to minutes and may fail
anywhere. This directory holds TLA+ models of those parts, the TLC runs that
check them on small instances, and proofs (TLAPS) about most of them.

`PROJECT.json` lists the components, runs, theorems and hazards, and maps every
definition to the lines it stands for. Paths below are relative to the
repository.

## 1. The system

| Component (source) | State | Operations | Shares with |
|---|---|---|---|
| Discovery frontier (`src/discovery/store.rs`, `types.rs`) | `discovery_targets`, `discovery_evidence` | enqueue (upsert + evidence), claim with a lease, complete, fail, complete unclaimed | any number of workers, processes and ingests |
| Frontier ingest (`src/discovery/ingest.rs`) | none of its own; writes the frontier | record a seed, its items and a video's links, complete them | the frontier |
| Source items, checks (`src/subscriptions.rs`, `src/source_monitor.rs`) | subscriptions, `corpus_subscription_items`, check claims and due times | check a source (scheduler, user, CLI), admit, settle elsewhere, approve, switch policy, recover claims at start | backfill, CLI, users |
| Backfill (`src/backfill.rs`) | `corpus_source_backfills`, `corpus_backfill_items`; in memory the dispatcher's turn | start, list and snapshot, claim, process, refresh, pause / resume / cancel, recover at start | source items |
| Media acquisition (`src/media_acquisition.rs`, `src/media_extracts.rs`) | `videos.media_acquisition`, `local_video_path`, the media directory; advisory locks | ensure, supersede, lease, release, extract | detectors, ingest, workflows, other processes |
| Detector plans (`src/detectors.rs`, `src/detector_status.rs`, `src/workflow.rs`) | `detector_attempts`, `detector_settings`, stage locks | run a plan, run a stage, decide on release, process a video for a workflow | media, ingest, workflows |
| Ingest (`src/ingest/core.rs`) | videos, transcripts, segments | ingest a video, transcribe, replace a stream | sources, media, frontier, derived texts |
| Processing workflows (`src/processing_workflows.rs`) | definitions and versions, overrides, runs; in memory `ACTIVE_RUNS` | save, override, start, execute, mark interrupted | detector plans |
| Visual, voice, face and OCR processing (`src/*_processing.rs`, `src/multimodal.rs`, `src/visual_timeline.rs`, `src/sponsorblock.rs`) | runs, tracks, observations, scenes, links; SponsorBlock snapshots | analyse, compare the input's bytes, replace a run's rows; refresh | media, detectors, evidence exports |
| People of a corpus (`src/face_matching.rs`, `src/voice_matching.rs`, `src/person_names.rs`) | people, clusters, decisions, rejections, face–voice links, names | match faces, match voices, infer names, correct each | tracks, identities |
| Canonical identities (`src/identities.rs`) | `canonical_identities`, links, rejections | resolve, confirm, merge, split, keep apart; lists, profiles, suggestions | people, mentions, events |
| Historical events (`src/events.rs`, `src/event_extraction.rs`) | events, claims, redirects | add, review, prefer, rename, merge, split; extract from a text; timeline | transcripts, identities |
| Derived texts (`src/translation.rs`, `src/entities.rs`, `src/reembed.rs`, `src/reprocessing.rs`, `src/transcript_quality.rs`) | translated segments and runs, entity runs and mentions, vectors, the preferred stream | translate, extract, re-embed, re-segment, refresh quality | transcripts, readers |
| Readers (`src/search.rs`, `src/citations.rs`, `src/search_index.rs`, `src/annotations.rs`, `src/evaluation.rs`, `src/corpus_export.rs`, `src/source_span_export.rs`) | the literal index; judgments, annotations | search, cite, synchronise the index, judge, evaluate, export | derived texts |
| Evidence exports (`src/media_evidence.rs`) | none | read a batch, table after table | processing |
| Web server, CLI, UI, statistics, yt-dlp client | rows of `ingest_runs`; otherwise none | wiring, I/O, formatting | everything |

How they meet: **statements on shared rows** (each commits by itself unless a
transaction is named), **row locks** a transaction takes with its first
statement, **advisory locks** (media lease, release lock, stage locks, one lock
per kind of matching, one for identities), and **process memory** (the
dispatcher's turn, `ACTIVE_RUNS`), which a stop forgets. Workers are woken by
notifications but poll as well, so a lost wake-up only delays.

What is hard, per part, and the properties that make it correct:

- *Frontier*: a worker whose lease expired still reports; targets are found
  again while claimed or completed; direct ingests complete rows that workers
  retry. Correct: a fencing token belongs to one worker, a verdict to one
  granted attempt, a live lease is disturbed by nobody, completed is final, the
  columns summarise the evidence, and the crawl stays within its depth.
- *Sources and backfill*: requests share one status row per video; listings
  break off and come back in another order; users act between a read and its
  write; two sources hold the same video. Correct: no selected video is
  forgotten, none is processed while another worker holds it, indexed stays
  indexed, a pause or cancel stands, review-first holds, everything ends.
- *Checks*: claims are taken over when stale; a check must not take history for
  news. Correct: one check per source; excluded history stays excluded.
- *Media*: several runs acquire, overwrite, read and delete the same files.
  Correct: nothing is deleted under a reader or before it was served, no file
  is leaked, what is no longer needed goes, output names the bytes it came from.
- *Workflow runs*: which runs are alive is known only to memory. Correct: a row
  ends once, ends always, and says what ran.
- *Identities*: a resolution reads in several statements while matching,
  extraction and researchers commit between resolutions and beside them.
  Correct: pairs kept apart stay apart, confirmed links stay, redirects lead to
  a living identity, links follow the evidence, resolving again changes nothing.
- *People*: three kinds of work under three locks change one table of people,
  while new processing runs replace the tracks. Correct: what a researcher
  placed, separated, refused or named stays so.
- *Events*: an extraction replaces unreviewed suggestions while a researcher
  reviews, merges and splits under locks the extraction does not take. Correct:
  reviewed claims stay, an event has one preferred reading, the suggestions
  match the text.
- *Derived texts*: a rewrite keeps a segment's id, so a job that comes back
  writes beside another text. Correct: what is shown as derived from a text is
  derived from that text, and what did not change is not computed again.
- *Readers*: nobody who reads holds a lock. Correct: a hit, a judgment, a
  revision and a citation still say what they said when the rows change between
  two statements.
- *Evidence*: analyses take minutes without a lock. Correct: a run's rows are
  one analysis's, text is linked to scenes of its own bytes, batches resolve.

`PROJECT.json` "hazards" lists these at their lines, with the properties that
cover each and, where a promise holds only under a condition, the condition.

## 2. How the project is arranged

| Part | Modules | Composes with |
|---|---|---|
| Frontier | `FencedTask` (abstract), `DiscoveryFrontier`, `FrontierIngest`; `FrontierProofs` | `FrontierIngest` runs recorders over the frontier; the frontier implements `FencedTask` |
| Sources | `SourceItems` (tables and statements), `SourceBackfill`, `SourceChecks`; `SourceChecksProofs` | checks, dispatcher and users act on the same rows |
| Media | `MediaNeed` (pure), `MediaLifecycle`; `MediaLifecycleProofs` | plans, ingests, extracts and workflows of one video |
| Workflows | `WorkflowRuns`; `CorpusProofs` | requests, tasks and page reads |
| People | `CorpusPeople`, `CorpusProofs`; `CanonicalIdentities`, `CanonicalIdentitiesProofs` | three kinds of work over one table; resolution over what they leave, as changing evidence |
| Events | `HistoricalEvents`; `HistoricalEventsProofs` | extraction and corrections |
| Texts | `DerivedTexts`, `CorpusReaders`; `CorpusReadersProofs` | readers extend the jobs they read beside |
| Evidence | `MediaEvidence`; `MediaEvidenceProofs` | analyses, refreshes and exports |

Each `MC` module instantiates its component; a configuration names the bounds.
Where one component needs several instances, the component takes a constant
`Settings` (what runs, how often, from which state), the initial state chooses
one of them, and `setting` never changes: one run explores all of them.
`CorpusProofs` holds the proofs of two components that share no state, the runs
of workflows and the people; hence the names `PeopleInit`, `PeopleNext` and
`PeopleSpec`.

What remains worth doing, in this order: the refinement of `WorkflowRuns` and
the detector attempts to one abstract run that starts and ends once; discovery
expansion; several videos in `CorpusReaders` (ranking and corpus scopes).

## 3. The modules

Definitions keep the source's names. An operator whose comment begins with
"Mutant" states a plausible defect of the definition after it; no specification
uses it. `PROJECT.json` "mutants" names, for every property of a passing run,
the defect under which TLC finds that property violated.

### FencedTask, DiscoveryFrontier, FrontierIngest

`DiscoveryFrontier` keeps one record per target in functions: `state`,
`attempt` (`attempt_count`), `leased` (the claim has not expired), `depth`,
`priority`, `evidence`; `tx` is an enqueuer's open transaction, `worker` what a
worker believes it holds, `settled` a history of accepted reports.

- Enqueue is two steps (`EnqueueOpen`, `EnqueueCommit` / `EnqueueAbort`): the
  upsert locks the row until the evidence is committed. The state of an existing
  row follows the code's CASE (`StateAfter`); depth and priority are merged by
  minimum and maximum.
- `Claim` takes any unlocked pending row or claimed row with an expired lease
  (`FOR UPDATE SKIP LOCKED`); the order among them is abstracted, so the model
  has every schedule. It increments the attempt. `LeaseExpires` may happen at
  any time.
- `ReportVerdict` is `transition_claimed_target` with its fence (`Owns`):
  workers may be stale and may repeat a report whose reply was lost.
- `CompleteUnclaimed` is a direct ingest's completion.

Scores are hundredths and priorities ten-thousandths, as exact integers.
`FencedTask` is what a caller relies on: offer, grant under a growing token,
return, finish. The refinement (`Abstract` in `DiscoveryFrontier`) maps
pending to waiting, claimed to held, completed to done, everything else to
parked, and the attempt to the token.

`FrontierIngest` adds recorders that run `record_ingest_discoveries` as a
program over the frontier: look the seed up or enqueue it, each item, each
link, each completion, in separate transactions, any of which may fail and end
the recording. It uses the frontier's own actions, so recorders and workers
interleave.

### SourceItems, SourceBackfill, SourceChecks

`SourceItems` declares the tables and the statements several workers use:
`Mark`, `Queue`, `Upsert`, `SettlePending`, `Admission` (`admit_item`),
`Selects` (`select_entries`), `Refresh` (`refresh_state`).

`SourceBackfill` has the server's two loops, the users and the process:

- the discovery worker (`discovery`): list, then read the request's state once,
  then per video look up, record, decide, mark; then count and refresh;
- the dispatcher (`job`, `turn`): claim a new upload or a history video in
  turn, admit, process, settle other sources, refresh;
- users: `ReadForControl` / `WriteControl` / `RefreshResumed`, approvals (the
  row keeps waiting while the ingest runs), `SetPolicy`;
- `DiscoveryFails`, `ProcessingFails`, `DispatcherFails`: a statement fails and
  the worker drops what it was doing; `Stop` and `Start`: the process forgets
  its workers, and `recover_interrupted` requeues running videos.

`SourceChecks` extends it with checks (`check`), their claims (`claimed`) and
due times. Time is abstracted: a source becomes due and claims go stale
(`ClaimsGoStale`) at any moment. A command-line check survives a server stop.

### MediaNeed, MediaLifecycle

`MediaNeed` is the need lattice of `media_acquisition.rs` (nothing, audio,
video of a height), with union and coverage. `MediaLifecycle` is one remote
video and the runs on it: plan runs (`run_video_plan`), ingests with ASR,
extracts, and a workflow's `process_video`, which is a plan run that keeps the
media, an extract cut from it and a last release (`part`). `row` is the videos
row (path and acquisition record with its superseded files), `files` the media
directory, `stored` each stage's outputs with the input they name (`label`) and
the bytes they came from (`actual`), `attempt` and `lock` the newest attempt
and its advisory lock, `run` where each run is and what it has read. A plan run
reads status, takes the lease, decides, ensures media (read the record,
download, write it back: three steps), runs its stages in order, ends its
lease, tries the release lock, removes files and commits the release.
`MatchingFails` is a faces or voices stage that fails after it stored its
tracks. `Crash` stops a run anywhere and drops its locks.

Abstractions: every download yields bytes of its own; the recorded size stands
for the bytes it is compared by; one video; each run starts once; `Overlapping`
= FALSE means runs follow one another; the decision which stages run reads all
outputs in one step; captions and awaiting review are left out; a download's
temporary directory appears only as `DownloadFails`; the transcript is stored
in one step (`CommitTranscript`), as its transaction is.

### WorkflowRuns

One corpus. A definition is the set of stages it runs. `versions`, `disabled`
(overrides), `plan` (the corpus's `detector_settings`), `rows`
(`corpus_workflow_runs`, with the enabled ones of its stages) are the tables;
`active` is `ACTIVE_RUNS`. A `handler` is an HTTP request: `start_run` is
`BeginStart`, `ComposeStages`, `ReadActive`, `MarkInterrupted`, `CheckFree`,
`ApplyPlan`, `InsertRun`, `Activate`, `ReadActive`, `MarkInterrupted`, `Spawn`,
with a step per statement; page reads and override requests share the middle.
A `task` executes a run, video by video under the plan as it then is, stores
the outcome and leaves the active runs. `RequestFails` ends a request anywhere,
by an error or because its client is gone; `StopServer` forgets handlers, tasks
and active runs.

### CorpusPeople

The people of one corpus and who holds which face or voice track (`members`:
a person's clusters are merged into the person), what researchers decided of a
track (`decided`), tracks kept apart (`apart`), links of a face person and a
voice person (`suggested`, `refused`), names (`name`, `rejected`) and the
processing runs that are complete (`reprocessed`; `Newest` says which tracks
are current). `job` is the running transaction of each of the three kinds of
work, with the plan it has made from what it read: `ReadMatches` /
`WriteMatches` for faces and for voices, `ReadNames` / `WriteNames`. Corrections
of a kind wait for its lock and not for the others': unlink, link, split,
confirm; `RefuseLink`, `ConfirmLink` (which merges two people); confirm, reject
and replace a name. A new processing run (`Reprocess`) may complete at any time.

The plans follow the code's order: faces and voices are taken in order, a group
joins a person it fits, who is not decided against; what is left founds people.
Similarity is a relation (`AlikeSets`): the thresholds' arithmetic is not here,
and every score of alike tracks lies within the margin of every other. What is
said and seen (`Says`, `Seen`, `Announces`) is given.

Views: `Occurrences`, `FaceLinks`, `Unresolved`, `MatchReview`, `NameReview`
are the pages' queries.

### CanonicalIdentities

A unit is a mention group of one corpus or an inferred person of one.
`present` and `evidence` are what the corpora say now, and change at any moment
(`UnitAppears`, `UnitVanishes`, `EdgeAppears`, `EdgeVanishes`); `of` and
`confirmed` are the links, `rows`, `type`, `mergedInto` the registry, `apart`
the rejections, `cited` what an event claim names. A resolution holds one
advisory lock through its phases: `ReadGroups`, `ReadPeople`, `ReadEvidence`
(separate statements: what the first saw may be gone), `JoinNext` edge by edge,
`KeepConfirmed`, `ClaimNext` (a component claims the identity most of its units
had, in the order of the unit keys), `WriteLinks` (which may fail on a person
deleted meanwhile, `MissingPerson`), `DeleteOrphans`, `CommitResolution`; it may
fail anywhere. Corrections wait for the lock: `Confirm`, `Merge` (redirects,
moves links and rejections), `Split`, `Reject`, `Unreject`.

Views: `LiveIdentity` follows redirects, `Listed`, `KeptApartFrom`, `Suggested`,
`IdentityProfiles`.

### HistoricalEvents

`label`, `mergedInto` are events, `eventOf`, `keyOf`, `review`, `preferred`
claims, `texts` the suggestions the video's text now gives rise to. A claim is
added in two statements (`ResolveEvent`, `AddClaim`), between which a merge may
commit. A correction takes its events' locks when it starts and holds them
until its write: `Start…`, then `Review`, `Prefer`, `Unprefer`, `Rename`,
`Merge`, `Split`. An extraction is `ReadTexts`, then a transaction: the
`SELECT .. FOR UPDATE` of the suggestions there are (`BeginSelect`,
`ReadExisting`), per suggestion `FindEvent` and `InsertClaim`, and the `DELETE`
of those not made again (`BeginDelete`, `CommitExtraction`), which leaves out
what was reviewed since (`Stale`). Nobody else sees any of it before the commit.
At READ COMMITTED a statement chooses its rows by a snapshot it takes before it
waits for locks: `seen` holds it from `BeginSelect` to `ReadExisting` and from
`BeginDelete` to the commit, so a `SELECT` that waited for another extraction
returns nothing that one inserted (`Returned`). Extractions overlap. `matched`
and `overlapped` are history: whether an undisturbed extraction has met the
present text, and whether the transactions of two were ever open at once.

Views: `Listing`, `Profiles`, `Timeline`.

### DerivedTexts, CorpusReaders

`DerivedTexts` is one video's segments (`text`), whose ids a rewrite keeps
(`Rewrite`, with the cascades it causes), and the jobs that derive from them:
a corpus re-embedding that counts its goal once, a limit taken off
(`BeginReembed`), and walks by id (`SelectBatch`, `WriteBatch`, whose update
matches the text that was read and leaves a row that changed since to its
writer), a video's re-embedding (`ReadVideo`, `WriteVideo`,
which writes by id and compares nothing), a translation run (`RemoveOrphans`,
`ReadExisting`, `TranslateGroup` per group of a language, `RecordOutcome`; groups
fail one by one and the run may stop), entity extractions of the plan stage and
of the corpus job (`ReadSources`, `DeleteRuns`, `InsertRun`, with the unique
constraint that makes a second run fail and the foreign key of a mention), and
`RefreshQuality`, which prefers a stream by its score. `Shown` is what a page
shows as a translation, `TargetStatus` what it says of a language.

`CorpusReaders` extends it with those who read meanwhile, a statement per
action: `Search` (ranking), `AttachTranslation`, `AttachCitation`, or a literal
search; the index (`LoadSnapshot`, then `Rebuild`, which locks, keeps
tombstones and raises revisions; `StopSync`); judgments of spans (`View`, then
`Judge`, which writes by the id that was viewed whatever the text has become)
and turns (`Annotate`), and an evaluation (`ReadTargets`, `ReadPreferred`,
`RankSearch`); a span citation and a corpus batch (`LoadSegments`,
`LoadStreams`, `LoadTurns`), from which revisions, hashes, items and character
ranges are computed. A hash is the thing hashed, so that two are equal just
when what they cover is. A rewrite unlinks judgments and turns
(`RewriteAndUnlink`), or fails on one that names nothing but its segment
(`Pinned`). Assumption: the index's `rebuild`, of the search_engine crate, keeps
deleted documents as tombstones with their revisions, as the comments of
`src/search_index.rs` say.

### MediaEvidence

The rows the analyses of one video store (`runs`, `observations`, `tracks`,
`links`, `scenes`, `sceneLinks`, `snapshots`, `segments`) and jobs of seven
kinds: five detectors, SponsorBlock refreshes and exports. An analysis looks
for a run of its fingerprint and opens its input, in the code's order for each
detector (`LookThenOpen`, `OpenThenLook`, `OpenForScenes`), analyses, compares
the bytes, and stores its batch in one transaction that upserts and then
deletes what the batch does not hold. `TrackFaces` is the face tracker as a
fold over frames (candidates, greedy assignment by score, closing after a gap),
`Diarise` the grouping of voice windows into tracks, both as the code computes
them. `StoreSnapshot` is the SponsorBlock answer with its hash; the `Read…`
actions are an export's statements. None of them checks that what it names is
in the batch: that is what `ExportsResolve` states.

Assumptions: every download brings new bytes; a run's transactions are serial,
because the upsert of the run row is their first statement and locks it; the
order of `fetched_at` is the order of commits; what a detector sees in a file
is chosen anew for each analysis from a small set of footages.

### Views

Pages read several tables in one query or a few. The views are operators over
the state, checked in the states in which no work is under way (`Quiet`,
`Unplanned`, phase `"idle"`). This loses little: work under way may always
fail, and then leaves the tables as they are in a state with none.

## 4. The runs

Deadlock is checked in `identities` and `events`, where something can always
happen: a resolution or an extraction may begin again. In the other runs work
is bounded, and when it is done the system rests.

| Run | Instance | Shows |
|---|---|---|
| `frontier` | either 2 workers, 2 targets, 2 attempts, an enqueuer, 3 offers (admitted, deferred, too deep), or 2 recorders and 1 worker over a video, a channel it links to and another video, with maximum depth 1 | `TypeOK`; `SummaryMatchesEvidence`: columns are the extrema of the evidence, only admitted evidence makes a target claimable; `AttemptsAreFenced`: tokens are unique, a verdict belongs to a granted attempt; `OwnersAreRespected`: live leases hold, completed is final; `ImplementsFencedTask`; `CrawlIsComplete`: recorded depths, expansions and failed items survive every failing write, depths count from seeds the lookup missed (`DepthsAreDistances`), the crawl stays bounded |
| `backfill_live` | a review-first and an automatic source, 2 videos, one rejected by the first source's filters; an automatic source with an upload waiting and one fault at any statement; an automatic source that changes its policy; fairness | `ReviewFirstHolds` across sources; `RequestsFinish`: every listing ends, after a fault as well, and without faults every running request is worked off or stopped |
| `backfill_completed` | an automatic source is asked twice, 1 user; expected violation | `CompletedMeansFinished`: see section 7 |
| `checks` | two tasks of the kinds scheduled, manual and CLI beside a baseline listing; the scheduler alone with a fault and either a policy switch or a stale claim; three tasks started by users beside a stale claim, or by the CLI beside a server that restarts; two requests of one source with a fault; one request listed in two orders with a fault and policy switches | `ChecksDoNotPileUp`: each lost claim lets in one more check of a source at most; `HistoryStaysExcluded`; `BackfillsAreSound`: no selected video is forgotten, the dispatcher keeps its video; `DecisionsAndResultsStand`: no worker undoes a pause, a cancel or a result |
| `media` | three runs of one video: plan, refreshing plan and ingest in a row from every state of the media, 1 crash; two overlapping plans, one refreshing, 1 crash; two plans and an extract that download onto the same paths; a workflow beside a plan and an extract; two plans, or a workflow and a plan, beside an ingest, 1 crash; two plans with a transcript whose audio lies under either of two names; the audio names are interchangeable | `ReadersKeepTheirMedia`; `RecordsAreTrue`: no file is unknown to the record, output names the bytes it came from; `ReleasedMediaServed`: what was deleted has served every enabled stage, where no run is an extract; `UnneededMediaIsReleased`: what nobody needs is gone when the last run is over |
| `workflow_runs` | 1 workflow of 2 possible definitions, a starter, a reader, 2 runs, 1 fault or stop; fairness | `OneRunAtATime`; `RunsKeepTheirRecord`: stages are those of the recorded version, ended rows never change; `RunsEnd` |
| `identities` | 2 mention groups and 2 people that evidence may join in a ring; 3 changes of the evidence or corrections, 8 ids | `KeptApart`; `RegistryIsSound`: redirects lead to a living identity, automatic links follow the evidence, profiles show every unit and decision; `ConfirmedStays`; `Idempotent` |
| `events` | 2 extractions, texts with two suggestions or one, 2 acts of a researcher or the text; either nothing recorded before and 2 ids left, or two events recorded and one id left | `EventsAreSound`: types, one preferred reading, redirects and claims lead to live events; `ReadersSeeClaims`: every event opens, what anyone decided is shown once, an extraction leaves the suggestions of the present text; `ReviewedStays` |
| `people` | a guest in two videos with a face and a voice each, a second run of the first voices; 2 acts | `OneFacePerson` and complete reviews; `PlacementsStand`; `ReviewsStand` |
| `texts` | 3 spans of 2 streams and 3 languages, 2 texts; eleven settings of jobs and readers that touch the same rows | `VectorsFollowText`, `ShownTranslationsMatch`, `OneEntityRun`, `UnchangedIsReused` for the jobs; `HitsKeepTheirOrigin`, `JudgmentsHold`, `ExportsReproduce`, `RevisionsIdentify` for the readers |
| `translation_marks` | a search beside a renewed translation; expected violation | `GeneratedIsMarked`: see section 7 |
| `evidence` | every film of five frames with up to two of three faces each (4 096 films), 3 voices footages by 6 window lists, 5 pages of text; nine settings of four jobs with up to two downloads | `StoredRowsAreSound`, `ExportsResolve`, `SnapshotIsOneAnswer` |

Why the bounds are enough: the interesting cases need two actors on one row
plus one disturbance. Two workers give a stale and a current holder; two
requests or two sources give a shared video; two videos give an order; one
fault at any statement gives every prefix of a broken-off operation; three
media runs give a reader, an overwriter and a releaser; two workflow runs give
a successor; four units give a ring of evidence in which keeping one pair apart
must break a chain; three acts give a merge of a merged identity and a split;
two extractions and a researcher give every order of three writers; two rewrites
give a text that comes back; five frames give a track that is closed and
reopened. What the bounds cut repeats what already happened once, except that
chains of three or more takeovers, faults or runs are not explored by TLC;
where section 5 proves a property, the proof covers them.

Conditions some properties need, stated in the property or its run:
`ReviewFirstHolds` speaks of sources none of
which is trusted (automatic, or switchable to automatic) for the video;
`SelectedIsHandled` of requests whose listing either does not break off or
selects the same videos when it is repeated (`Repeatable`); `HeldVideoIsRunning`
and `ResultsStand` of videos no approval can meet in another source's hands
(`Separate`), the latter up to a fault; `HistoryStaysExcluded` of scheduled
checks of sources with one history request each, which nobody cancels
(`Routine`); `BackfillsAreSound` and `DecisionsAndResultsStand` of requests, users
and the dispatcher without checks; the recorded files of runs that follow one
another; `ReleasedMediaServed` of runs none of which is an extract;
`OneRunAtATime` of starts that follow one another; `ReadersSeeClaims` of states
with nothing under way and, for the suggestions, of the time after an
undisturbed extraction, for duplicates of claims a researcher decided on only
while no two transactions were ever open at once; `DepthsAreDistances` of targets
that only recorders write; `RunsEnd` of runs whose start did not abandon them;
`JudgmentsHold` of judgments recorded before the viewed text was rewritten; the
other readers' properties of texts not rewritten since they were read, where they
say so; `VectorsFollowText` of what the limit of a re-embedding did not leave
out. Section 7 says what happens without them.

### Fairness

- `SourceBackfill!FairSpec` (`backfill_live`): the discovery and dispatcher
  loops (`spawn_background`) run for ever and catch their errors, a stopped
  server is started, and a control or approval request that has begun goes on.
  Nothing is assumed of users beginning anything. That a listing ends is checked
  with a fault at any statement; that a running request ends is checked up to a
  fault, because a stop between a request's last video and the refresh of its
  counts leaves it running.
- `WorkflowRuns!FairSpec` (`workflow_runs`): begun requests and spawned tasks go
  on, a stopped server is started, and a page that shows a running run is read
  again (`ProcessingWorkflows.tsx` refetches every two seconds). `RunsEnd` is
  checked with faults and stops.

All fairness is weak. The other runs state safety only: jobs that may stop at
any step, and be started again by nobody but a user, promise no progress.

## 5. The proofs

Every theorem holds for all values of the constants that satisfy the named
assumptions of the component's module, so for any number of actors, rows and
repetitions.

| Theorem | Property |
|---|---|
| `FrontierProofs!TypeCorrect` | `TypeOK` |
| `FrontierProofs!AttemptsFenced` (from `FencingTokens`, `VerdictsAreFenced`) | `AttemptsAreFenced` |
| `FrontierProofs!OwnersRespected` (from `LiveLeasesHeld`, `CompletedStays`) | `OwnersAreRespected` |
| `FrontierProofs!SummariesMatch` | `SummaryMatchesEvidence` |
| `FrontierProofs!FrontierImplementsFencedTask` | `ImplementsFencedTask` |
| `FrontierProofs!IngestIsFrontier` | `IngestSpec => Spec` of the frontier |
| `FrontierProofs!AttemptsFencedWithIngests`, `OwnersRespectedByIngests` | the frontier's promises, with ingests |
| `FrontierProofs!CrawlComplete` | `CrawlIsComplete` |
| `CanonicalIdentitiesProofs!IdentitiesTypeCorrect` | the types part of `RegistryIsSound` |
| `CanonicalIdentitiesProofs!PairsStayApart` | `KeptApart` |
| `CanonicalIdentitiesProofs!DecisionsStay` | `ConfirmedStays` |
| `CanonicalIdentitiesProofs!RegistrySound` | `RegistryIsSound` |
| `CanonicalIdentitiesProofs!ResolvingIsIdempotent` | `Idempotent` |
| `MediaLifecycleProofs!ReadersKeep` | `ReadersKeepTheirMedia` |
| `MediaLifecycleProofs!RecordsTrue` | `RecordsAreTrue` (with the types, locks and attempts of `MediaTypeOK`) |
| `MediaLifecycleProofs!ReleasedIsServed` | `ReleasedMediaServed` |
| `MediaLifecycleProofs!UnneededIsReleased` | `UnneededMediaIsReleased` |
| `SourceChecksProofs!ReviewIsFirst` | `ReviewFirstHolds` |
| `SourceChecksProofs!SelectionsAreHandled`, `DispatcherKeepsItsVideo` | the backfills' `SelectedIsHandled`, `HeldVideoIsRunning` |
| `SourceChecksProofs!BackfillsStaySound` | `BackfillsAreSound` |
| `SourceChecksProofs!NothingIsUndone` (from `ResultsDoStand`) | `DecisionsAndResultsStand` |
| `SourceChecksProofs!LostClaimsAreCounted` | `ChecksDoNotPileUp` |
| `SourceChecksProofs!HistoryIsExcluded` (from `RoutineKeeps`) | `HistoryStaysExcluded` |
| `CorpusProofs!OneRunHolds` | `OneRunAtATime` |
| `CorpusProofs!RecordsStay` | `RunsKeepTheirRecord` |
| `CorpusProofs!PeopleAlwaysSound` | the invariant `PeopleInv`, plans under way included |
| `CorpusProofs!FacesHaveOnePerson` | `OneFacePerson`, with complete reviews |
| `CorpusProofs!ResearchersPlacementsStand` | `PlacementsStand` |
| `CorpusProofs!ResearchersReviewsStand` | `ReviewsStand` |
| `HistoricalEventsProofs!TablesAreSound` | `EventsAreSound` |
| `HistoricalEventsProofs!ReviewedClaimsStay` | `ReviewedStays` |
| `HistoricalEventsProofs!ReadersSee` | `ReadersSeeClaims` |
| `CorpusReadersProofs!ReadersOnlyWatch` | `CorpusSpec => Spec` of the derived texts |
| `CorpusReadersProofs!VectorsFollow` | `VectorsFollowText` |
| `CorpusReadersProofs!EntityRunIsOne` | `OneEntityRun` |
| `CorpusReadersProofs!ShownTranslationsAreTrue` | `ShownTranslationsMatch` |
| `CorpusReadersProofs!UnchangedAreReused` | `UnchangedIsReused` |
| `CorpusReadersProofs!HitsAreTrue` | `HitsKeepTheirOrigin` |
| `CorpusReadersProofs!JudgmentsAreKept` | `JudgmentsHold` |
| `CorpusReadersProofs!RevisionsAreUsedOnce` | `RevisionsIdentify` |
| `CorpusReadersProofs!ExportsQuoteTruly` (from `SnapshotsReproduce`) | `ExportsReproduce` |
| `MediaEvidenceProofs!RowsSound` | `StoredRowsAreSound` |
| `MediaEvidenceProofs!BatchesResolve` | `ExportsResolve` |
| `MediaEvidenceProofs!OneAnswer` | `SnapshotIsOneAnswer` |

*Frontier.* Effect lemmas (`CommitEffect`, `ReportEffect`) say field by field
what an operation leaves; `EveryStepIsRowStep` folds the next-state relation
into an upsert or one of a few row changes, so that invariance proofs need not
repeat the case split. `TokenInv` adds to uniqueness that a held attempt never
exceeds the row's counter (`HeldAttemptsCounted`): without it a claim could hand
out a number some worker holds. `RowInv` adds that a leased row is claimed and
that the current attempt of a claimed row has not been settled
(`ClaimUnsettled`): without it a second report of an attempt could be accepted
with another verdict. `EvidenceInv` adds that rows exist exactly where there is
evidence. The action properties follow from one row step under the invariant;
the refinement maps each row step to a step of `FencedTask` or a stutter.

*Ingests.* A recorder writes what a program over the seed's report computes, so
that its steps are frontier steps only if what it offers is a request the
frontier admits. The invariant bounds the depth a recorder carries and types
where it is in its report; under it every step of `IngestSpec` is a step of the
frontier or leaves it alone, and the frontier's theorems apply. That a crawl is
complete follows what a recorder has written so far: the items of the report
that are behind it have their evidence one level below the seed
(`ItemsBehind`), so that a recorder that is done has noted them all; what it is
writing is the seed, its current item or a link (`OpenWriteIsKnown`). That depths
count from the roots follows where a recorder counts from: its seed and its
current item are in the frontier no deeper than it has read (`PlacesInv`), and
depths only become smaller, so what it writes stays deeper than what leads there.
Whatever other recorders and workers do keeps the evidence there is (`Growing`).

*Identities.* That the links keep apart what is kept apart depends on
everything a resolution computed before it wrote. The invariant `IInv` says, for
the work under way: the components partition the units that were read
(`Partition`), no component holds a pair kept apart, a component holds confirmed
units of one identity at most (`FixedHold`), distinct components claim distinct
identities and the confirmed ones claim theirs (`Claims`), and outside those
phases nothing is left of it (`BeforeReading`); and for the tables: no pair is
of one unit with itself, redirects lead in one step to a live identity and
nothing links to a redirected one (`NoSelfPair`, `NoStrayRedirect`, `LinksLive`,
`RedirectsOnce`). One lemma per action shows each part kept.

`TypesInv` adds that links, redirects, components and claims stay within one
entity type. `FollowInv` is about resolutions that nothing has disturbed since
they began to read (`Current`): they have read what is there (`GroupsRead`,
`ReadNow`); every edge that was taken joined its ends or met a decision that
forbids it, which stays so because components only grow (`EdgesHandled`); and
however a component is cut in two, an edge or two confirmed units hold it
together (`ComponentsHold`; `UnionHolds` for a join). What they write is then
what `LinksFollowEvidence` asks (`Written`), until the next change says
otherwise. Readers need less: a redirect is one step long, so `live_identity`
ends wherever it goes on from there (`LiveReached`, by induction over the
naturals as a set), and suggestions are the same from both sides.

`AgainInv` is why resolving again changes nothing. The components depend on the
order in which edges are taken: an edge is refused by what was joined before it.
`Course` is the sequence of states a joining passes through, given the evidence
and the decisions; the unit keys order the edges, so it has one next state
(`OneNext`) and one end (`OneEnd`). A resolution under way is at a point of that
course (`Retraced`), the links it wrote are its end (`WrittenSo`), and nothing
the course depends on changes when they are written (`CourseKept`). The second
resolution therefore ends in the components the links stand for
(`SameComponents`), all of whose votes go to one identity, which no other
component claims.

*Media.* Locks are modelled by where runs are: a run reads between taking and
ending its lease, and releases between getting the exclusive lock and its
commit. The proof shows that every action takes one run from its place to a
place it may come to (`Allowed`): to a reading place from a reading place, or
when nobody releases; to a releasing place when nobody reads or releases. Hence
`LocksExclude`, and since only a release removes files (`DirectoryKept`; a
download writes bytes whose number is not 0), no file goes while a run reads.
What the database says of the bytes rests on downloads being numbered upwards:
the bytes at a path are only ever replaced by newer ones (`Newer`), so a run
that finds the bytes it hashed first has analyzed no others (`SeesNewer`), and
what a record marks deleted never comes back (`RecordSound`). That a record
names every file is shown of the two moments when it does not as well: between a
download and its record one file is unknown, and between the deletions and
theirs it is the record to come that names the files (`DirectoryNamed`). The
same record to come carries `Served` through a release: what it deletes, every
enabled stage has output of. `StepKinds` says of every step that it leaves
files, row and outputs alone (`Still`) or is one of the six that do not, so that
each invariant is proved of seven cases.

`UnneededInv` carries the property of the last run from the release that makes
it true. A release decides from the row, the record and the stored outputs it
reads; what it is about to write, if it does not keep the media, leaves the
recorded file only where an enabled stage still wants it (`RemovedSettled`), and
so does the row once no run is under way, none crashed and the last was neither
an ingest nor an extract, which do not ask what is needed (`RestSettled`). A row
that names no file records deleted media, if any (`PathsGone`), and a run that
cuts is at work as an extract, not as a plan (`CutsExtract`). The property
speaks of rows that name the file of their record: a transcript whose audio lies
under another name points the row at a file that no record knows
(`upsert_video`, `src/ingest/core.rs:422`).

*Sources.* The invariant of `SourceChecksProofs` follows a row through those who
hold it. The listing keeps true what it has read of the row at its entry until
it writes that row (`EntrySound`); the dispatcher and an approval keep theirs
(`JobSound`, `ApprovalSound`), because whoever else writes a row asks for a
status that a held row has not; a user's control keeps the state it read, for
only the listing leaves 'discovering' (`ListingSound`, `ControlSound`); what is
selected and not yet acted upon is still to come in the listing
(`SelectionSound`, of which `SelectedIsHandled` is what is left when the listing
is over); and a row that is queued or running has a trusted source that lists
the video (`ReviewSound`). `SeparateRows` and `SeparateListing` hold where
approvals cannot meet another source's work. A frame lemma per kind of table
says what a step that leaves the table alone preserves, so that each action has
a proof about what it writes only. `SourceChecks` adds that claims belong to
their checks (`ClaimsSound`); where there are checkers its backfill invariant is
not claimed, as a check writes rows without asking (section 7).
`HistoryIsExcluded` says when a check is right all the same, which `RoutineInv`
explains: a scheduled check finds the history recorded (`Past`), requests do not
go back to 'discovering' (`Onward`), and only the listing of a source sets its
rows aside (`SetAside`), while its request is open (`ListingIsOpen`). So a row
that a check has let through (`HandedOn`) is not set aside before it is queued.
The assumption `NoneAssumption` says that no request, source or user is `None`.

*Workflow runs.* The invariant follows a run through those who hold it: the
request that starts it holds an open row and, from its activation on, an active
one (`RequestsSound`); its task writes an open row only (`RunsSound`). With one
starter, the workflow it found free stays free until it has recorded its run.
`Definable` says what a definition is: some set of stages, never an empty one.

*People.* Three kinds of work plan from one state of the tables and write to
another, and only work of one kind waits for itself. `PeopleInv` therefore says
what every plan may still rely on when it is written. A matching's plan
(`PlanSound`) assigns tracks that nobody has placed, each once, and faces that
nobody holds; nothing that is kept apart joins one person or shares a group. An
inference's plan (`NamingSound`) names no subject and no name twice, gives
nothing that is rejected and nobody's protected name, and whoever has a name
that is not protected is among those it has seen. `KindKept` and `NamesKept` are
what the others may do meanwhile: corrections of tracks wait for the matching of
their kind, those of names for an inference, and an inference's newcomers hold
voices only and are nobody a plan knows. One lemma per action shows that the
tables stay sound and the other plans keep. Of the tables the invariant says
that a face has one holder, a placed voice one at least, that pairs kept apart
are of one kind, that no link is both refused and offered, and that nobody has a
name that is rejected for them.

Plans are recursive functions over the tracks' numbers. `StepsBuild` shows that
such a function exists, and `OneByOne` carries what each step keeps
(`FacesUp`, `VoicesUp`: what was joined so far is eligible, joined once and not
kept apart) to the last track. New people get their ids by rank:
`FoundersFit` shows, by counting, that as many ids are free as there are groups
and that no two groups get the same one. The action properties need one step
more: what a matching brings together its plan or its groups had room for
(`MatchedTogether`), a newcomer holds one voice only, and a correction that
brings tracks together ends what kept them apart (`PlacedTogether`). The proofs
assume that tracks and ids are finite sets of numbers, that tracks are numbered
from 1, and that ids, tracks and names are different things.

*Events.* An extraction's rows are not visible before it commits, so the
invariant says of whom they are: an id of a claim or an event is used by one
extraction (`NewFresh`, `HomesFresh`), what a correction is about stays live
under its locks (`CorrectionSound`), merges lead to live events in one step
(`MergesLead`) and claims to events that exist (`ClaimsMade`). That a reviewed
claim stays needs no more than that an extraction's commit leaves out what is
reviewed by then. What readers see of an extraction that nothing disturbed
follows its run through the table (`TextInv`, `RunSound`): what it read is what
the video says, what it found is what its snapshot and the locks leave of the table,
keys name one suggestion each (`KeysUnique`), every text is inserted or was
decided already, and a claim it leaves alone is on a live event
or was decided (`LateUndecided`). `LiveReached` shows that `live_event` ends.

*Texts.* `CorpusReaders` only watches: each of its steps is a step of
`DerivedTexts` or leaves what that module models alone, so what holds of the jobs
holds beside any readers. The invariant of the jobs says what each of them knows
when it comes back from its model. A re-embedding has left nothing pending
behind where it stands, and no more than what is left of its goal before it
(`ReembedSound`): new rows come with vectors of the current model, so the pending
ones only become fewer, and the update that matches the text spares a row just
when its writer has embedded it. A translation job knows of every row that is
stored what it has read of it, unless the job has stored it itself
(`TranslationsSound`), because translations of a video follow one another; hence
it repeats none that is unchanged. An extraction needs no more than the unique
constraint and the foreign key when it commits.

*Readers.* A reader keeps ids over several statements. The id of a translation
names the run that stored it, and runs are numbered upwards: a row that has been
seen and is gone stays gone (`Seen`, `Vanished`), so that a hit without its
translation is original text or a row that vanished. What was read of a segment
is still said while the count of rewrites is the one it was read at
(`SaysStill`, for hits, snapshots of the index and results of an evaluation
alike), and a judgment that names its segment is unlinked with the rewrite
(`LinkedAreTrue`). An export's spans are the transcript of the count it bears, so
two of one count are alike (`ExportsSound`). The text of an item is assembled of
segments of any number and length: each has its place in it, one after the
other, so that the range a citation names holds what the segment says and no two
ranges meet. `NoneAssumption` and
`EvidenceAssumption` say that no text, vector, stored row, segment or evidence is
`None`; `TextsAssumption` that the video's segments are a sequence.

*Evidence.* The invariant has three parts: the shape of jobs and settings
(`Base`), what the tables hold (`TablesHold`: the rows of every run are one
batch, a scene run is all the scenes of its bytes) and what a job holds
(`JobsHold`). What an analysis stores is of the bytes it hashed
(`AnalysisHeld`): bytes are numbered upwards and the file is hashed again before
the transaction. An export holds what the tables say at that moment, unless one
was written since it began (`torn` in `ExportHeld`); what it read of scenes
resolves in any case where it was made for one scene run. That the rows of a run
are a batch is a fact about the trackers, folds over frames, segments and
observations of any number. `FoldExists` shows that such a fold builds something
(`FoldsUp`), by induction over the indices as a set; `Tracked` is what the face
tracker keeps from face to face: each observation is in one track, no track
holds two of a frame, counts and ends agree with the members; `Heard` is the
same for voices. The assumptions are those of the module: thresholds and
intervals in range, diarised segments one after the other, tracks of text each
with an id of its own.

Where a proof needs induction it is stated of sets of numbers, which have a
least member (`NaturalsOneByOne`, `OneByOne`, `FoldExists`).

Only model-checked: liveness (`RequestsFinish`, `RunsEnd`), which is out of the
prover's reach. Two runs refute what a comment says of the code (section 7).

## 6. What is not modelled

- Data: captions and segmentation, scores of search and quality, embeddings,
  the date grammar and name grammar, normalisation of names, layout of exports
  and manifests; parsing of yt-dlp output and of links in descriptions.
- Arithmetic of schedules (check intervals, backoff, stale time): replaced by
  "at any moment". Thresholds of similarity: a relation.
- More than one server per database. `recover_interrupted` and
  `recover_interrupted_checks` assume one.
- Plan resolution (corpus, source and video scopes, profiles, presets), the
  compiled form and target languages of a definition, creation of definitions,
  adding a subscription.
- Readers: hits and citations of recognised text, `use_source_cues`, several
  videos and corpus scopes, speaker labels by time, the value of NDCG,
  annotations other than speaker turns.
- Events: corpus scope, identities of participants, the timeline's limit of 200.
  The `DELETE` of emptied events decides in one step with the removal of the
  suggestions; in the code it has a snapshot of its own, and where a claim or a
  merge comes in while it waits for the event's row, the foreign key refuses the
  deletion (`ExtractionFails`) or the redirect of a merged event without claims
  becomes null.
- Answers that contradict themselves: a text track that names an observation
  twice (`src/ocr_processing.rs:318`), a SponsorBlock answer with one UUID twice.
- Discovery expansion (yt-dlp listings turned into tasks): I/O and parsing
  around the store's operations, which `DiscoveryFrontier` has for every caller.
- Creating corpora and memberships (single statements), statistics and
  inspection (read-only aggregation), web endpoints and the rows of
  `ingest_runs`, command line, configuration, web interface, the wasm crate, the
  yt-dlp client: wiring, parsing and I/O without interleaving of their own.

## 7. Where the code and its comments disagree

Checked:

- `backfill_completed` (`CompletedMeansFinished`). `src/backfill.rs:691` says a
  backfill is `completed` "only when every selected video finished". A cancel of
  one request releases videos that another request, still `discovering`, has
  just selected; the second then completes with a canceled video.
- `translation_marks` (`GeneratedIsMarked`). `src/search.rs:145` says the
  translation of a result is present "when this hit is generated translated
  text rather than original evidence". A translation stored again changes the
  id of its row (`src/translation.rs:386`), and a search looks the hit up by
  that id in a later statement: generated text is shown without its mark.

Met while modelling and excluded from the passing runs by the conditions above
or by an exception the property names; no run repeats them.

Sources:

- `src/subscriptions.rs:454` "unless another check of it is running":
  `finish_check` and `recover_interrupted_checks` clear a claim whoever set it.
- `src/subscriptions.rs:556`: a user's check that passed the gate before a
  request was recorded queues what the request sets aside. So does a scheduled
  check, of what a second request sets aside while the check lists the source, or
  the listing of a request that was canceled meanwhile.
- `migrations/0023_source_backfills.sql:48` "never processed twice":
  `enqueue_new_upload` writes `queued` over a row that was indexed meanwhile.
- `src/backfill.rs:691`: a stop between the last video's status and the refresh
  leaves a request `running`; a request of another source stays
  `awaiting_review` after its last held video was settled.
- `src/backfill.rs:274`: the listing of a "limited" request that breaks off by a
  fault and comes back in another order selects other videos the second time; a
  video selected the first time may be left `not_selected` (`Repeatable`).
- `src/subscriptions.rs:1031` (approval of held items): where an automatic and a
  review-first source list the same video, an approval that is under way ends by
  writing the row the dispatcher holds for the other source, or one that was
  indexed meanwhile (`Separate`).
- `docs/discovery-workflows.md:45`: a repeated report is refused once the row
  was reopened or completed by others.
- `src/discovery/ingest.rs:73`: failed items of a seed at the maximum depth are
  deferred, not retryable.
- `src/discovery/ingest.rs:40`: `docs/discovery-workflows.md:51` has the actual
  crawl depth preserved, which the lookup does for a seed it finds. A row that
  another recorder inserts between the lookup and the seed's enqueue is lowered
  to depth 0, and what is recorded from it counts from there.

Media and workflows:

- Two runs that acquire at once can lose a superseded file or leave a file
  nobody releases; an extract that acquired nothing can keep media from being
  released; an extract of released media makes earlier output stale and deletes
  audio a failed stage needs; a transcript is stored under the hash the file has
  at the end (`src/ingest/core.rs:313`).
- `src/workflow.rs:460`: a workflow's extract may have to download again, when
  another run released the media its stages used.
- Two simultaneous starts both pass the check
  (`src/processing_workflows.rs:672`); a page read between insert and activation
  marks a living run interrupted; a start that fails after activation leaves a
  run nobody executes (`Abandoned`); the plan a run applies can be replaced
  under it.
- `src/web/core.rs:814`: an import whose server stops stays `running` for ever.

Identities, people and events:

- `src/identities.rs:16` calls a confirmed link durable; a unit whose mentions
  are gone at one resolution loses it (`:364`).
- `src/voice_matching.rs:846`: a voice may end with two people when naming
  plans on tracks that voice matching places meanwhile; a face–voice link
  confirmed late may leave a placed face unmatched.
- Events: a suggestion that lands on a merged event is shown nowhere;
  overlapping extractions may leave two events of one label and, when the claim
  one of them inserted is reviewed before the other's `DELETE`, an unreviewed
  duplicate (`src/event_extraction.rs:365`: a `SELECT .. FOR UPDATE` that waited
  does not return it); a split may leave an event without claims; a suggestion rejected
  before an identity merge may be made again after it; the timeline reads ids
  and profiles in separate statements.

Texts, readers and evidence:

- `src/reprocessing.rs:398`: a video's re-embedding writes vectors of a text
  that was rewritten meanwhile.
- `src/translation.rs:231` "never stores partial output": groups commit one by
  one, and a run that stops leaves those it stored.
- `src/entities.rs:631`: a rewrite deletes mentions by cascade and leaves the
  run, so that the video counts as extracted and empty.
- `src/evaluation.rs:184`: a judgment is written by the id of an earlier search;
  after a rewrite in between it is linked to a text nobody judged. Judging a
  rewritten span again does not restore its link; a judgment without a video
  makes the rewrite of its segment fail; a span matched by several results may
  raise NDCG above 1.
- `src/media_evidence.rs:158`: a batch read while an analysis stores may name
  rows it did not read. Text recognised before the scenes are stored is never
  linked to them. An older SponsorBlock answer that is stored later becomes the
  latest. One face box outside the picture fails its whole batch.
