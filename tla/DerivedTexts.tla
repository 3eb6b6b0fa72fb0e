---------------------------- MODULE DerivedTexts ----------------------------
(***************************************************************************)
(* What is derived from a video's transcript and must follow it when it    *)
(* changes: the vectors of its segments (src/reembed.rs,                   *)
(* src/reprocessing.rs), their translations (src/translation.rs), the      *)
(* entity mentions found in them (src/entities.rs) and the stream that is  *)
(* preferred among its streams (src/transcript_quality.rs).                *)
(*                                                                         *)
(* A segment keeps its id when an ingest or a re-segmentation rewrites its *)
(* stream, so every job that reads a text, leaves the database to embed,   *)
(* translate or recognise, and comes back to write by id may write beside  *)
(* a newer text.  Postgres runs each transaction at READ COMMITTED; one    *)
(* action is one statement or one transaction.  Jobs and rewrites are      *)
(* bounded, and any job may stop between two of its actions.               *)
(***************************************************************************)
EXTENDS Integers, FiniteSets, Sequences, SequencesExt

CONSTANTS
  Spans,        \* the segment ids of one video, in order
  Streams,      \* its streams, in the order of transcript_stream_for's CASE
  StreamOf,     \* the stream of each span
  LanguageOf,   \* the language of each span, "unknown" when it is not curated
  Languages,    \* the curated languages in the order of their codes
  Targets,      \* the target languages asked for, in order
  Texts,        \* what a segment may say
  Configs,      \* the providers' configurations
  Score,        \* the score of a stream that has text, and of one that has none
  Settings,     \* what may run in one behaviour, and how often
  None          \* no such thing

Ids == Range(Spans)
Models == {"former", "current"}
Outcomes == {"completed", "reused", "skipped", "failed", "unavailable"}
Extractors == {"stage", "corpus"}

Vectors == [of : Texts, model : Models, by : {"writer", "reembed", "video"}]
RowsOf(runs_) == [of : Texts, hash : Texts, config : Configs, by : runs_]

ASSUME TextsAssumption ==
  /\ Spans \in Seq(Range(Spans))
  /\ StreamOf \in [Ids -> Range(Streams)]
  /\ LanguageOf \in [Ids -> Range(Languages) \cup {"unknown"}]
  /\ Score \in [Range(Streams) -> [text : Nat, blank : Nat]]
  /\ \A s \in Settings : {s.rewrites, s.translations, s.extractions} \subseteq Nat

ASSUME NoneAssumption == None \notin Texts \cup Vectors \cup RowsOf(Nat) \cup Ids

VARIABLES
  setting,      \* the kinds of job of this behaviour and its bounds on rewrites,
                \* translations and extractions; never changes
  text,         \* transcript_segments.text, None when there is no such row
  vector,       \* their embedding: the text it was computed from, its model
                \* and who wrote it
  preferred,    \* preferred_transcript_streams
  translated,   \* translated_segments, per source span and target: the text
                \* that was translated, the hash stored with it (of a text),
                \* the configuration and the run that stored it
  outcome,      \* translation_runs.state per target
  runs,         \* entity_extraction_runs of the video
  mentions,     \* entity_mentions: a name found in a text of a span
  translating, reembedding, reembeddingVideo, extracting,   \* the jobs
  rewrites, translations, extractions                       \* how many began

tables == <<text, vector, preferred, translated, outcome, runs, mentions>>
jobs == <<translating, reembedding, reembeddingVideo, extracting>>
counts == <<rewrites, translations, extractions>>
vars == <<setting, tables, jobs, counts>>

Allowed(kind) == kind \in setting.kinds
MaxRewrites == setting.rewrites
MaxTranslations == setting.translations
MaxExtractions == setting.extractions

Rows == RowsOf(1..MaxTranslations)
Present == {s \in Ids : text[s] # None}
Position(s) == CHOOSE i \in DOMAIN Spans : Spans[i] = s

Init ==
  /\ setting \in Settings
  /\ text \in {[s \in Ids |-> t] : t \in Texts}
  /\ \E models \in [Ids -> IF Allowed("reembed") THEN Models ELSE {"current"}] :
       vector = [s \in Ids |-> [of |-> text[s], model |-> models[s], by |-> "writer"]]
  /\ preferred = None
  /\ translated = [p \in Ids \X Range(Targets) |-> None]
  /\ outcome = [t \in Range(Targets) |-> None]
  /\ runs = {} /\ mentions = {}
  /\ translating = None /\ reembedding = None /\ reembeddingVideo = None
  /\ extracting = [e \in Extractors |-> None]
  /\ rewrites = 0 /\ translations = 0 /\ extractions = 0

-----------------------------------------------------------------------------
(* The transcript.                                                         *)

\* Mutant: the translations of the deleted segments go with them, as mentions do.
RewriteCascades(stream) ==
  /\ rewrites < MaxRewrites
  /\ rewrites' = rewrites + 1
  /\ LET own == {s \in Ids : StreamOf[s] = stream} IN
     /\ \E new \in [own -> Texts] :
          /\ text' = [s \in Ids |-> IF s \in own THEN new[s] ELSE text[s]]
          /\ vector' = [s \in Ids |->
               IF s \in own
               THEN [of |-> new[s], model |-> "current", by |-> "writer"]
               ELSE vector[s]]
     /\ mentions' = {m \in mentions : m.span \notin own}
     /\ translated' = [p \in DOMAIN translated |->
          IF p[1] \in own THEN None ELSE translated[p]]
  /\ UNCHANGED <<setting, preferred, outcome, runs, jobs, translations, extractions>>

\* upsert_stream, resegment_stream: one transaction deletes the segments of a
\* stream, and by ON DELETE CASCADE their mentions, and inserts the new ones,
\* already embedded, under the same ids.  Blank segments are left out.
Rewrite(stream) ==
  /\ rewrites < MaxRewrites
  /\ rewrites' = rewrites + 1
  /\ LET own == {s \in Ids : StreamOf[s] = stream} IN
     /\ \E new \in [own -> Texts \cup {None}] :
          /\ text' = [s \in Ids |-> IF s \in own THEN new[s] ELSE text[s]]
          /\ vector' = [s \in Ids |->
               IF s \notin own THEN vector[s]
               ELSE IF new[s] = None THEN None
               ELSE [of |-> new[s], model |-> "current", by |-> "writer"]]
     /\ mentions' = {m \in mentions : m.span \notin own}
  /\ UNCHANGED <<setting, preferred, translated, outcome, runs, jobs,
                 translations, extractions>>

HasText(stream) == \E s \in Present : StreamOf[s] = stream
ScoreOf(stream) == IF HasText(stream) THEN Score[stream].text ELSE Score[stream].blank

\* refresh_video_quality, after an ingest or when a researcher asks: the stream
\* of the highest score, the first of Streams among equals.
RefreshQuality ==
  /\ Allowed("prefer")
  /\ \E i \in DOMAIN Streams :
       /\ \A j \in DOMAIN Streams :
            \/ ScoreOf(Streams[i]) > ScoreOf(Streams[j])
            \/ ScoreOf(Streams[i]) = ScoreOf(Streams[j]) /\ i <= j
       /\ preferred # Streams[i]
       /\ preferred' = Streams[i]
  /\ UNCHANGED <<setting, text, vector, translated, outcome, runs, mentions, jobs, counts>>

\* transcript_stream_for: the preferred stream if it has segments, else the
\* first that has.
StreamToRead ==
  IF preferred # None /\ HasText(preferred) THEN preferred
  ELSE LET full == SelectSeq(Streams, HasText)
       IN IF full = <<>> THEN None ELSE Head(full)

\* The spans of a stream with their texts; extractions and translations read those of
\* the same one.
TextsOf(stream) == Restrict(text, {s \in Present : StreamOf[s] = stream})
Sources == TextsOf(StreamToRead)

-----------------------------------------------------------------------------
(* Vectors.                                                                *)

\* reembed_table's pending_filter.
Pending == {s \in Present : vector[s].model # "current"}

\* reembed_corpus: the goal is counted once, a limit may leave segments beyond it;
\* batches of one row each follow.
BeginReembed ==
  /\ Allowed("reembed") /\ reembedding = None
  /\ \E goal \in 0..Cardinality(Pending) :
       reembedding' = [step |-> "select", goal |-> goal, beyond |-> Cardinality(Pending) - goal,
                       done |-> 0, after |-> 0, batch |-> <<>>]
  /\ UNCHANGED <<setting, tables, translating, reembeddingVideo, extracting, counts>>

\* The next rows in id order whose vectors are not the current model's.
SelectBatch ==
  /\ reembedding # None /\ reembedding.step = "select"
  /\ LET next == {s \in Pending : Position(s) > reembedding.after} IN
     reembedding' =
       IF reembedding.done >= reembedding.goal \/ next = {}
       THEN [reembedding EXCEPT !.step = "done"]
       ELSE LET s == CHOOSE s \in next : \A o \in next : Position(s) <= Position(o)
            IN [reembedding EXCEPT !.step = "write", !.after = Position(s),
                                   !.batch = Restrict(text, {s})]
  /\ UNCHANGED <<setting, tables, translating, reembeddingVideo, extracting, counts>>

Embedded(batch, by) ==
  [s \in Ids |-> IF s \in DOMAIN batch
                 THEN [of |-> batch[s], model |-> "current", by |-> by]
                 ELSE vector[s]]

\* Mutant: the update names the row by its id alone.
WrittenById ==
  /\ reembedding # None /\ reembedding.step = "write"
  /\ vector' = Embedded(Restrict(reembedding.batch, DOMAIN reembedding.batch \cap Present),
                        "reembed")
  /\ reembedding' = [reembedding EXCEPT
       !.step = "select", !.batch = <<>>,
       !.done = reembedding.done + Cardinality(DOMAIN reembedding.batch)]
  /\ UNCHANGED <<setting, text, preferred, translated, outcome, runs, mentions,
                 translating, reembeddingVideo, extracting, counts>>

\* The update matches the text too: a row that changed since is left alone.
WriteBatch ==
  /\ reembedding # None /\ reembedding.step = "write"
  /\ LET batch == reembedding.batch
         same == {s \in DOMAIN batch : text[s] = batch[s]}
     IN /\ vector' = Embedded(Restrict(batch, same), "reembed")
        /\ reembedding' = [reembedding EXCEPT
             !.step = "select", !.batch = <<>>,
             !.done = reembedding.done + Cardinality(DOMAIN batch)]
  /\ UNCHANGED <<setting, text, preferred, translated, outcome, runs, mentions,
                 translating, reembeddingVideo, extracting, counts>>

\* The command ends, or is interrupted and may be run again.
StopReembed ==
  /\ reembedding # None
  /\ reembedding' = None
  /\ UNCHANGED <<setting, tables, translating, reembeddingVideo, extracting, counts>>

\* reembed_video reads every segment of the video, embeds the texts and writes
\* by id alone in one transaction.
ReadVideo ==
  /\ Allowed("reembed_video") /\ reembeddingVideo = None
  /\ reembeddingVideo' = Restrict(text, Present)
  /\ UNCHANGED <<setting, tables, translating, reembedding, extracting, counts>>

WriteVideo ==
  /\ reembeddingVideo # None
  /\ vector' = Embedded(Restrict(reembeddingVideo, DOMAIN reembeddingVideo \cap Present),
                        "video")
  /\ reembeddingVideo' = None
  /\ UNCHANGED <<setting, text, preferred, translated, outcome, runs, mentions,
                 translating, reembedding, extracting, counts>>

-----------------------------------------------------------------------------
(* Translations.  The stage lock of a video's detector admits one run of   *)
(* translate_video_modality at a time.                                     *)

BeginTranslation ==
  /\ Allowed("translate") /\ translating = None
  /\ translations < MaxTranslations
  /\ translations' = translations + 1
  /\ \E refresh \in BOOLEAN, config \in Configs :
       translating' = [step |-> "orphans", units |-> Sources, refresh |-> refresh,
                       config |-> config, existing |-> <<>>, target |-> 1, language |-> 1,
                       translated |-> 0, reused |-> 0, failed |-> FALSE]
  /\ UNCHANGED <<setting, tables, reembedding, reembeddingVideo, extracting,
                 rewrites, extractions>>

\* Translations whose span is gone are removed, then what is stored is read.
RemoveOrphans ==
  /\ translating # None /\ translating.step = "orphans"
  /\ translated' = [p \in DOMAIN translated |->
                      IF p[1] \in Present THEN translated[p] ELSE None]
  /\ translating' = [translating EXCEPT !.step = "existing"]
  /\ UNCHANGED <<setting, text, vector, preferred, outcome, runs, mentions,
                 reembedding, reembeddingVideo, extracting, counts>>

ReadExisting ==
  /\ translating # None /\ translating.step = "existing"
  /\ translating' = [translating EXCEPT
       !.step = "group",
       !.existing = [p \in {q \in DOMAIN translated : translated[q] # None} |->
                       <<translated[p].hash, translated[p].config>>]]
  /\ UNCHANGED <<setting, tables, reembedding, reembeddingVideo, extracting, counts>>

Target == Targets[translating.target]
Supported == Target \in Range(Languages)

\* The units of one source language; none when it is the target's own.
Group ==
  LET source == Languages[translating.language]
  IN {s \in DOMAIN translating.units : LanguageOf[s] = source /\ source # Target}

Missing ==
  {s \in Group :
     \/ translating.refresh
     \/ <<s, Target>> \notin DOMAIN translating.existing
     \/ translating.existing[<<s, Target>>]
          # <<translating.units[s], translating.config>>}

InGroup ==
  /\ translating # None /\ translating.step = "group"
  /\ Supported /\ ~translating.failed
  /\ translating.language <= Len(Languages)

\* Mutant: the hash is computed from the segment when the row is stored.
HashedWhenStored ==
  /\ InGroup
  /\ translated' = [p \in DOMAIN translated |->
       IF p[2] = Target /\ p[1] \in Missing \cap Present
       THEN [of |-> translating.units[p[1]], hash |-> text[p[1]],
             config |-> translating.config, by |-> translations]
       ELSE translated[p]]
  /\ translating' = [translating EXCEPT
       !.language = translating.language + 1,
       !.translated = translating.translated + Cardinality(Missing)]
  /\ UNCHANGED <<setting, text, vector, preferred, outcome, runs, mentions,
                 reembedding, reembeddingVideo, extracting, counts>>

\* The missing units of a group are translated and embedded, then upserted in
\* one transaction with the hash of the text that was read.
TranslateGroup ==
  /\ InGroup
  /\ translated' = [p \in DOMAIN translated |->
       IF p[2] = Target /\ p[1] \in Missing
       THEN LET unit == translating.units[p[1]]
            IN [of |-> unit, hash |-> unit, config |-> translating.config,
                 by |-> translations]
       ELSE translated[p]]
  /\ translating' = [translating EXCEPT
       !.language = translating.language + 1,
       !.translated = translating.translated + Cardinality(Missing),
       !.reused = translating.reused + Cardinality(Group \ Missing)]
  /\ UNCHANGED <<setting, text, vector, preferred, outcome, runs, mentions,
                 reembedding, reembeddingVideo, extracting, counts>>

\* The provider fails: the target's other groups are left.
GroupFails ==
  /\ InGroup /\ Missing # {}
  /\ translating' = [translating EXCEPT !.failed = TRUE]
  /\ UNCHANGED <<setting, tables, reembedding, reembeddingVideo, extracting, counts>>

Unknown == {s \in DOMAIN translating.units : LanguageOf[s] = "unknown"}

OutcomeOf ==
  IF ~Supported THEN "unavailable"
  ELSE IF translating.failed THEN "failed"
  ELSE IF translating.translated > 0 THEN "completed"
  ELSE IF translating.reused > 0 THEN "reused"
  ELSE IF Unknown # {} THEN "unavailable"
  ELSE "skipped"

\* record_run, then the next target.
RecordOutcome ==
  /\ translating # None /\ translating.step = "group"
  /\ \/ ~Supported
     \/ translating.failed
     \/ translating.language > Len(Languages)
  /\ outcome' = [outcome EXCEPT ![Target] = OutcomeOf]
  /\ translating' =
       IF translating.target = Len(Targets) THEN None
       ELSE [translating EXCEPT !.target = translating.target + 1, !.language = 1,
                                !.translated = 0, !.reused = 0, !.failed = FALSE]
  /\ UNCHANGED <<setting, text, vector, preferred, translated, runs, mentions,
                 reembedding, reembeddingVideo, extracting, counts>>

\* An error the code passes on, or a crash, ends the run without a record.
StopTranslation ==
  /\ translating # None
  /\ translating' = None
  /\ UNCHANGED <<setting, tables, reembedding, reembeddingVideo, extracting, counts>>

\* The condition of corpus_search_segments and current_count: the hash is the
\* present text's.
Shown(s, t) ==
  /\ text[s] # None
  /\ translated[<<s, t>>] # None
  /\ translated[<<s, t>>].hash = text[s]

\* target_status, from the stored rows and the last recorded outcome.
TargetStatus(t) ==
  LET translatable == {s \in DOMAIN Sources : LanguageOf[s] \notin {"unknown", t}}
      unsupported == {s \in DOMAIN Sources : LanguageOf[s] = "unknown"}
  IN IF t \notin Range(Languages) THEN "unavailable"
     ELSE IF outcome[t] = "failed" THEN "failed"
     ELSE IF DOMAIN Sources = {} THEN "missing_source"
     ELSE IF translatable = {}
       THEN IF unsupported # {} THEN "unavailable" ELSE "skipped"
     ELSE IF \A s \in translatable : Shown(s, t) THEN "completed"
     ELSE "missing"

-----------------------------------------------------------------------------
(* Entity mentions.  The stage holds its lock; `entities extract` over the *)
(* corpus takes none.                                                      *)

ReadSources(e) ==
  /\ Allowed("extract") /\ extracting[e] = None
  /\ extractions < MaxExtractions
  /\ Sources # <<>>
  /\ extractions' = extractions + 1
  /\ extracting' = [extracting EXCEPT
       ![e] = [step |-> "delete", sources |-> Sources, id |-> extractions + 1, seen |-> {}]]
  /\ UNCHANGED <<setting, tables, translating, reembedding, reembeddingVideo,
                 rewrites, translations>>

\* replace_entity_run deletes the runs it sees; the transaction is open.
DeleteRuns(e) ==
  /\ extracting[e] # None /\ extracting[e].step = "delete"
  /\ extracting' = [extracting EXCEPT ![e].step = "insert", ![e].seen = runs]
  /\ UNCHANGED <<setting, tables, translating, reembedding, reembeddingVideo, counts>>

\* Mutant: the table has no unique index.
NoUniqueIndex(e) == TRUE

\* Unique index: a run of the same producer and model committed meanwhile.
UniqueHolds(e) == runs \subseteq extracting[e].seen
\* Foreign key: a mention of a segment that is gone.
KeysHold(e) == DOMAIN extracting[e].sources \subseteq Present

\* What is recognised in the texts that were read: which name is left open.
Found(job) ==
  {[span |-> s, of |-> job.sources[s], run |-> job.id] : s \in DOMAIN job.sources}

\* The transaction's inserts and commit, or its rollback by a constraint.
InsertRun(e) ==
  /\ extracting[e] # None /\ extracting[e].step = "insert"
  /\ IF UniqueHolds(e) /\ KeysHold(e)
     THEN /\ runs' = (runs \ extracting[e].seen) \cup {extracting[e].id}
          /\ mentions' = {m \in mentions : m.run \notin extracting[e].seen}
                         \cup Found(extracting[e])
     ELSE UNCHANGED <<runs, mentions>>
  /\ extracting' = [extracting EXCEPT ![e] = None]
  /\ UNCHANGED <<setting, text, vector, preferred, translated, outcome,
                 translating, reembedding, reembeddingVideo, counts>>

JobNext ==
  \/ RefreshQuality
  \/ BeginReembed \/ SelectBatch \/ WriteBatch \/ StopReembed
  \/ ReadVideo \/ WriteVideo
  \/ BeginTranslation \/ RemoveOrphans \/ ReadExisting
  \/ TranslateGroup \/ GroupFails \/ RecordOutcome \/ StopTranslation
  \/ \E e \in Extractors : ReadSources(e) \/ DeleteRuns(e) \/ InsertRun(e)

Next == JobNext \/ \E stream \in Range(Streams) : Rewrite(stream)

Spec == Init /\ [][Next]_vars

-----------------------------------------------------------------------------
(* Properties.                                                             *)

TextsTypeOK ==
  /\ text \in [Ids -> Texts \cup {None}]
  /\ vector \in [Ids -> Vectors \cup {None}]
  /\ preferred \in Range(Streams) \cup {None}
  /\ translated \in [Ids \X Range(Targets) -> Rows \cup {None}]
  /\ outcome \in [Range(Targets) -> Outcomes \cup {None}]
  /\ runs \subseteq 1..MaxExtractions
  /\ mentions \subseteq [span : Ids, of : Texts, run : 1..MaxExtractions]

(* The vector of a segment is computed from the text beside it, whoever    *)
(* changed the text while it was computed.  reembed_video alone may leave  *)
(* the vector of an earlier text: it writes by id.  A re-embedding that    *)
(* runs to its end leaves no segment without a vector of the current model *)
(* beyond those its limit left out, whatever is ingested while it runs:    *)
(* the goal it counted at the start never ends it early.                   *)
VectorsFollowText ==
  /\ TextsTypeOK
  /\ reembedding # None /\ reembedding.step = "done" =>
       Cardinality(Pending) <= reembedding.beyond
  /\ \A s \in Ids :
       /\ vector[s] = None <=> text[s] = None
       /\ vector[s] # None => vector[s].of = text[s] \/ vector[s].by = "video"

(* A translation that search shows translates the text that is there now,  *)
(* and a target that reads as completed shows one of every span it can     *)
(* translate.                                                              *)
ShownTranslationsMatch ==
  \A t \in Range(Targets) :
    /\ \A s \in Ids : Shown(s, t) => translated[<<s, t>>].of = text[s]
    /\ TargetStatus(t) = "completed" =>
         \A s \in DOMAIN Sources :
           LanguageOf[s] \notin {"unknown", t} => translated[<<s, t>>].of = text[s]

(* Unless a refresh is asked for, a stored translation of the same text    *)
(* under the same configuration is never made again, and never removed     *)
(* while its segment exists: a rewrite of the stream that leaves the text  *)
(* as it was costs no translation.                                         *)
UnchangedIsReused ==
  [][\A p \in DOMAIN translated :
       LET old == translated[p]  new == translated'[p]
       IN old # None /\ new # old =>
            IF new = None THEN text[p[1]] = None
            ELSE \/ translating.refresh
                 \/ <<new.hash, new.config>> # <<old.hash, old.config>>]_vars

(* However extractions of one video overlap, it has one run; the mentions  *)
(* are that run's, of segments that exist.                                 *)
OneEntityRun ==
  /\ Cardinality(runs) <= 1
  /\ \A m \in mentions : m.run \in runs /\ text[m.span] # None
=============================================================================
