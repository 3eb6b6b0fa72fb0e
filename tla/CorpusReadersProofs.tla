------------------------ MODULE CorpusReadersProofs ------------------------
(***************************************************************************)
(* What is derived from a transcript follows it, and those who read it     *)
(* show what they claim to show, for any number of segments, streams,      *)
(* texts, languages and targets, any bounds on jobs and rewrites, and      *)
(* every interleaving of them.                                             *)
(*                                                                         *)
(* The first half is about DerivedTexts alone, as a specification of its   *)
(* own: a job that has read the texts carries what it needs to recognise   *)
(* at its write that they changed.  The second half shows that the readers *)
(* only watch it (CorpusSpec implies Spec), so what is proved of Spec      *)
(* holds of CorpusSpec, and that an answer read in several statements can  *)
(* be off only when the rows it names were stored anew or a rewrite came   *)
(* between, which the count of the rewrites tells.                         *)
(***************************************************************************)
EXTENDS CorpusReaders, FiniteSetTheorems, WellFoundedInduction, TLAPS

\* Texts of some of the segments.
SomeTexts == UNION {[S -> Texts] : S \in SUBSET Ids}

TranslationJobs ==
  [step : {"orphans", "existing", "group"}, units : SomeTexts, refresh : BOOLEAN,
   config : Configs,
   existing : {<<>>} \cup UNION {[D -> Texts \X Configs] : D \in SUBSET (Ids \X Range(Targets))},
   target : Nat, language : Nat, translated : Nat, reused : Nat, failed : BOOLEAN]
ReembedJobs ==
  [step : {"select", "write", "done"}, goal : Nat, beyond : Nat, done : Nat,
   after : Nat,
   batch : {<<>>} \cup SomeTexts]
ExtractionJobs ==
  [step : {"delete", "insert"}, sources : SomeTexts, id : 1..MaxExtractions,
   seen : SUBSET Nat]

CountsTypeOK ==
  /\ setting \in Settings
  /\ rewrites \in Nat
  /\ translations \in 0..MaxTranslations
  /\ extractions \in 0..MaxExtractions

JobsTypeOK ==
  /\ translating # None => translating \in TranslationJobs /\ translations > 0
  /\ reembedding # None => reembedding \in ReembedJobs
  /\ reembeddingVideo # None => reembeddingVideo \in SomeTexts
  /\ extracting \in [Extractors -> ExtractionJobs \cup {None}]

TypeInv == CountsTypeOK /\ TextsTypeOK /\ JobsTypeOK

-----------------------------------------------------------------------------
(* Segments, and texts of them.                                            *)

LEMMA PositionsExist ==
  /\ IsFiniteSet(Ids)
  /\ \A s \in Ids : Position(s) \in Nat \ {0} /\ Spans[Position(s)] = s
  <1>1. /\ DOMAIN Spans = 1..Len(Spans) /\ Len(Spans) \in Nat
        /\ Ids = {Spans[i] : i \in 1..Len(Spans)}
    BY TextsAssumption DEF Ids, Range
  <1>2. IsFiniteSet(1..Len(Spans))
    BY <1>1, FS_Interval
  <1>3. IsFiniteSet(Ids)
    <2>1. Spans \in Surjection(1..Len(Spans), Ids)
      BY <1>1, TextsAssumption DEF Surjection, Ids
    <2> QED BY <2>1, <1>2, FS_Surjection
  <1>4. ASSUME NEW s \in Ids
        PROVE  Position(s) \in Nat \ {0} /\ Spans[Position(s)] = s
    <2>1. \E i \in DOMAIN Spans : Spans[i] = s
      BY <1>1
    <2>2. Position(s) \in DOMAIN Spans /\ Spans[Position(s)] = s
      BY <2>1 DEF Position
    <2> QED BY <1>1, <2>2
  <1> QED BY <1>1, <1>3, <1>4

LEMMA SegmentsAreFinite ==
  ASSUME NEW S \in SUBSET Ids
  PROVE  IsFiniteSet(S) /\ Cardinality(S) \in Nat
  BY PositionsExist, FS_Subset, FS_CardinalityType

LEMMA RestrictedTexts ==
  ASSUME TextsTypeOK, NEW S \in SUBSET Present
  PROVE  /\ Restrict(text, S) \in SomeTexts
         /\ DOMAIN Restrict(text, S) = S
         /\ \A s \in S : Restrict(text, S)[s] = text[s]
  <1>1. \A s \in S : text[s] \in Texts
    BY DEF TextsTypeOK, Present
  <1>2. Restrict(text, S) \in [S -> Texts] /\ S \in SUBSET Ids
    BY <1>1 DEF Restrict, Present
  <1> QED BY <1>2 DEF SomeTexts, Restrict

LEMMA SourcesAreTexts ==
  ASSUME TextsTypeOK
  PROVE  /\ Sources \in SomeTexts /\ DOMAIN Sources \subseteq Present
         /\ \A s \in DOMAIN Sources : Sources[s] = text[s]
  <1> DEFINE stream == StreamToRead
             S == {s \in Present : StreamOf[s] = stream}
  <1>1. Sources = Restrict(text, S)
    BY DEF Sources, TextsOf
  <1>2. S \in SUBSET Present
    OBVIOUS
  <1> HIDE DEF S
  <1> QED BY <1>1, <1>2, RestrictedTexts

LEMMA SomeTextsRead ==
  ASSUME NEW f \in SomeTexts
  PROVE  DOMAIN f \subseteq Ids /\ \A s \in DOMAIN f : f[s] \in Texts
  BY DEF SomeTexts

LEMMA EmbeddedTyped ==
  ASSUME TextsTypeOK, NEW batch, DOMAIN batch \subseteq Ids,
         \A s \in DOMAIN batch : batch[s] \in Texts,
         NEW by \in {"writer", "reembed", "video"}
  PROVE  Embedded(batch, by) \in [Ids -> Vectors \cup {None}]
  BY DEF TextsTypeOK, Embedded, Vectors, Models

LEMMA FirstExists ==
  ASSUME NEW S \in SUBSET Ids, S # {}
  PROVE  \E s \in S : \A o \in S : Position(s) <= Position(o)
  <1> DEFINE R == OpToRel(<, Nat)
             T == {Position(s) : s \in S}
  <1>1. IsWellFoundedOn(R, Nat)
    BY NatLessThanWellFounded
  <1>2. T \subseteq Nat /\ T # {}
    BY PositionsExist
  <1>3. \E x \in T : \A y \in T : ~ (<<y, x>> \in R)
    <2> HIDE DEF R, T
    <2> QED BY <1>1, <1>2, WFMin
  <1>4. PICK x \in T : \A y \in T : ~ (<<y, x>> \in R)
    BY <1>3
  <1>5. \A y \in T : ~ (y < x)
    BY <1>2, <1>4 DEF OpToRel
  <1>6. PICK s \in S : x = Position(s)
    OBVIOUS
  <1>7. \A o \in S : ~ (Position(o) < Position(s))
    BY <1>5, <1>6
  <1> QED BY <1>7, PositionsExist

\* A translation job's group and what is missing of it are spans of its texts.
LEMMA GroupsAreSpans ==
  ASSUME translating \in TranslationJobs
  PROVE  /\ Missing \subseteq Group /\ Group \subseteq DOMAIN translating.units
         /\ DOMAIN translating.units \subseteq Ids
         /\ \A s \in DOMAIN translating.units : translating.units[s] \in Texts
         /\ Cardinality(Missing) \in Nat /\ Cardinality(Group \ Missing) \in Nat
  <1>1. translating.units \in SomeTexts
    BY DEF TranslationJobs
  <1>2. /\ DOMAIN translating.units \subseteq Ids
        /\ \A s \in DOMAIN translating.units : translating.units[s] \in Texts
    BY <1>1, SomeTextsRead
  <1>3. Missing \subseteq Group /\ Group \subseteq DOMAIN translating.units
    BY DEF Missing, Group
  <1>4. Missing \in SUBSET Ids /\ Group \ Missing \in SUBSET Ids
    BY <1>2, <1>3
  <1> QED BY <1>2, <1>3, <1>4, SegmentsAreFinite

-----------------------------------------------------------------------------
(* Types.                                                                  *)

LEMMA SettingStays ==
  ASSUME [Next]_vars
  PROVE  setting' = setting
  BY DEF Next, JobNext, vars, RefreshQuality, BeginReembed, SelectBatch, WriteBatch,
     StopReembed, ReadVideo, WriteVideo, BeginTranslation, RemoveOrphans, ReadExisting,
     TranslateGroup, GroupFails, RecordOutcome, StopTranslation, ReadSources, DeleteRuns,
     InsertRun, Rewrite

LEMMA BoundsAreNatural ==
  ASSUME setting \in Settings
  PROVE  MaxTranslations \in Nat /\ MaxExtractions \in Nat
  BY TextsAssumption DEF MaxTranslations, MaxExtractions

LEMMA TypeInit ==
  ASSUME Init
  PROVE  TypeInv
  <1>1. CountsTypeOK
    BY BoundsAreNatural DEF Init, CountsTypeOK
  <1>2. PICK models \in [Ids -> Models] :
          vector = [s \in Ids |-> [of |-> text[s], model |-> models[s], by |-> "writer"]]
    BY DEF Init, Models
  <1>3. \A s \in Ids : text[s] \in Texts
    BY DEF Init
  <1>4. vector \in [Ids -> Vectors \cup {None}]
    BY <1>2, <1>3 DEF Vectors
  <1>5. TextsTypeOK
    BY <1>4 DEF Init, TextsTypeOK
  <1>6. JobsTypeOK
    BY DEF Init, JobsTypeOK
  <1> QED BY <1>1, <1>5, <1>6 DEF TypeInv

\* A rewrite.
LEMMA RewriteTyped ==
  ASSUME TypeInv, NEW stream \in Range(Streams), Rewrite(stream)
  PROVE  TypeInv'
  <1> DEFINE own == {s \in Ids : StreamOf[s] = stream}
  <1>1. PICK new \in [own -> Texts \cup {None}] :
          /\ text' = [s \in Ids |-> IF s \in own THEN new[s] ELSE text[s]]
          /\ vector' = [s \in Ids |->
               IF s \notin own THEN vector[s]
               ELSE IF new[s] = None THEN None
               ELSE [of |-> new[s], model |-> "current", by |-> "writer"]]
    BY DEF Rewrite
  <1>2. /\ mentions' = {m \in mentions : m.span \notin own} /\ rewrites' = rewrites + 1
        /\ UNCHANGED <<setting, preferred, translated, outcome, runs, jobs,
                       translations, extractions>>
    BY DEF Rewrite
  <1> HIDE DEF own
  <1>3. \A s \in Ids : s \in own /\ new[s] # None =>
          [of |-> new[s], model |-> "current", by |-> "writer"] \in Vectors
    BY DEF Vectors, Models
  <1>4. text' \in [Ids -> Texts \cup {None}]
    BY <1>1 DEF TypeInv, TextsTypeOK
  <1>5. vector' \in [Ids -> Vectors \cup {None}]
    BY <1>1, <1>3 DEF TypeInv, TextsTypeOK
  <1>6. /\ Rows' = Rows /\ MaxExtractions' = MaxExtractions
        /\ MaxTranslations' = MaxTranslations /\ ExtractionJobs' = ExtractionJobs
    BY <1>2 DEF Rows, MaxExtractions, MaxTranslations, ExtractionJobs
  <1>7. TextsTypeOK'
    BY <1>2, <1>4, <1>5, <1>6 DEF TypeInv, TextsTypeOK
  <1>8. CountsTypeOK' /\ JobsTypeOK'
    BY <1>2, <1>6 DEF TypeInv, CountsTypeOK, JobsTypeOK, jobs
  <1> QED BY <1>7, <1>8 DEF TypeInv

\* A step that leaves the translations, extractions and what they made alone.
LEMMA VectorsTyped ==
  ASSUME TypeInv,
         \/ RefreshQuality \/ BeginReembed \/ SelectBatch \/ WriteBatch \/ StopReembed
         \/ ReadVideo \/ WriteVideo
  PROVE  TypeInv'
  <1> USE DEF TypeInv
  <1>1. SUFFICES /\ vector' \in [Ids -> Vectors \cup {None}]
                 /\ preferred' \in Range(Streams) \cup {None}
                 /\ reembedding' # None => reembedding' \in ReembedJobs
                 /\ reembeddingVideo' # None => reembeddingVideo' \in SomeTexts
    <2>1. /\ UNCHANGED <<setting, text, translated, outcome, runs, mentions, translating,
                         extracting, counts>>
      BY DEF RefreshQuality, BeginReembed, SelectBatch, WriteBatch, StopReembed,
         ReadVideo, WriteVideo, tables, jobs
    <2>2. /\ Rows' = Rows /\ MaxExtractions' = MaxExtractions
          /\ MaxTranslations' = MaxTranslations /\ ExtractionJobs' = ExtractionJobs
      BY <2>1 DEF Rows, MaxExtractions, MaxTranslations, ExtractionJobs
    <2> QED BY <1>1, <2>1, <2>2 DEF CountsTypeOK, JobsTypeOK, TextsTypeOK, counts
  <1>2. /\ vector \in [Ids -> Vectors \cup {None}]
        /\ preferred \in Range(Streams) \cup {None}
        /\ reembedding # None => reembedding \in ReembedJobs
        /\ reembeddingVideo # None => reembeddingVideo \in SomeTexts
    BY DEF TextsTypeOK, JobsTypeOK
  <1>3. CASE RefreshQuality
    <2>1. preferred' \in Range(Streams)
      BY <1>3 DEF RefreshQuality, Range
    <2> QED BY <1>2, <1>3, <2>1 DEF RefreshQuality, jobs
  <1>4. CASE BeginReembed
    <2>1. Pending \in SUBSET Ids
      BY DEF Pending, Present
    <2>2. Cardinality(Pending) \in Nat
      BY <2>1, SegmentsAreFinite
    <2>3. reembedding' \in ReembedJobs
      BY <1>4, <2>2 DEF BeginReembed, ReembedJobs
    <2> QED BY <1>2, <1>4, <2>3 DEF BeginReembed, tables
  <1>5. CASE SelectBatch
    <2> DEFINE next == {s \in Pending : Position(s) > reembedding.after}
    <2>1. reembedding \in ReembedJobs
      BY <1>2, <1>5 DEF SelectBatch
    <2>2. UNCHANGED <<vector, preferred, reembeddingVideo>>
      BY <1>5 DEF SelectBatch, tables
    <2>3. CASE reembedding.done >= reembedding.goal \/ next = {}
      <3>1. reembedding' = [reembedding EXCEPT !.step = "done"]
        BY <1>5, <2>3 DEF SelectBatch
      <3>2. reembedding' \in ReembedJobs
        BY <2>1, <3>1 DEF ReembedJobs
      <3> QED BY <1>2, <2>2, <3>2
    <2>4. CASE ~ (reembedding.done >= reembedding.goal \/ next = {})
      <3> DEFINE s == CHOOSE s \in next : \A o \in next : Position(s) <= Position(o)
      <3>1. reembedding' = [reembedding EXCEPT !.step = "write", !.after = Position(s),
                                               !.batch = Restrict(text, {s})]
        BY <1>5, <2>4 DEF SelectBatch
      <3>2. next \in SUBSET Ids /\ next \subseteq Present
        BY DEF Pending, Present
      <3>3. s \in next
        <4> HIDE DEF next
        <4>1. \E t \in next : \A o \in next : Position(t) <= Position(o)
          BY <2>4, <3>2, FirstExists DEF next
        <4> QED BY <4>1
      <3> HIDE DEF s, next
      <3>4. Position(s) \in Nat
        BY <3>2, <3>3, PositionsExist
      <3>5. Restrict(text, {s}) \in SomeTexts
        <4>1. {s} \in SUBSET Present
          BY <3>2, <3>3
        <4> QED BY <4>1, RestrictedTexts
      <3>6. reembedding' \in ReembedJobs
        BY <2>1, <3>1, <3>4, <3>5 DEF ReembedJobs
      <3> QED BY <1>2, <2>2, <3>6
    <2> QED BY <2>3, <2>4
  <1>6. CASE WriteBatch
    <2> DEFINE batch == reembedding.batch
               same == {s \in DOMAIN batch : text[s] = batch[s]}
    <2>1. reembedding \in ReembedJobs
      BY <1>2, <1>6 DEF WriteBatch
    <2>2. /\ vector' = Embedded(Restrict(batch, same), "reembed")
          /\ reembedding' = [reembedding EXCEPT
               !.step = "select", !.batch = <<>>,
               !.done = reembedding.done + Cardinality(DOMAIN batch)]
          /\ UNCHANGED <<preferred, reembeddingVideo>>
      BY <1>6 DEF WriteBatch
    <2>3. batch \in {<<>>} \cup SomeTexts /\ reembedding.done \in Nat
      BY <2>1 DEF ReembedJobs
    <2>4. /\ DOMAIN batch \subseteq Ids /\ \A s \in DOMAIN batch : batch[s] \in Texts
      <3>1. CASE batch = <<>>
        BY <3>1
      <3>2. CASE batch \in SomeTexts
        <4> HIDE DEF batch
        <4> QED BY <3>2, SomeTextsRead
      <3> QED BY <2>3, <3>1, <3>2
    <2>5. Cardinality(DOMAIN batch) \in Nat
      BY <2>4, SegmentsAreFinite
    <2> HIDE DEF batch
    <2>6. vector' \in [Ids -> Vectors \cup {None}]
      <3>1. /\ DOMAIN Restrict(batch, same) \subseteq Ids
            /\ \A s \in DOMAIN Restrict(batch, same) : Restrict(batch, same)[s] \in Texts
        BY <2>4 DEF Restrict
      <3> QED BY <2>2, <3>1, EmbeddedTyped
    <2>7. reembedding' \in ReembedJobs
      <3>1. reembedding.done + Cardinality(DOMAIN batch) \in Nat
        BY <2>3, <2>5
      <3> QED BY <2>1, <2>2, <3>1 DEF ReembedJobs
    <2> QED BY <1>2, <2>2, <2>6, <2>7
  <1>7. CASE StopReembed
    BY <1>2, <1>7 DEF StopReembed, tables
  <1>8. CASE ReadVideo
    <2>1. Restrict(text, Present) \in SomeTexts
      BY RestrictedTexts
    <2> QED BY <1>2, <1>8, <2>1 DEF ReadVideo, tables
  <1>9. CASE WriteVideo
    <2> DEFINE batch == Restrict(reembeddingVideo, DOMAIN reembeddingVideo \cap Present)
    <2>1. reembeddingVideo \in SomeTexts
      BY <1>2, <1>9 DEF WriteVideo
    <2>2. DOMAIN batch \subseteq Ids /\ \A s \in DOMAIN batch : batch[s] \in Texts
      BY <2>1, SomeTextsRead DEF Restrict
    <2>3. vector' = Embedded(batch, "video")
      BY <1>9 DEF WriteVideo
    <2>4. vector' \in [Ids -> Vectors \cup {None}]
      <3> HIDE DEF batch
      <3> QED BY <2>2, <2>3, EmbeddedTyped
    <2> QED BY <1>2, <1>9, <2>4 DEF WriteVideo
  <1> QED BY <1>3, <1>4, <1>5, <1>6, <1>7, <1>8, <1>9

LEMMA TranslationTyped ==
  ASSUME TypeInv,
         \/ BeginTranslation \/ RemoveOrphans \/ ReadExisting \/ TranslateGroup
         \/ GroupFails \/ RecordOutcome \/ StopTranslation
  PROVE  TypeInv'
  <1> USE DEF TypeInv
  <1>1. /\ UNCHANGED <<setting, text, vector, preferred, runs, mentions, reembedding,
                       reembeddingVideo, extracting, rewrites, extractions>>
    BY DEF BeginTranslation, RemoveOrphans, ReadExisting, TranslateGroup, GroupFails,
       RecordOutcome, StopTranslation, tables, counts
  <1>2. SUFFICES /\ translations' \in 0..MaxTranslations
                 /\ translated' \in [Ids \X Range(Targets) -> Rows \cup {None}]
                 /\ outcome' \in [Range(Targets) -> Outcomes \cup {None}]
                 /\ translating' # None => translating' \in TranslationJobs /\ translations' > 0
    <2>1. /\ Rows' = Rows /\ MaxExtractions' = MaxExtractions
          /\ MaxTranslations' = MaxTranslations /\ ExtractionJobs' = ExtractionJobs
      BY <1>1 DEF Rows, MaxExtractions, MaxTranslations, ExtractionJobs
    <2> QED BY <1>1, <1>2, <2>1 DEF CountsTypeOK, JobsTypeOK, TextsTypeOK
  <1>3. /\ translations \in 0..MaxTranslations
        /\ translated \in [Ids \X Range(Targets) -> Rows \cup {None}]
        /\ outcome \in [Range(Targets) -> Outcomes \cup {None}]
        /\ translating # None => translating \in TranslationJobs /\ translations > 0
        /\ MaxTranslations \in Nat
    BY BoundsAreNatural DEF TextsTypeOK, JobsTypeOK, CountsTypeOK
  <1>4. CASE BeginTranslation
    <2>1. PICK refresh \in BOOLEAN, config \in Configs :
            translating' = [step |-> "orphans", units |-> Sources, refresh |-> refresh,
              config |-> config, existing |-> <<>>, target |-> 1, language |-> 1,
              translated |-> 0, reused |-> 0, failed |-> FALSE]
      BY <1>4 DEF BeginTranslation
    <2>2. Sources \in SomeTexts
      BY SourcesAreTexts
    <2>3. translating' \in TranslationJobs
      BY <2>1, <2>2 DEF TranslationJobs
    <2>4. translations' \in 0..MaxTranslations /\ translations' > 0
      BY <1>3, <1>4 DEF BeginTranslation
    <2> QED BY <1>3, <1>4, <2>3, <2>4 DEF BeginTranslation, tables
  <1>5. CASE RemoveOrphans
    <2>1. translating \in TranslationJobs /\ translations > 0
      BY <1>3, <1>5 DEF RemoveOrphans
    <2>2. translating' \in TranslationJobs
      BY <1>5, <2>1 DEF RemoveOrphans, TranslationJobs
    <2>3. translated' \in [Ids \X Range(Targets) -> Rows \cup {None}]
      BY <1>3, <1>5 DEF RemoveOrphans
    <2> QED BY <1>3, <1>5, <2>1, <2>2, <2>3 DEF RemoveOrphans, counts
  <1>6. CASE ReadExisting
    <2> DEFINE D == {q \in DOMAIN translated : translated[q] # None}
               existing == [q \in D |-> <<translated[q].hash, translated[q].config>>]
    <2>1. translating \in TranslationJobs /\ translations > 0
      BY <1>3, <1>6 DEF ReadExisting
    <2>2. \A q \in D : <<translated[q].hash, translated[q].config>> \in Texts \X Configs
      BY <1>3 DEF Rows, RowsOf
    <2>3. existing \in [D -> Texts \X Configs] /\ D \in SUBSET (Ids \X Range(Targets))
      BY <1>3, <2>2
    <2>4. translating' = [translating EXCEPT !.step = "group", !.existing = existing]
      BY <1>6 DEF ReadExisting
    <2> HIDE DEF existing, D
    <2>5. translating' \in TranslationJobs
      BY <2>1, <2>3, <2>4 DEF TranslationJobs
    <2> QED BY <1>3, <1>6, <2>1, <2>5 DEF ReadExisting, tables, counts
  <1>7. CASE TranslateGroup
    <2>1. translating \in TranslationJobs /\ translations > 0
      BY <1>3, <1>7 DEF TranslateGroup, InGroup
    <2>2. /\ Missing \subseteq DOMAIN translating.units
          /\ \A s \in DOMAIN translating.units : translating.units[s] \in Texts
          /\ Cardinality(Missing) \in Nat /\ Cardinality(Group \ Missing) \in Nat
      BY <2>1, GroupsAreSpans
    <2>3. \A s \in Missing : [of |-> translating.units[s], hash |-> translating.units[s],
            config |-> translating.config, by |-> translations] \in Rows
      BY <1>3, <2>1, <2>2 DEF TranslationJobs, Rows, RowsOf
    <2>4. translated' \in [Ids \X Range(Targets) -> Rows \cup {None}]
      BY <1>3, <1>7, <2>3 DEF TranslateGroup
    <2>5. PICK l \in Nat, m \in Nat, r \in Nat :
            translating' = [translating EXCEPT !.language = l, !.translated = m, !.reused = r]
      <3>1. /\ translating.language + 1 \in Nat
            /\ translating.translated + Cardinality(Missing) \in Nat
            /\ translating.reused + Cardinality(Group \ Missing) \in Nat
        BY <2>1, <2>2 DEF TranslationJobs
      <3> QED BY <1>7, <3>1 DEF TranslateGroup
    <2>6. translating' \in TranslationJobs
      BY <2>1, <2>5 DEF TranslationJobs
    <2> QED BY <1>3, <1>7, <2>1, <2>4, <2>6 DEF TranslateGroup, counts
  <1>8. CASE GroupFails
    <2>1. translating \in TranslationJobs /\ translations > 0
      BY <1>3, <1>8 DEF GroupFails, InGroup
    <2>2. translating' \in TranslationJobs
      BY <1>8, <2>1 DEF GroupFails, TranslationJobs
    <2> QED BY <1>3, <1>8, <2>1, <2>2 DEF GroupFails, tables, counts
  <1>9. CASE RecordOutcome
    <2>1. translating \in TranslationJobs /\ translations > 0
      BY <1>3, <1>9 DEF RecordOutcome
    <2>2. OutcomeOf \in Outcomes
      BY DEF OutcomeOf, Outcomes
    <2>3. outcome' \in [Range(Targets) -> Outcomes \cup {None}]
      <3>1. outcome' = [outcome EXCEPT ![Target] = OutcomeOf]
        BY <1>9 DEF RecordOutcome
      <3> QED BY <1>3, <2>2, <3>1
    <2>4. translating' # None => translating' \in TranslationJobs
      <3>1. PICK next \in Nat : next = translating.target + 1
        BY <2>1 DEF TranslationJobs
      <3>2. \/ translating' = None
            \/ translating' = [translating EXCEPT !.target = next, !.language = 1,
                                 !.translated = 0, !.reused = 0, !.failed = FALSE]
        BY <1>9, <3>1 DEF RecordOutcome
      <3>3. [translating EXCEPT !.target = next, !.language = 1, !.translated = 0,
                                !.reused = 0, !.failed = FALSE] \in TranslationJobs
        BY <2>1 DEF TranslationJobs
      <3> QED BY <3>2, <3>3
    <2> QED BY <1>3, <1>9, <2>1, <2>3, <2>4 DEF RecordOutcome, counts
  <1>10. CASE StopTranslation
    BY <1>3, <1>10 DEF StopTranslation, tables, counts
  <1> QED BY <1>4, <1>5, <1>6, <1>7, <1>8, <1>9, <1>10

LEMMA ExtractionTyped ==
  ASSUME TypeInv, NEW e \in Extractors, ReadSources(e) \/ DeleteRuns(e) \/ InsertRun(e)
  PROVE  TypeInv'
  <1> USE DEF TypeInv
  <1>1. /\ UNCHANGED <<setting, text, vector, preferred, translated, outcome, translating,
                       reembedding, reembeddingVideo, rewrites, translations>>
    BY DEF ReadSources, DeleteRuns, InsertRun, tables, counts
  <1>2. SUFFICES /\ extractions' \in 0..MaxExtractions
                 /\ runs' \subseteq 1..MaxExtractions
                 /\ mentions' \subseteq [span : Ids, of : Texts, run : 1..MaxExtractions]
                 /\ extracting' \in [Extractors -> ExtractionJobs \cup {None}]
    <2>1. /\ Rows' = Rows /\ MaxExtractions' = MaxExtractions
          /\ MaxTranslations' = MaxTranslations /\ ExtractionJobs' = ExtractionJobs
      BY <1>1 DEF Rows, MaxExtractions, MaxTranslations, ExtractionJobs
    <2> QED BY <1>1, <1>2, <2>1 DEF CountsTypeOK, JobsTypeOK, TextsTypeOK
  <1>3. /\ extractions \in 0..MaxExtractions /\ MaxExtractions \in Nat
        /\ runs \subseteq 1..MaxExtractions
        /\ mentions \subseteq [span : Ids, of : Texts, run : 1..MaxExtractions]
        /\ extracting \in [Extractors -> ExtractionJobs \cup {None}]
    BY BoundsAreNatural DEF TextsTypeOK, JobsTypeOK, CountsTypeOK
  <1>4. CASE ReadSources(e)
    <2>1. Sources \in SomeTexts
      BY SourcesAreTexts
    <2>2. extractions + 1 \in 1..MaxExtractions /\ extractions' = extractions + 1
      BY <1>3, <1>4 DEF ReadSources
    <2>3. [step |-> "delete", sources |-> Sources, id |-> extractions + 1, seen |-> {}]
            \in ExtractionJobs
      BY <2>1, <2>2 DEF ExtractionJobs
    <2>4. extracting' \in [Extractors -> ExtractionJobs \cup {None}]
      BY <1>3, <1>4, <2>3 DEF ReadSources
    <2> QED BY <1>3, <1>4, <2>2, <2>4 DEF ReadSources, tables
  <1>5. CASE DeleteRuns(e)
    <2>1. extracting[e] \in ExtractionJobs
      BY <1>3, <1>5 DEF DeleteRuns
    <2>2. [extracting[e] EXCEPT !.step = "insert", !.seen = runs] \in ExtractionJobs
      <3>1. runs \in SUBSET Nat
        BY <1>3
      <3> QED BY <2>1, <3>1 DEF ExtractionJobs
    <2>3. extracting' = [extracting EXCEPT
            ![e] = [extracting[e] EXCEPT !.step = "insert", !.seen = runs]]
      BY <1>3, <1>5 DEF DeleteRuns
    <2>4. extracting' \in [Extractors -> ExtractionJobs \cup {None}]
      BY <1>3, <2>2, <2>3
    <2> QED BY <1>3, <1>5, <2>4 DEF DeleteRuns, tables, counts
  <1>6. CASE InsertRun(e)
    <2>1. extracting[e] \in ExtractionJobs
      BY <1>3, <1>6 DEF InsertRun
    <2>2. /\ extracting[e].sources \in SomeTexts /\ extracting[e].id \in 1..MaxExtractions
      BY <2>1 DEF ExtractionJobs
    <2>3. Found(extracting[e]) \subseteq [span : Ids, of : Texts, run : 1..MaxExtractions]
      BY <2>2, SomeTextsRead DEF Found
    <2>4. extracting' \in [Extractors -> ExtractionJobs \cup {None}]
      BY <1>3, <1>6 DEF InsertRun
    <2>5. /\ runs' \subseteq runs \cup {extracting[e].id}
          /\ mentions' \subseteq mentions \cup Found(extracting[e])
          /\ extractions' = extractions
      BY <1>6 DEF InsertRun, counts
    <2> QED BY <1>3, <2>2, <2>3, <2>4, <2>5
  <1> QED BY <1>4, <1>5, <1>6

LEMMA TypeStep ==
  ASSUME TypeInv, [Next]_vars
  PROVE  TypeInv'
  <1>1. CASE UNCHANGED vars
    BY <1>1 DEF vars, tables, jobs, counts, TypeInv, CountsTypeOK, TextsTypeOK, JobsTypeOK,
       MaxTranslations, MaxExtractions, Rows, ExtractionJobs
  <1>2. CASE Next
    BY <1>2, RewriteTyped, VectorsTyped, TranslationTyped, ExtractionTyped DEF Next, JobNext
  <1> QED BY <1>1, <1>2

-----------------------------------------------------------------------------
(* Vectors.                                                                *)

LEMMA RecordsAreNotNone ==
  /\ None \notin Texts /\ None \notin Vectors /\ None \notin RowsOf(Nat) /\ None \notin Ids
  BY NoneAssumption

VectorsSound ==
  \A s \in Ids :
    /\ vector[s] = None <=> text[s] = None
    /\ vector[s] # None => vector[s].of = text[s] \/ vector[s].by = "video"

\* A re-embedding has passed the segments up to `after`, and what is pending behind them is
\* within what is left of the goal and what the limit left out.  In a batch is one segment, pending only if it says still
\* what was read.
ReembedSound ==
  reembedding # None =>
    /\ reembedding.step = "select" =>
         /\ \A s \in Pending : Position(s) > reembedding.after
         /\ Cardinality(Pending) <= reembedding.beyond + (reembedding.goal - reembedding.done)
    /\ reembedding.step = "write" =>
         \E s \in Ids :
           /\ DOMAIN reembedding.batch = {s}
           /\ s \in Pending => text[s] = reembedding.batch[s]
           /\ \A o \in Pending \ {s} : Position(o) > reembedding.after
           /\ Cardinality(Pending \ {s})
                < reembedding.beyond + (reembedding.goal - reembedding.done)
    /\ reembedding.step = "done" => Cardinality(Pending) <= reembedding.beyond

\* A vector that is written has a text, and is of the current model.
LEMMA EmbeddedIsCurrent ==
  ASSUME TypeInv, NEW batch, NEW by \in {"writer", "reembed", "video"},
         DOMAIN batch \subseteq Present, \A s \in DOMAIN batch : batch[s] \in Texts,
         vector' = Embedded(batch, by), text' = text
  PROVE  /\ \A s \in Ids \ DOMAIN batch : vector'[s] = vector[s]
         /\ \A s \in DOMAIN batch :
              /\ vector'[s] # None /\ vector'[s].of = batch[s] /\ vector'[s].by = by
              /\ vector'[s].model = "current" /\ text[s] # None /\ s \in Ids
  <1>1. \A s \in DOMAIN batch : s \in Ids /\ text[s] # None
    BY DEF Present
  <1>2. \A s \in DOMAIN batch :
          [of |-> batch[s], model |-> "current", by |-> by] \in Vectors
    BY DEF Vectors, Models
  <1> QED BY <1>1, <1>2, RecordsAreNotNone DEF Embedded

\* What WriteBatch and WriteVideo write.
LEMMA BatchIsWritten ==
  ASSUME TypeInv, WriteBatch
  PROVE  /\ \A s \in DOMAIN reembedding.batch : s \in Ids /\ reembedding.batch[s] \in Texts
         /\ \A s \in Ids :
              IF s \in DOMAIN reembedding.batch /\ text[s] = reembedding.batch[s]
              THEN /\ vector'[s] # None /\ vector'[s].of = text[s] /\ text[s] # None
                   /\ vector'[s].model = "current"
              ELSE vector'[s] = vector[s]
         /\ text' = text
  <1> DEFINE batch == reembedding.batch
             same == {s \in DOMAIN batch : text[s] = batch[s]}
  <1>1. reembedding \in ReembedJobs
    BY DEF TypeInv, JobsTypeOK, WriteBatch
  <1>2. batch \in {<<>>} \cup SomeTexts
    BY <1>1 DEF ReembedJobs
  <1>3. vector' = Embedded(Restrict(batch, same), "reembed") /\ text' = text
    BY DEF WriteBatch
  <1>4. /\ DOMAIN batch \subseteq Ids /\ \A s \in DOMAIN batch : batch[s] \in Texts
    <2> HIDE DEF batch
    <2>1. CASE batch = <<>>
      BY <2>1
    <2>2. CASE batch \in SomeTexts
      BY <2>2, SomeTextsRead
    <2> QED BY <1>2, <2>1, <2>2
  <1> HIDE DEF batch
  <1>5. /\ DOMAIN Restrict(batch, same) = same /\ same \subseteq Present
        /\ \A s \in same : Restrict(batch, same)[s] = text[s] /\ text[s] \in Texts
    BY <1>4, RecordsAreNotNone DEF Restrict, Present
  <1> HIDE DEF same
  <1>6. /\ \A s \in Ids \ same : vector'[s] = vector[s]
        /\ \A s \in same :
              /\ vector'[s] # None /\ vector'[s].of = text[s]
              /\ vector'[s].model = "current" /\ text[s] # None
    BY <1>3, <1>5, EmbeddedIsCurrent
  <1> QED BY <1>3, <1>4, <1>6 DEF same, batch

LEMMA VideoIsWritten ==
  ASSUME TypeInv, WriteVideo
  PROVE  /\ \A s \in Ids :
              \/ vector'[s] = vector[s]
              \/ /\ vector'[s] # None /\ vector'[s].by = "video" /\ text[s] # None
                 /\ vector'[s].model = "current"
         /\ text' = text
  <1> DEFINE S == DOMAIN reembeddingVideo \cap Present
             batch == Restrict(reembeddingVideo, S)
  <1>1. reembeddingVideo \in SomeTexts
    BY DEF TypeInv, JobsTypeOK, WriteVideo
  <1>2. vector' = Embedded(batch, "video") /\ text' = text
    BY DEF WriteVideo
  <1>3. DOMAIN batch \subseteq Present /\ \A s \in DOMAIN batch : batch[s] \in Texts
    BY <1>1, SomeTextsRead DEF Restrict
  <1> HIDE DEF batch
  <1> QED BY <1>2, <1>3, EmbeddedIsCurrent

\* A rewrite writes the vectors of its texts.
LEMMA TextIsRewritten ==
  ASSUME TypeInv, NEW stream \in Range(Streams), Rewrite(stream)
  PROVE  /\ \A s \in Ids :
              IF StreamOf[s] = stream
              THEN \/ text'[s] = None /\ vector'[s] = None
                   \/ /\ text'[s] # None /\ vector'[s] # None
                      /\ vector'[s].of = text'[s] /\ vector'[s].model = "current"
              ELSE text'[s] = text[s] /\ vector'[s] = vector[s]
         /\ mentions' = {m \in mentions : StreamOf[m.span] # stream}
  <1> DEFINE own == {s \in Ids : StreamOf[s] = stream}
  <1>1. PICK new \in [own -> Texts \cup {None}] :
          /\ text' = [s \in Ids |-> IF s \in own THEN new[s] ELSE text[s]]
          /\ vector' = [s \in Ids |->
               IF s \notin own THEN vector[s]
               ELSE IF new[s] = None THEN None
               ELSE [of |-> new[s], model |-> "current", by |-> "writer"]]
    BY DEF Rewrite
  <1>2. \A s \in own : new[s] # None =>
          [of |-> new[s], model |-> "current", by |-> "writer"] # None
    <2>1. \A s \in own : new[s] # None =>
            [of |-> new[s], model |-> "current", by |-> "writer"] \in Vectors
      BY DEF Vectors, Models
    <2> QED BY <2>1, RecordsAreNotNone
  <1>3. \A m \in mentions : m.span \in Ids
    BY DEF TypeInv, TextsTypeOK
  <1>4. mentions' = {m \in mentions : m.span \notin own}
    BY DEF Rewrite
  <1>5. mentions' = {m \in mentions : StreamOf[m.span] # stream}
    BY <1>3, <1>4
  <1>6. \A s \in own :
          \/ text'[s] = None /\ vector'[s] = None
          \/ /\ text'[s] # None /\ vector'[s] # None
             /\ vector'[s].of = text'[s] /\ vector'[s].model = "current"
    BY <1>1, <1>2
  <1>7. \A s \in Ids \ own : text'[s] = text[s] /\ vector'[s] = vector[s]
    BY <1>1
  <1> QED BY <1>5, <1>6, <1>7

\* Every other step leaves texts and vectors alone.
LEMMA WhoWritesVectors ==
  ASSUME [Next]_vars
  PROVE  \/ \E stream \in Range(Streams) : Rewrite(stream)
         \/ WriteBatch \/ WriteVideo
         \/ UNCHANGED <<text, vector>>
  BY DEF Next, JobNext, vars, tables, RefreshQuality, BeginReembed, SelectBatch,
     StopReembed, ReadVideo, BeginTranslation, RemoveOrphans, ReadExisting,
     TranslateGroup, GroupFails, RecordOutcome, StopTranslation, ReadSources, DeleteRuns,
     InsertRun

LEMMA VectorsStay ==
  ASSUME TypeInv, VectorsSound, [Next]_vars
  PROVE  VectorsSound'
  <1>1. ASSUME NEW stream \in Range(Streams), Rewrite(stream)
        PROVE  VectorsSound'
    BY <1>1, TextIsRewritten DEF VectorsSound
  <1>2. CASE WriteBatch
    BY <1>2, BatchIsWritten DEF VectorsSound
  <1>3. CASE WriteVideo
    BY <1>3, VideoIsWritten DEF VectorsSound
  <1>4. CASE UNCHANGED <<text, vector>>
    BY <1>4 DEF VectorsSound
  <1> QED BY <1>1, <1>2, <1>3, <1>4, WhoWritesVectors

\* No step adds to the segments that wait for a vector, or changes the text of one that
\* still waits.
LEMMA PendingShrinks ==
  ASSUME TypeInv, VectorsSound, [Next]_vars
  PROVE  Pending' \subseteq Pending /\ \A s \in Pending' : text'[s] = text[s]
  <1>1. ASSUME NEW stream \in Range(Streams), Rewrite(stream)
        PROVE  Pending' \subseteq Pending /\ \A s \in Pending' : text'[s] = text[s]
    BY <1>1, TextIsRewritten DEF Pending, Present
  <1>2. CASE WriteBatch
    BY <1>2, BatchIsWritten DEF Pending, Present
  <1>3. CASE WriteVideo
    BY <1>3, VideoIsWritten DEF Pending, Present
  <1>4. CASE UNCHANGED <<text, vector>>
    BY <1>4 DEF Pending, Present
  <1> QED BY <1>1, <1>2, <1>3, <1>4, WhoWritesVectors

\* A step of others leaves a re-embedding as far from its end as it was, or nearer.
LEMMA ReembedWaits ==
  ASSUME TypeInv, VectorsSound, ReembedSound, [Next]_vars, reembedding' = reembedding
  PROVE  ReembedSound'
  <1> SUFFICES ASSUME reembedding # None
               PROVE  ReembedSound'
    BY DEF ReembedSound
  <1> DEFINE job == reembedding
             left == Pending'
  <1>1. job \in ReembedJobs /\ job.goal \in Nat /\ job.done \in Nat /\ job.beyond \in Nat
    BY DEF TypeInv, JobsTypeOK, ReembedJobs
  <1>2. /\ left \subseteq Pending /\ \A s \in left : text'[s] = text[s]
        /\ Pending \in SUBSET Ids
    BY PendingShrinks DEF Pending, Present
  <1> HIDE DEF left
  <1>3. ASSUME NEW S \in SUBSET Pending, NEW T \in SUBSET S
        PROVE  Cardinality(T) <= Cardinality(S) /\ Cardinality(T) \in Nat /\ Cardinality(S) \in Nat
    <2>1. IsFiniteSet(S) /\ Cardinality(S) \in Nat /\ Cardinality(T) \in Nat
      BY <1>2, SegmentsAreFinite
    <2> QED BY <2>1, FS_Subset
  <1>4. ASSUME job.step = "select"
        PROVE  /\ \A s \in left : Position(s) > job.after
               /\ Cardinality(left) <= job.beyond + (job.goal - job.done)
    <2>1. /\ \A s \in Pending : Position(s) > job.after
          /\ Cardinality(Pending) <= job.beyond + (job.goal - job.done)
      BY <1>4 DEF ReembedSound
    <2> QED BY <1>1, <1>2, <1>3, <2>1
  <1>5. ASSUME job.step = "write"
        PROVE  \E s \in Ids :
                 /\ DOMAIN job.batch = {s}
                 /\ s \in left => text'[s] = job.batch[s]
                 /\ \A o \in left \ {s} : Position(o) > job.after
                 /\ Cardinality(left \ {s}) < job.beyond + (job.goal - job.done)
    <2>1. PICK s \in Ids :
            /\ DOMAIN job.batch = {s}
            /\ s \in Pending => text[s] = job.batch[s]
            /\ \A o \in Pending \ {s} : Position(o) > job.after
            /\ Cardinality(Pending \ {s}) < job.beyond + (job.goal - job.done)
      BY <1>5 DEF ReembedSound
    <2>2. /\ Cardinality(left \ {s}) <= Cardinality(Pending \ {s})
          /\ Cardinality(left \ {s}) \in Nat /\ Cardinality(Pending \ {s}) \in Nat
      BY <1>2, <1>3
    <2>3. Cardinality(left \ {s}) < job.beyond + (job.goal - job.done)
      BY <1>1, <2>1, <2>2
    <2> QED BY <1>2, <2>1, <2>3
  <1>6. job.step = "done" => Cardinality(left) <= job.beyond
    <2>1. job.step = "done" => Cardinality(Pending) <= job.beyond
      BY DEF ReembedSound
    <2>2. Cardinality(left) <= Cardinality(Pending) /\ Cardinality(left) \in Nat
          /\ Cardinality(Pending) \in Nat
      BY <1>2, <1>3
    <2> QED BY <1>1, <2>1, <2>2
  <1> QED BY <1>4, <1>5, <1>6 DEF ReembedSound, left

LEMMA ReembedStays ==
  ASSUME TypeInv, VectorsSound, ReembedSound, [Next]_vars
  PROVE  ReembedSound'
  <1>1. CASE BeginReembed
    <2>1. PICK goal \in 0..Cardinality(Pending) :
            reembedding' = [step |-> "select", goal |-> goal,
                            beyond |-> Cardinality(Pending) - goal,
                            done |-> 0, after |-> 0, batch |-> <<>>]
      BY <1>1 DEF BeginReembed
    <2>5. text' = text /\ vector' = vector
      BY <1>1 DEF BeginReembed, tables
    <2>2. Pending' = Pending /\ Pending \in SUBSET Ids
      BY <2>5 DEF Pending, Present
    <2>3. Cardinality(Pending) \in Nat
      BY <2>2, SegmentsAreFinite
    <2>4. \A s \in Pending : Position(s) > 0
      BY <2>2, PositionsExist
    <2> QED BY <2>1, <2>2, <2>3, <2>4 DEF ReembedSound
  <1>2. CASE SelectBatch
    <2> DEFINE job == reembedding
               next == {s \in Pending : Position(s) > job.after}
    <2>1. job # None /\ job.step = "select" /\ text' = text /\ vector' = vector
      BY <1>2 DEF SelectBatch, tables
    <2>2. job \in ReembedJobs /\ {job.goal, job.beyond, job.done} \subseteq Nat
      BY <2>1 DEF TypeInv, JobsTypeOK, ReembedJobs
    <2>3. /\ Pending' = Pending /\ Pending \in SUBSET Ids /\ Pending \subseteq Present
      BY <2>1 DEF Pending, Present
    <2>4. next = Pending /\ Cardinality(Pending) <= job.beyond + (job.goal - job.done)
      BY <2>1 DEF ReembedSound
    <2>5. IsFiniteSet(Pending) /\ Cardinality(Pending) \in Nat
      BY <2>3, SegmentsAreFinite
    <2>6. CASE job.done >= job.goal \/ next = {}
      <3>1. job' = [job EXCEPT !.step = "done"]
        BY <1>2, <2>6 DEF SelectBatch
      <3>2. job'.step = "done" /\ job'.beyond = job.beyond
        BY <2>2, <3>1 DEF ReembedJobs
      <3>3. Cardinality(Pending) <= job.beyond
        <4>1. CASE next = {}
          BY <2>2, <2>4, <4>1, FS_EmptySet
        <4>2. CASE job.done >= job.goal
          BY <2>2, <2>4, <2>5, <4>2
        <4> QED BY <2>6, <4>1, <4>2
      <3> QED BY <2>3, <3>2, <3>3 DEF ReembedSound
    <2>7. CASE ~ (job.done >= job.goal \/ next = {})
      <3> DEFINE s == CHOOSE s \in Pending : \A o \in Pending : Position(s) <= Position(o)
      <3>1. job' = [job EXCEPT !.step = "write", !.after = Position(s),
                               !.batch = Restrict(text, {s})]
        <4> HIDE DEF next
        <4>1. job' = LET n == CHOOSE n \in next : \A o \in next : Position(n) <= Position(o)
                     IN [job EXCEPT !.step = "write", !.after = Position(n),
                                    !.batch = Restrict(text, {n})]
          BY <1>2, <2>7 DEF SelectBatch, next
        <4> QED BY <2>4, <4>1
      <3>2. s \in Pending /\ \A o \in Pending : Position(s) <= Position(o)
        <4>1. \E n \in Pending : \A o \in Pending : Position(n) <= Position(o)
          BY <2>3, <2>4, <2>7, FirstExists
        <4> QED BY <4>1
      <3> HIDE DEF s
      <3>3. /\ job'.step = "write" /\ job'.after = Position(s)
            /\ job'.batch = Restrict(text, {s})
            /\ job'.goal = job.goal /\ job'.beyond = job.beyond /\ job'.done = job.done
        BY <2>2, <3>1 DEF ReembedJobs
      <3>4. DOMAIN job'.batch = {s} /\ job'.batch[s] = text[s]
        BY <3>3 DEF Restrict
      <3>5. \A o \in Pending \ {s} : Position(o) > job'.after
        <4>1. ASSUME NEW o \in Pending \ {s}
              PROVE  Position(o) > Position(s)
          <5>1. /\ Position(o) \in Nat /\ Position(s) \in Nat
                /\ Spans[Position(o)] = o /\ Spans[Position(s)] = s
            BY <2>3, <3>2, PositionsExist
          <5> QED BY <3>2, <5>1
        <4> QED BY <3>3, <4>1
      <3>6. Cardinality(Pending \ {s}) < job'.beyond + (job'.goal - job'.done)
        <4>1. Cardinality(Pending \ {s}) = Cardinality(Pending) - 1
          BY <2>5, <3>2, FS_RemoveElement
        <4> QED BY <2>2, <2>4, <2>5, <3>3, <4>1
      <3> HIDE DEF job
      <3>7. s \in Ids /\ Pending' = Pending /\ text' = text
        BY <2>1, <2>3, <3>2
      <3> QED BY <3>3, <3>4, <3>5, <3>6, <3>7 DEF ReembedSound, job
    <2> QED BY <2>6, <2>7
  <1>3. CASE WriteBatch
    <2> DEFINE job == reembedding
    <2>1. job # None /\ job.step = "write"
      BY <1>3 DEF WriteBatch
    <2>2. job \in ReembedJobs /\ {job.goal, job.beyond, job.done} \subseteq Nat
      BY <2>1 DEF TypeInv, JobsTypeOK, ReembedJobs
    <2>3. PICK s \in Ids :
            /\ DOMAIN job.batch = {s}
            /\ s \in Pending => text[s] = job.batch[s]
            /\ \A o \in Pending \ {s} : Position(o) > job.after
            /\ Cardinality(Pending \ {s}) < job.beyond + (job.goal - job.done)
      BY <2>1 DEF ReembedSound
    <2>4. job' = [job EXCEPT !.step = "select", !.batch = <<>>,
                             !.done = job.done + Cardinality({s})]
      BY <1>3, <2>3 DEF WriteBatch
    <2>5. /\ job'.step = "select" /\ job'.goal = job.goal /\ job'.after = job.after
          /\ job'.beyond = job.beyond /\ job'.done = job.done + 1
      <3>1. Cardinality({s}) = 1
        BY FS_Singleton
      <3> QED BY <2>2, <2>4, <3>1 DEF ReembedJobs
    <2>6. Pending' \subseteq Pending \ {s}
      <3>1. Pending' \subseteq Pending
        BY PendingShrinks
      <3>2. s \notin Pending'
        BY <1>3, <2>3, <3>1, BatchIsWritten DEF Pending
      <3> QED BY <3>1, <3>2
    <2>7. /\ Cardinality(Pending') <= Cardinality(Pending \ {s})
          /\ Cardinality(Pending') \in Nat /\ Cardinality(Pending \ {s}) \in Nat
      <3>1. Pending \ {s} \in SUBSET Ids /\ Pending' \in SUBSET Ids
        BY <2>6 DEF Pending, Present
      <3>2. IsFiniteSet(Pending \ {s})
        BY <3>1, SegmentsAreFinite
      <3> QED BY <2>6, <3>1, <3>2, SegmentsAreFinite, FS_Subset
    <2>8. Cardinality(Pending') <= job'.beyond + (job'.goal - job'.done)
      BY <2>2, <2>3, <2>5, <2>7
    <2>9. \A o \in Pending' : Position(o) > job'.after
      BY <2>3, <2>5, <2>6
    <2> QED BY <2>5, <2>8, <2>9 DEF ReembedSound
  <1>4. CASE StopReembed
    BY <1>4 DEF StopReembed, ReembedSound
  <1>5. \/ BeginReembed \/ SelectBatch \/ WriteBatch \/ StopReembed
        \/ reembedding' = reembedding
    BY DEF Next, JobNext, vars, jobs, RefreshQuality, ReadVideo, WriteVideo,
       BeginTranslation, RemoveOrphans, ReadExisting, TranslateGroup, GroupFails,
       RecordOutcome, StopTranslation, ReadSources, DeleteRuns, InsertRun, Rewrite
  <1> QED BY <1>1, <1>2, <1>3, <1>4, <1>5, ReembedWaits

-----------------------------------------------------------------------------
(* Entity mentions.                                                        *)

LEMMA MentionsStay ==
  ASSUME TypeInv, OneEntityRun, [Next]_vars
  PROVE  OneEntityRun'
  <1>1. \A m \in mentions : m.span \in Ids
    BY DEF TypeInv, TextsTypeOK
  <1>2. ASSUME NEW stream \in Range(Streams), Rewrite(stream)
        PROVE  OneEntityRun'
    <2>1. runs' = runs
      BY <1>2 DEF Rewrite
    <2> QED BY <1>1, <1>2, <2>1, TextIsRewritten DEF OneEntityRun
  <1>3. ASSUME NEW e \in Extractors, InsertRun(e)
        PROVE  OneEntityRun'
    <2> DEFINE job == extracting[e]
    <2>1. job \in ExtractionJobs /\ text' = text
      BY <1>3 DEF InsertRun, TypeInv, JobsTypeOK
    <2>2. CASE ~ (UniqueHolds(e) /\ KeysHold(e))
      BY <1>3, <2>1, <2>2 DEF InsertRun, OneEntityRun
    <2>3. CASE UniqueHolds(e) /\ KeysHold(e)
      <3>1. /\ runs' = (runs \ job.seen) \cup {job.id}
            /\ mentions' = {m \in mentions : m.run \notin job.seen} \cup Found(job)
        BY <1>3, <2>3 DEF InsertRun
      <3>2. runs \subseteq job.seen /\ DOMAIN job.sources \subseteq Present
        BY <2>3 DEF UniqueHolds, KeysHold
      <3>3. runs' = {job.id} /\ mentions' = Found(job)
        BY <3>1, <3>2 DEF OneEntityRun
      <3>4. Cardinality(runs') = 1
        BY <3>3, FS_Singleton
      <3>5. \A m \in Found(job) : m.run = job.id /\ text[m.span] # None
        BY <3>2 DEF Found, Present
      <3> QED BY <2>1, <3>3, <3>4, <3>5 DEF OneEntityRun
    <2> QED BY <2>2, <2>3
  <1>4. CASE UNCHANGED <<text, runs, mentions>>
    BY <1>4 DEF OneEntityRun
  <1>5. \/ \E stream \in Range(Streams) : Rewrite(stream)
        \/ \E e \in Extractors : InsertRun(e)
        \/ UNCHANGED <<text, runs, mentions>>
    BY DEF Next, JobNext, vars, tables, RefreshQuality, BeginReembed, SelectBatch,
       WriteBatch, StopReembed, ReadVideo, WriteVideo, BeginTranslation, RemoveOrphans,
       ReadExisting, TranslateGroup, GroupFails, RecordOutcome, StopTranslation,
       ReadSources, DeleteRuns
  <1> QED BY <1>2, <1>3, <1>4, <1>5

-----------------------------------------------------------------------------
(* Translations.                                                           *)

\* The row that the running job stores for a span.
RowOf(s) ==
  [of |-> translating.units[s], hash |-> translating.units[s],
   config |-> translating.config, by |-> translations]

\* A row is hashed as the text it translates; the rows of the job under way are stored in
\* its groups, and every other row is there as the job knows it: translations of one video
\* run one at a time, so what a job has read of the stored rows stays true of those that it
\* has not stored itself.
TranslationsSound ==
  /\ \A p \in Ids \X Range(Targets) : translated[p] # None =>
       translated[p].of = translated[p].hash /\ translated[p].by <= translations
  /\ translating # None /\ translating.step # "group" =>
       \A p \in Ids \X Range(Targets) : translated[p] # None =>
         translated[p].by < translations
  /\ translating # None /\ translating.step = "group" =>
       \A p \in Ids \X Range(Targets) :
         \/ translated[p] = None /\ p \notin DOMAIN translating.existing
         \/ /\ translated[p] # None /\ p \in DOMAIN translating.existing
            /\ translating.existing[p] = <<translated[p].hash, translated[p].config>>
         \/ p[1] \in DOMAIN translating.units /\ translated[p] = RowOf(p[1])

\* A group's step stores the job's rows, of its missing spans.
LEMMA GroupIsStored ==
  ASSUME TypeInv, TranslateGroup
  PROVE  /\ translating \in TranslationJobs /\ translations \in Nat
         /\ \A p \in Ids \X Range(Targets) :
              IF p[2] = Target /\ p[1] \in Missing
              THEN /\ p[1] \in DOMAIN translating.units
                   /\ translated'[p] = RowOf(p[1]) /\ RowOf(p[1]) # None
              ELSE translated'[p] = translated[p]
         /\ translating.step = "group" /\ translating'.step = "group"
         /\ translating'.units = translating.units /\ translating'.config = translating.config
         /\ translating'.existing = translating.existing
         /\ translations' = translations /\ text' = text /\ translating # None
  <1>1. translating \in TranslationJobs /\ translations \in Nat
    BY BoundsAreNatural DEF TypeInv, CountsTypeOK, JobsTypeOK, TranslateGroup, InGroup
  <1>2. Missing \subseteq DOMAIN translating.units
    BY <1>1, GroupsAreSpans
  <1>3. \A s \in Missing : RowOf(s) \in RowsOf(Nat)
    BY <1>1, GroupsAreSpans DEF RowOf, RowsOf, TranslationJobs
  <1>4. \A p \in Ids \X Range(Targets) :
          translated'[p] = IF p[2] = Target /\ p[1] \in Missing THEN RowOf(p[1])
                           ELSE translated[p]
    BY DEF TranslateGroup, RowOf, TypeInv, TextsTypeOK
  <1>5. PICK l, m, r :
          translating' = [translating EXCEPT !.language = l, !.translated = m, !.reused = r]
    BY DEF TranslateGroup
  <1>6. /\ translating # None /\ translating.step = "group"
        /\ translations' = translations /\ text' = text
    BY DEF TranslateGroup, InGroup, counts
  <1>7. /\ translating'.step = "group" /\ translating'.units = translating.units
        /\ translating'.existing = translating.existing
        /\ translating'.config = translating.config
    BY <1>1, <1>5, <1>6 DEF TranslationJobs
  <1> QED BY <1>1, <1>2, <1>3, <1>4, <1>6, <1>7, RecordsAreNotNone

\* What else a job's own steps leave as it was.
LEMMA JobKeepsWhatItRead ==
  ASSUME TypeInv, GroupFails \/ RecordOutcome, translating' # None
  PROVE  /\ translating # None /\ translating.step = "group" /\ translating'.step = "group"
         /\ translating'.units = translating.units /\ translating'.config = translating.config
         /\ translating'.existing = translating.existing
  <1>1. translating # None /\ translating.step = "group"
    BY DEF GroupFails, InGroup, RecordOutcome
  <1>2. translating \in TranslationJobs
    BY <1>1 DEF TypeInv, JobsTypeOK
  <1>3. CASE GroupFails
    BY <1>1, <1>2, <1>3 DEF GroupFails, TranslationJobs
  <1>4. CASE RecordOutcome
    <2>1. PICK next : translating' = [translating EXCEPT !.target = next, !.language = 1,
                                       !.translated = 0, !.reused = 0, !.failed = FALSE]
      BY <1>4 DEF RecordOutcome
    <2> QED BY <1>1, <1>2, <2>1 DEF TranslationJobs
  <1> QED BY <1>3, <1>4

LEMMA WhoTranslates ==
  ASSUME [Next]_vars
  PROVE  \/ BeginTranslation \/ RemoveOrphans \/ ReadExisting \/ TranslateGroup
         \/ (GroupFails \/ RecordOutcome \/ StopTranslation)
              /\ UNCHANGED <<translated, translations, text>>
         \/ UNCHANGED <<translated, translating, translations>>
  BY DEF Next, JobNext, vars, tables, jobs, counts, RefreshQuality, BeginReembed,
     SelectBatch, WriteBatch, StopReembed, ReadVideo, WriteVideo, GroupFails, RecordOutcome,
     StopTranslation, ReadSources, DeleteRuns, InsertRun, Rewrite

LEMMA TranslationsStay ==
  ASSUME TypeInv, TranslationsSound, [Next]_vars
  PROVE  TranslationsSound'
  <1> DEFINE Pairs == Ids \X Range(Targets)
  <1>1. /\ translated \in [Pairs -> Rows \cup {None}] /\ translations \in Nat
        /\ \A p \in Pairs : translated[p] # None => translated[p].by \in Nat
    BY BoundsAreNatural DEF TypeInv, TextsTypeOK, CountsTypeOK, Rows, RowsOf
  <1>2. CASE BeginTranslation
    <2>1. translations' = translations + 1 /\ translated' = translated
      BY <1>2 DEF BeginTranslation, tables
    <2>2. translating'.step = "orphans"
      BY <1>2 DEF BeginTranslation
    <2> QED BY <1>1, <2>1, <2>2 DEF TranslationsSound
  <1>3. CASE RemoveOrphans
    <2>1. translating # None /\ translating.step = "orphans" /\ translating \in TranslationJobs
      BY <1>3 DEF RemoveOrphans, TypeInv, JobsTypeOK
    <2>2. /\ translations' = translations
          /\ \A p \in Pairs : translated'[p] \in {translated[p], None}
      BY <1>1, <1>3 DEF RemoveOrphans, counts
    <2>3. translating'.step = "existing"
      BY <1>3, <2>1 DEF RemoveOrphans, TranslationJobs
    <2> QED BY <1>1, <2>1, <2>2, <2>3 DEF TranslationsSound
  <1>4. CASE ReadExisting
    <2> DEFINE D == {q \in DOMAIN translated : translated[q] # None}
               existing == [q \in D |-> <<translated[q].hash, translated[q].config>>]
    <2>1. translating \in TranslationJobs
      BY <1>4 DEF ReadExisting, TypeInv, JobsTypeOK
    <2>2. translations' = translations /\ translated' = translated
      BY <1>4 DEF ReadExisting, counts, tables
    <2>3. translating' = [translating EXCEPT !.step = "group", !.existing = existing]
      BY <1>4 DEF ReadExisting
    <2>4. translating'.step = "group" /\ translating'.existing = existing
      <3> HIDE DEF existing
      <3> QED BY <2>1, <2>3 DEF TranslationJobs
    <2>5. \A p \in Pairs :
            \/ translated'[p] = None /\ p \notin DOMAIN translating'.existing
            \/ /\ translated'[p] # None /\ p \in DOMAIN translating'.existing
               /\ translating'.existing[p] = <<translated'[p].hash, translated'[p].config>>
      BY <1>1, <2>2, <2>4
    <2>6. \A p \in Pairs : translated'[p] # None =>
            translated'[p].of = translated'[p].hash /\ translated'[p].by <= translations'
      BY <2>2 DEF TranslationsSound
    <2> QED BY <2>4, <2>5, <2>6 DEF TranslationsSound
  <1>5. CASE TranslateGroup
    <2>1. \A p \in Pairs :
            /\ translated[p] # None =>
                 translated[p].of = translated[p].hash /\ translated[p].by <= translations
            /\ \/ translated[p] = None /\ p \notin DOMAIN translating.existing
               \/ /\ translated[p] # None /\ p \in DOMAIN translating.existing
                  /\ translating.existing[p] = <<translated[p].hash, translated[p].config>>
               \/ p[1] \in DOMAIN translating.units /\ translated[p] = RowOf(p[1])
      BY <1>5, GroupIsStored DEF TranslationsSound
    <2>2. \A s : RowOf(s).of = RowOf(s).hash /\ RowOf(s).by = translations
      BY DEF RowOf
    <2>3. \A s : RowOf(s)' = RowOf(s)
      BY <1>5, GroupIsStored DEF RowOf
    <2>4. \A p \in Pairs :
            \/ translated'[p] = translated[p]
            \/ p[1] \in DOMAIN translating.units /\ translated'[p] = RowOf(p[1])
      BY <1>5, GroupIsStored
    <2>5. \A p \in Pairs : translated'[p] # None =>
            translated'[p].of = translated'[p].hash /\ translated'[p].by <= translations'
      BY <1>1, <1>5, <2>1, <2>2, <2>4, GroupIsStored
    <2>6. \A p \in Pairs :
            \/ translated'[p] = None /\ p \notin DOMAIN translating'.existing
            \/ /\ translated'[p] # None /\ p \in DOMAIN translating'.existing
               /\ translating'.existing[p] = <<translated'[p].hash, translated'[p].config>>
            \/ p[1] \in DOMAIN translating'.units /\ translated'[p] = RowOf(p[1])'
      BY <1>5, <2>1, <2>3, <2>4, GroupIsStored
    <2>7. translating'.step = "group"
      BY <1>5, GroupIsStored
    <2> QED BY <2>5, <2>6, <2>7 DEF TranslationsSound
  <1>6. CASE (GroupFails \/ RecordOutcome \/ StopTranslation)
               /\ UNCHANGED <<translated, translations, text>>
    <2>1. CASE translating' = None
      BY <1>6, <2>1 DEF TranslationsSound
    <2>2. CASE translating' # None
      <3>1. GroupFails \/ RecordOutcome
        BY <1>6, <2>2 DEF StopTranslation
      <3>2. \A s : RowOf(s)' = RowOf(s)
        BY <1>6, <2>2, <3>1, JobKeepsWhatItRead DEF RowOf
      <3> QED BY <1>6, <2>2, <3>1, <3>2, JobKeepsWhatItRead DEF TranslationsSound
    <2> QED BY <2>1, <2>2
  <1>7. CASE UNCHANGED <<translated, translating, translations>>
    BY <1>7 DEF TranslationsSound, RowOf
  <1> QED BY <1>2, <1>3, <1>4, <1>5, <1>6, <1>7, WhoTranslates

LEMMA ShownAreTrue ==
  ASSUME TypeInv, TranslationsSound
  PROVE  ShownTranslationsMatch
  <1>1. \A t \in Range(Targets), s \in Ids :
          Shown(s, t) => translated[<<s, t>>].of = text[s]
    <2>1. \A t \in Range(Targets), s \in Ids : translated[<<s, t>>] # None =>
            translated[<<s, t>>].of = translated[<<s, t>>].hash
      BY DEF TranslationsSound
    <2> QED BY <2>1 DEF Shown
  <1>2. ASSUME NEW t \in Range(Targets), TargetStatus(t) = "completed",
               NEW s \in DOMAIN Sources, LanguageOf[s] \notin {"unknown", t}
        PROVE  Shown(s, t)
    BY <1>2 DEF TargetStatus
  <1>3. DOMAIN Sources \subseteq Ids
    BY SourcesAreTexts DEF TypeInv, Present
  <1> QED BY <1>1, <1>2, <1>3 DEF ShownTranslationsMatch

\* The step of UnchangedIsReused.
UnchangedIsReusedStep ==
  \A p \in DOMAIN translated :
    LET old == translated[p]  new == translated'[p]
    IN old # None /\ new # old =>
         IF new = None THEN text[p[1]] = None
         ELSE \/ translating.refresh
              \/ <<new.hash, new.config>> # <<old.hash, old.config>>

LEMMA UnchangedStays ==
  ASSUME TypeInv, TranslationsSound, [Next]_vars
  PROVE  UnchangedIsReusedStep
  <1>1. DOMAIN translated = Ids \X Range(Targets)
    BY DEF TypeInv, TextsTypeOK
  <1>2. CASE RemoveOrphans
    <2>1. \A p \in DOMAIN translated :
            translated'[p] = IF p[1] \in Present THEN translated[p] ELSE None
      BY <1>2 DEF RemoveOrphans
    <2>2. \A p \in DOMAIN translated : p[1] \in Ids
      BY <1>1
    <2> QED BY <2>1, <2>2 DEF UnchangedIsReusedStep, Present
  <1>3. CASE TranslateGroup
    <2> DEFINE refresh == translating.refresh
               Differ(p) == <<translated'[p].hash, translated'[p].config>>
                              # <<translated[p].hash, translated[p].config>>
    <2> SUFFICES ASSUME NEW p \in DOMAIN translated, translated[p] # None,
                        translated'[p] # translated[p]
                 PROVE  translated'[p] # None /\ (refresh \/ Differ(p))
      <3> HIDE DEF refresh
      <3> QED BY DEF UnchangedIsReusedStep, refresh
    <2> SUFFICES ASSUME ~ refresh PROVE translated'[p] # None /\ Differ(p)
      BY <1>1, <1>3, GroupIsStored
    <2>1. /\ p[2] = Target /\ p[1] \in Missing /\ p = <<p[1], Target>>
          /\ translated'[p] = RowOf(p[1]) /\ translated'[p] # None
      BY <1>1, <1>3, GroupIsStored
    <2>2. \/ p \notin DOMAIN translating.existing
          \/ translating.existing[p] # <<translating.units[p[1]], translating.config>>
      BY <2>1 DEF Missing
    <2>3. /\ p \in DOMAIN translating.existing
          /\ translating.existing[p] = <<translated[p].hash, translated[p].config>>
      BY <1>1, <1>3, <2>1, GroupIsStored DEF TranslationsSound
    <2>4. /\ translated'[p].hash = translating.units[p[1]]
          /\ translated'[p].config = translating.config
      BY <2>1 DEF RowOf
    <2> QED BY <2>1, <2>2, <2>3, <2>4
  <1>4. CASE UNCHANGED translated
    BY <1>4 DEF UnchangedIsReusedStep
  <1>5. BeginTranslation \/ ReadExisting => UNCHANGED translated
    BY DEF BeginTranslation, ReadExisting, tables
  <1> QED BY <1>2, <1>3, <1>4, <1>5, WhoTranslates

-----------------------------------------------------------------------------
(* Theorems of DerivedTexts' specification.                                *)

DerivedInv == TypeInv /\ VectorsSound /\ ReembedSound /\ OneEntityRun /\ TranslationsSound

LEMMA DerivedInit ==
  ASSUME Init
  PROVE  DerivedInv
  <1>1. \A s \in Ids : text[s] \in Texts
    BY DEF Init
  <1>2. PICK models \in [Ids -> Models] :
          vector = [s \in Ids |-> [of |-> text[s], model |-> models[s], by |-> "writer"]]
    BY DEF Init, Models
  <1>3. \A s \in Ids : vector[s] \in Vectors
    BY <1>1, <1>2 DEF Vectors
  <1>4. VectorsSound
    BY <1>1, <1>2, <1>3, RecordsAreNotNone DEF VectorsSound
  <1>5. ReembedSound /\ TranslationsSound
    BY DEF Init, ReembedSound, TranslationsSound
  <1>6. OneEntityRun
    BY FS_EmptySet DEF Init, OneEntityRun
  <1> QED BY <1>4, <1>5, <1>6, TypeInit DEF DerivedInv

(* What the jobs of a video derive from its texts keeps its invariant,     *)
(* however they and the rewrites interleave.                               *)
THEOREM DerivedTextsInvariant == Spec => []DerivedInv
  <1>1. DerivedInv /\ [Next]_vars => DerivedInv'
    BY TypeStep, VectorsStay, ReembedStays, MentionsStay, TranslationsStay DEF DerivedInv
  <1> QED BY <1>1, DerivedInit, PTL DEF Spec

(* CorpusReaders only watches: each of its steps is one of DerivedTexts,   *)
(* or leaves what DerivedTexts models as it was.  Whatever is true of the  *)
(* jobs alone stays true beside any number of readers.                     *)
THEOREM ReadersOnlyWatch == CorpusSpec => Spec
  <1>1. CorpusInit => Init
    BY DEF CorpusInit
  <1>2. [CorpusNext]_corpusVars => [Next]_vars
    <2>1. corpusVars' = corpusVars => vars' = vars
      BY DEF corpusVars, derived, vars
    <2>2. CorpusNext => Next \/ UNCHANGED derived
      BY DEF CorpusNext, Next, RewriteAndUnlink, View, Judge, Annotate, Search, LiteralSearch,
         AttachTranslation, AttachCitation, LoadSnapshot, Rebuild, StopSync, ReadTargets,
         ReadPreferred, RankSearch, LoadSegments, LoadStreams, LoadTurns
    <2>3. UNCHANGED derived => UNCHANGED vars
      BY DEF derived, vars
    <2> QED BY <2>1, <2>2, <2>3
  <1> QED BY <1>1, <1>2, PTL DEF CorpusSpec, Spec

(* The vector of a segment is of the text beside it, unless reembed_video  *)
(* wrote it, and a re-embedding that ends has left no segment behind that  *)
(* its limit did not leave out: the update of reembed_table that matches   *)
(* the text, and its walk by id towards a goal counted once.               *)
THEOREM VectorsFollow == CorpusSpec => []VectorsFollowText
  <1>1. DerivedInv => VectorsFollowText
    BY DEF DerivedInv, TypeInv, VectorsSound, ReembedSound, VectorsFollowText
  <1> QED BY <1>1, ReadersOnlyWatch, DerivedTextsInvariant, PTL

(* A video has at most one entity run, and the mentions are that run's     *)
(* and of segments that exist: the unique index and the foreign keys       *)
(* settle what overlapping extractions may leave.                          *)
THEOREM EntityRunIsOne == CorpusSpec => []OneEntityRun
  <1>1. DerivedInv => OneEntityRun
    BY DEF DerivedInv
  <1> QED BY <1>1, ReadersOnlyWatch, DerivedTextsInvariant, PTL

(* A translation that search shows, or that a completed target counts,     *)
(* translates the text that is there now.                                  *)
THEOREM ShownTranslationsAreTrue == CorpusSpec => []ShownTranslationsMatch
  <1>1. DerivedInv => ShownTranslationsMatch
    BY ShownAreTrue DEF DerivedInv
  <1> QED BY <1>1, ReadersOnlyWatch, DerivedTextsInvariant, PTL

(* Without a refresh no stored translation of an unchanged text is made    *)
(* again, and none is removed while its segment exists.                    *)
THEOREM UnchangedAreReused == CorpusSpec => UnchangedIsReused
  <1>1. DerivedInv /\ [Next]_vars => [UnchangedIsReusedStep]_vars
    BY UnchangedStays DEF DerivedInv
  <1>2. Spec => [][UnchangedIsReusedStep]_vars
    BY <1>1, DerivedTextsInvariant, PTL DEF Spec
  <1> QED BY <1>2, ReadersOnlyWatch, PTL DEF UnchangedIsReused, UnchangedIsReusedStep

-----------------------------------------------------------------------------
(* What a reader may rely on while the jobs and the rewrites go on.        *)

RowNames == {<<s>> : s \in Ids} \cup (Ids \X Range(Targets) \X Nat)

\* A translation's row that a reader has seen: while the run that stored it is the last, it
\* is there as that run left it.
Seen(row) ==
  Generated(row) =>
    /\ row[3] <= translations
    /\ row[3] = translations =>
         /\ translated[<<row[1], row[2]>>] # None
         /\ translated[<<row[1], row[2]>>].by = row[3]
         /\ translating = None \/ translating.step = "group"

\* A translation's row that is no more, and never comes back: ids are not used again.
Vanished(row) ==
  /\ row[3] < translations
  /\ \/ translated[<<row[1], row[2]>>] = None
     \/ translated[<<row[1], row[2]>>].by # row[3]

\* What a passage was found to say at a count of the rewrites it still says at that count.
SaysStill(row, says, since) ==
  /\ since \in Nat /\ since <= rewrites
  /\ since = rewrites => text[row[1]] = says /\ text[row[1]] # None

LEMMA RowsHaveASpan ==
  ASSUME NEW row \in RowNames
  PROVE  /\ row[1] \in Ids
         /\ Generated(row) =>
              row = <<row[1], row[2], row[3]>> /\ row[2] \in Range(Targets) /\ row[3] \in Nat
         /\ ~ Generated(row) => row = <<row[1]>>
  BY DEF RowNames, Generated

LEMMA SegmentsAreRows ==
  ASSUME NEW s \in Ids
  PROVE  <<s>> \in RowNames /\ ~ Generated(<<s>>) /\ <<s>>[1] = s
  BY DEF RowNames, Generated

LEMMA PassagesAreSeen ==
  ASSUME DerivedInv, NEW row \in Passages
  PROVE  /\ row \in RowNames /\ Seen(row)
         /\ Says(row) = text[row[1]] /\ text[row[1]] \in Texts
  <1> USE DEF DerivedInv, TypeInv
  <1>1. /\ text \in [Ids -> Texts \cup {None}] /\ translations \in Nat
        /\ translated \in [Ids \X Range(Targets) -> Rows \cup {None}]
    BY BoundsAreNatural DEF TextsTypeOK, CountsTypeOK
  <1>2. ASSUME NEW s \in Present, row = <<s>>
        PROVE  /\ row \in RowNames /\ Seen(row)
               /\ Says(row) = text[row[1]] /\ text[row[1]] \in Texts
    BY <1>1, <1>2, SegmentsAreRows DEF Present, Seen, Says
  <1>3. ASSUME NEW p \in DOMAIN translated, Shown(p[1], p[2]), row = Current(p[1], p[2])
        PROVE  /\ row \in RowNames /\ Seen(row)
               /\ Says(row) = text[row[1]] /\ text[row[1]] \in Texts
    <2> DEFINE n == translated[p].by
    <2>1. /\ p[1] \in Ids /\ p[2] \in Range(Targets) /\ p = <<p[1], p[2]>>
      BY <1>1
    <2>2. /\ text[p[1]] \in Texts /\ translated[p] # None
          /\ translated[p].hash = text[p[1]]
      BY <1>1, <1>3, <2>1 DEF Shown
    <2>3. n \in Nat /\ n <= translations /\ translated[p].of = text[p[1]]
      BY <1>1, <2>1, <2>2 DEF Rows, RowsOf, TranslationsSound
    <2>4. translating # None /\ translating.step # "group" => n < translations
      BY <1>1, <2>1, <2>2 DEF TranslationsSound
    <2>5. row = <<p[1], p[2], n>>
      BY <1>3, <2>1 DEF Current
    <2> HIDE DEF n
    <2>6. Generated(row) /\ row[1] = p[1] /\ row[2] = p[2] /\ row[3] = n
      BY <2>5 DEF Generated
    <2>7. row \in RowNames
      BY <2>1, <2>3, <2>5 DEF RowNames
    <2>8. Seen(row)
      BY <1>1, <2>1, <2>2, <2>3, <2>4, <2>6 DEF Seen, n
    <2> QED BY <2>1, <2>2, <2>3, <2>6, <2>7, <2>8 DEF Says
  <1> QED BY <1>2, <1>3 DEF Passages

LEMMA RewritesAreCounted ==
  ASSUME TypeInv, [Next]_vars
  PROVE  /\ rewrites \in Nat
         /\ \/ rewrites' = rewrites /\ text' = text
            \/ /\ rewrites' = rewrites + 1
               /\ \E stream \in Range(Streams) : Rewrite(stream)
  <1>1. rewrites \in Nat
    BY DEF TypeInv, CountsTypeOK
  <1>2. \/ \E stream \in Range(Streams) : Rewrite(stream)
        \/ rewrites' = rewrites /\ text' = text
    BY DEF Next, JobNext, vars, tables, counts, RefreshQuality, BeginReembed, SelectBatch,
       WriteBatch, StopReembed, ReadVideo, WriteVideo, BeginTranslation, RemoveOrphans,
       ReadExisting, TranslateGroup, GroupFails, RecordOutcome, StopTranslation,
       ReadSources, DeleteRuns, InsertRun
  <1> QED BY <1>1, <1>2 DEF Rewrite

LEMMA SaysStays ==
  ASSUME TypeInv, [Next]_vars, NEW row, NEW says, NEW since, SaysStill(row, says, since)
  PROVE  SaysStill(row, says, since)' 
  BY RewritesAreCounted DEF SaysStill

\* How a step changes the stored translations.
LEMMA TranslatedChanges ==
  ASSUME TypeInv, [Next]_vars
  PROVE  /\ translations \in Nat /\ translations' \in Nat /\ translations <= translations'
         /\ \A p \in Ids \X Range(Targets) :
              \/ translated'[p] = translated[p] \/ translated'[p] = None
              \/ translated'[p] # None /\ translated'[p].by = translations'
  <1>1. translations \in Nat /\ translated \in [Ids \X Range(Targets) -> Rows \cup {None}]
    BY BoundsAreNatural DEF TypeInv, CountsTypeOK, TextsTypeOK
  <1>2. CASE BeginTranslation
    BY <1>1, <1>2 DEF BeginTranslation, tables
  <1>3. CASE RemoveOrphans
    BY <1>1, <1>3 DEF RemoveOrphans, counts
  <1>4. CASE ReadExisting
    BY <1>1, <1>4 DEF ReadExisting, tables, counts
  <1>5. CASE TranslateGroup
    <2>1. \A s : RowOf(s).by = translations
      BY DEF RowOf
    <2> QED BY <1>1, <1>5, <2>1, GroupIsStored
  <1>6. CASE UNCHANGED <<translated, translations>>
    BY <1>1, <1>6
  <1> QED BY <1>2, <1>3, <1>4, <1>5, <1>6, WhoTranslates

LEMMA VanishedStays ==
  ASSUME TypeInv, [Next]_vars, NEW row \in RowNames, Generated(row), Vanished(row)
  PROVE  Vanished(row)'
  <1>1. /\ <<row[1], row[2]>> \in Ids \X Range(Targets) /\ row[3] \in Nat
    BY RowsHaveASpan
  <1> QED BY <1>1, TranslatedChanges DEF Vanished

LEMMA SeenStays ==
  ASSUME DerivedInv, [Next]_vars, NEW row \in RowNames, Seen(row)
  PROVE  Seen(row)'
  <1> SUFFICES ASSUME Generated(row)
               PROVE  Seen(row)'
    BY DEF Seen, Generated
  <1> DEFINE p == <<row[1], row[2]>>
  <1> USE DEF DerivedInv
  <1>1. p \in Ids \X Range(Targets) /\ row[3] \in Nat
    BY RowsHaveASpan
  <1>2. /\ translations \in Nat /\ translations' \in Nat /\ translations <= translations'
        /\ row[3] <= translations
    BY TranslatedChanges DEF Seen
  <1>3. CASE row[3] # translations'
    BY <1>1, <1>2, <1>3 DEF Seen
  <1>4. CASE row[3] = translations'
    <2>1. /\ translations' = translations
          /\ translated[p] # None /\ translated[p].by = row[3]
          /\ translating = None \/ translating.step = "group"
      BY <1>1, <1>2, <1>4 DEF Seen
    <2>2. CASE BeginTranslation \/ RemoveOrphans \/ ReadExisting
      BY <1>2, <2>1, <2>2 DEF BeginTranslation, RemoveOrphans, ReadExisting
    <2>3. CASE TranslateGroup
      <3>1. \A s : RowOf(s).by = translations
        BY DEF RowOf
      <3>2. translated'[p] # None /\ translated'[p].by = translations
        BY <1>1, <1>4, <2>1, <2>3, <3>1, GroupIsStored
      <3> QED BY <1>4, <2>1, <2>3, <3>2, GroupIsStored DEF Seen
    <2>4. CASE (GroupFails \/ RecordOutcome \/ StopTranslation)
                 /\ UNCHANGED <<translated, translations, text>>
      <3>1. translating' = None \/ translating'.step = "group"
        BY <2>4, JobKeepsWhatItRead DEF StopTranslation
      <3> QED BY <1>4, <2>1, <2>4, <3>1 DEF Seen
    <2>5. CASE UNCHANGED <<translated, translating, translations>>
      BY <1>4, <2>1, <2>5 DEF Seen
    <2> QED BY <2>2, <2>3, <2>4, <2>5, WhoTranslates
  <1> QED BY <1>3, <1>4

-----------------------------------------------------------------------------
(* Searches and the literal index.                                         *)

Hits ==
  [step : {"translation", "citation", "done"}, row : RowNames, says : Texts, since : Nat,
   evidence : Evidence \cup {None}, context : {<<>>} \cup SomeTexts]
Documents == [revision : Nat, says : Texts \cup {None}]

\* The documents are of rows that were seen, and the live ones say what the snapshot said.
IndexSound ==
  \A row \in DOMAIN index :
    /\ row \in RowNames /\ index[row] \in Documents /\ Seen(row)
    /\ index[row].says # None => SaysStill(row, index[row].says, indexed)

SnapshotSound ==
  syncing # None =>
    \A row \in DOMAIN syncing.says :
      /\ row \in RowNames /\ syncing.says[row] \in Texts /\ Seen(row)
      /\ SaysStill(row, syncing.says[row], syncing.at)

SearchSound ==
  searching # None =>
    LET row == searching.row  evidence == searching.evidence
    IN /\ searching \in Hits
       /\ SaysStill(row, searching.says, searching.since)
       /\ searching.step = "translation" => Seen(row)
       /\ searching.step # "translation" =>
            /\ Generated(row) /\ evidence = None => Vanished(row)
            /\ evidence # None =>
                 /\ Generated(row) /\ evidence.span = row[1]
                 /\ evidence.original = searching.says \/ rewrites # searching.since
       /\ searching.step = "done" =>
            /\ Generated(row) /\ evidence = None => searching.context = <<>>
            /\ rewrites = searching.since /\ (Generated(row) => evidence # None) =>
                 /\ row[1] \in DOMAIN searching.context
                 /\ searching.context[row[1]] = searching.says

LEMMA StepsOfSpec ==
  ASSUME [CorpusNext]_corpusVars
  PROVE  [Next]_vars
  <1>1. corpusVars' = corpusVars => vars' = vars
    BY DEF corpusVars, derived, vars
  <1>2. CorpusNext => Next \/ UNCHANGED derived
    BY DEF CorpusNext, Next, RewriteAndUnlink, View, Judge, Annotate, Search, LiteralSearch,
       AttachTranslation, AttachCitation, LoadSnapshot, Rebuild, StopSync, ReadTargets,
       ReadPreferred, RankSearch, LoadSegments, LoadStreams, LoadTurns
  <1>3. UNCHANGED derived => UNCHANGED vars
    BY DEF derived, vars
  <1> QED BY <1>1, <1>2, <1>3

LEMMA WhoIndexes ==
  ASSUME [CorpusNext]_corpusVars
  PROVE  \/ LoadSnapshot \/ Rebuild \/ StopSync
         \/ UNCHANGED <<index, indexed, syncing>>
  BY DEF CorpusNext, corpusVars, found, lexical, judged, reports, RewriteAndUnlink, View,
     Judge, Annotate, Search, LiteralSearch, AttachTranslation, AttachCitation, ReadTargets,
     ReadPreferred, RankSearch, LoadSegments, LoadStreams, LoadTurns

LEMMA SnapshotStays ==
  ASSUME DerivedInv, SnapshotSound, [CorpusNext]_corpusVars
  PROVE  SnapshotSound'
  <1>1. [Next]_vars
    BY StepsOfSpec
  <1>2. CASE LoadSnapshot
    <2>1. /\ syncing' = [says |-> [row \in Passages |-> Says(row)], at |-> rewrites]
          /\ UNCHANGED <<text, translated, translating, translations, rewrites>>
      BY <1>2 DEF LoadSnapshot, derived, tables, jobs, counts
    <2>2. ASSUME NEW row \in Passages
          PROVE  /\ row \in RowNames /\ Says(row) \in Texts /\ Seen(row)
                 /\ SaysStill(row, Says(row), rewrites)
      <3>1. rewrites \in Nat
        BY DEF DerivedInv, TypeInv, CountsTypeOK
      <3> QED BY <3>1, PassagesAreSeen, RecordsAreNotNone DEF SaysStill
    <2>3. /\ DOMAIN syncing'.says = Passages /\ syncing'.at = rewrites
          /\ \A row \in Passages : syncing'.says[row] = Says(row)
      BY <2>1
    <2> QED BY <2>1, <2>2, <2>3 DEF SnapshotSound, Seen, SaysStill
  <1>3. CASE Rebuild \/ StopSync
    BY <1>3 DEF Rebuild, StopSync, SnapshotSound
  <1>4. CASE UNCHANGED syncing
    <2> SUFFICES ASSUME syncing # None, NEW row \in DOMAIN syncing.says
                 PROVE  /\ row \in RowNames /\ syncing.says[row] \in Texts /\ Seen(row)'
                        /\ SaysStill(row, syncing.says[row], syncing.at)'
      BY <1>4 DEF SnapshotSound, Seen, SaysStill
    <2>1. Seen(row)'
      BY <1>1, SeenStays DEF SnapshotSound
    <2>2. SaysStill(row, syncing.says[row], syncing.at)'
      BY <1>1, <1>4, RewritesAreCounted DEF SaysStill, SnapshotSound, DerivedInv
    <2> QED BY <2>1, <2>2 DEF SnapshotSound
  <1> QED BY <1>2, <1>3, <1>4, WhoIndexes

\* What a rebuild makes of each row.
LEMMA RebuildIsOfSnapshot ==
  ASSUME DerivedInv, IndexSound, SnapshotSound, Rebuild
  PROVE  /\ DOMAIN index' = DOMAIN index \cup DOMAIN syncing.says
         /\ \A row \in DOMAIN index' :
              \/ /\ row \in DOMAIN syncing.says /\ row \in DOMAIN index
                 /\ index'[row] = index[row] /\ index[row].says = syncing.says[row]
              \/ /\ row \in DOMAIN syncing.says
                 /\ index'[row] = [revision |-> NextRevision(row), says |-> syncing.says[row]]
              \/ /\ row \notin DOMAIN syncing.says /\ row \in DOMAIN index
                 /\ index'[row] = [revision |-> NextRevision(row), says |-> None]
              \/ /\ row \notin DOMAIN syncing.says /\ row \in DOMAIN index
                 /\ index'[row] = index[row] /\ index[row].says = None
         /\ \A row \in DOMAIN index' :
              /\ NextRevision(row) \in Nat
              /\ row \in DOMAIN index => NextRevision(row) = index[row].revision + 1
         /\ indexed' = syncing.at /\ syncing # None
         /\ UNCHANGED <<text, translated, translating, translations, rewrites>>
  <1>1. /\ index' = [row \in DOMAIN index \cup DOMAIN syncing.says |->
              IF row \in DOMAIN syncing.says
              THEN IF Live(row) /\ index[row].says = syncing.says[row] THEN index[row]
                   ELSE [revision |-> NextRevision(row), says |-> syncing.says[row]]
              ELSE IF Live(row) THEN [revision |-> NextRevision(row), says |-> None]
              ELSE index[row]]
    BY DEF Rebuild
  <1>2. /\ DOMAIN index' = DOMAIN index \cup DOMAIN syncing.says
        /\ indexed' = syncing.at /\ syncing # None
    BY <1>1 DEF Rebuild
  <1>3. UNCHANGED <<text, translated, translating, translations, rewrites>>
    BY DEF Rebuild, derived, tables, jobs, counts
  <1>4. \A row \in DOMAIN index : index[row].revision \in Nat
    BY DEF IndexSound, Documents
  <1>5. \A row \in DOMAIN index' :
          /\ NextRevision(row) \in Nat
          /\ row \in DOMAIN index => NextRevision(row) = index[row].revision + 1
    BY <1>4 DEF NextRevision, Latest
  <1>6. \A row \in DOMAIN index' :
          \/ /\ row \in DOMAIN syncing.says /\ row \in DOMAIN index
             /\ index'[row] = index[row] /\ index[row].says = syncing.says[row]
          \/ /\ row \in DOMAIN syncing.says
             /\ index'[row] = [revision |-> NextRevision(row), says |-> syncing.says[row]]
          \/ /\ row \notin DOMAIN syncing.says /\ row \in DOMAIN index
             /\ index'[row] = [revision |-> NextRevision(row), says |-> None]
          \/ /\ row \notin DOMAIN syncing.says /\ row \in DOMAIN index
             /\ index'[row] = index[row] /\ index[row].says = None
    BY <1>1 DEF Live
  <1> QED BY <1>2, <1>3, <1>5, <1>6

LEMMA IndexStays ==
  ASSUME DerivedInv, IndexSound, SnapshotSound, [CorpusNext]_corpusVars
  PROVE  IndexSound'
  <1>1. [Next]_vars
    BY StepsOfSpec
  <1>2. CASE Rebuild
    <2>4. /\ indexed' = syncing.at
          /\ UNCHANGED <<text, translated, translating, translations, rewrites>>
      BY <1>2, RebuildIsOfSnapshot
    <2>5. \A row : Seen(row)' <=> Seen(row)
      BY <2>4 DEF Seen, Generated
    <2>6. \A row : SaysStill(row, index'[row].says, syncing.at)
                    => SaysStill(row, index[row].says, indexed)'
      BY <2>4 DEF SaysStill
    <2> SUFFICES ASSUME NEW row \in DOMAIN index'
                 PROVE  /\ row \in RowNames /\ index'[row] \in Documents /\ Seen(row)
                        /\ index'[row].says # None =>
                             SaysStill(row, index'[row].says, syncing.at)
      BY <2>5, <2>6 DEF IndexSound
    <2>1. /\ NextRevision(row) \in Nat /\ syncing # None
          /\ DOMAIN index' = DOMAIN index \cup DOMAIN syncing.says
      BY <1>2, RebuildIsOfSnapshot
    <2>2. CASE row \in DOMAIN syncing.says
      <3> DEFINE says == syncing.says[row]
      <3>1. /\ row \in RowNames /\ says \in Texts /\ Seen(row)
            /\ SaysStill(row, says, syncing.at)
        BY <2>1, <2>2 DEF SnapshotSound
      <3>2. \/ row \in DOMAIN index /\ index'[row] = index[row] /\ index[row].says = says
            \/ index'[row] = [revision |-> NextRevision(row), says |-> says]
        BY <1>2, <2>2, RebuildIsOfSnapshot
      <3> HIDE DEF says
      <3>3. [revision |-> NextRevision(row), says |-> says] \in Documents
        BY <2>1, <3>1 DEF Documents
      <3> QED BY <3>1, <3>2, <3>3 DEF IndexSound
    <2>3. CASE row \notin DOMAIN syncing.says
      <3>1. \/ index'[row] = [revision |-> NextRevision(row), says |-> None]
            \/ index'[row] = index[row] /\ index[row].says = None
        BY <1>2, <2>3, RebuildIsOfSnapshot
      <3>2. [revision |-> NextRevision(row), says |-> None] \in Documents
        BY <2>1 DEF Documents
      <3>3. row \in DOMAIN index
        BY <2>1, <2>3
      <3> QED BY <3>1, <3>2, <3>3 DEF IndexSound
    <2> QED BY <2>2, <2>3
  <1>3. CASE UNCHANGED <<index, indexed>>
    <2> SUFFICES ASSUME NEW row \in DOMAIN index
                 PROVE  /\ row \in RowNames /\ index[row] \in Documents /\ Seen(row)'
                        /\ index[row].says # None => SaysStill(row, index[row].says, indexed)'
      BY <1>3 DEF IndexSound, Seen, SaysStill
    <2>1. Seen(row)'
      BY <1>1, SeenStays DEF IndexSound
    <2>2. index[row].says # None => SaysStill(row, index[row].says, indexed)'
      BY <1>1, <1>3, RewritesAreCounted DEF SaysStill, IndexSound, DerivedInv
    <2> QED BY <2>1, <2>2 DEF IndexSound
  <1> QED BY <1>2, <1>3, WhoIndexes DEF LoadSnapshot, StopSync

LEMMA WhoSearches ==
  ASSUME [CorpusNext]_corpusVars
  PROVE  \/ Search \/ LiteralSearch \/ AttachTranslation \/ AttachCitation
         \/ UNCHANGED searching
  BY DEF CorpusNext, corpusVars, found, RewriteAndUnlink, View, Judge, Annotate, LoadSnapshot,
     Rebuild, StopSync, ReadTargets, ReadPreferred, RankSearch, LoadSegments, LoadStreams,
     LoadTurns

LEMMA SearchStays ==
  ASSUME DerivedInv, IndexSound, SearchSound, [CorpusNext]_corpusVars
  PROVE  SearchSound'
  <1>1. [Next]_vars
    BY StepsOfSpec
  <1> DEFINE row == searching.row
             says == searching.says
             since == searching.since
             evidence == searching.evidence
  <1>2. ASSUME NEW r \in RowNames, NEW t \in Texts, NEW n, searching' = Hit(r, t, n),
               Seen(r), SaysStill(r, t, n),
               UNCHANGED <<text, translated, translating, translations, rewrites>>
        PROVE  SearchSound'
    <2>1. Hit(r, t, n) \in Hits
      BY <1>2 DEF Hit, Hits, SaysStill
    <2>2. /\ searching'.row = r /\ searching'.says = t /\ searching'.since = n
          /\ searching'.step = "translation"
      BY <1>2 DEF Hit
    <2>3. Seen(r)' /\ SaysStill(r, t, n)'
      BY <1>2 DEF Seen, SaysStill
    <2> QED BY <1>2, <2>1, <2>2, <2>3 DEF SearchSound, Seen, SaysStill
  <1>3. CASE Search
    <2>1. PICK r \in Passages : searching' = Hit(r, Says(r), rewrites)
      BY <1>3 DEF Search, HybridHits, FtsHits, SemanticHits
    <2>2. r \in RowNames /\ Says(r) \in Texts /\ Seen(r) /\ SaysStill(r, Says(r), rewrites)
      BY PassagesAreSeen, RecordsAreNotNone DEF SaysStill, DerivedInv, TypeInv, CountsTypeOK
    <2> QED BY <1>2, <1>3, <2>1, <2>2 DEF Search, derived, tables, jobs, counts
  <1>4. CASE LiteralSearch
    <2>1. PICK r \in DOMAIN index : /\ index[r].says # None
                                   /\ searching' = Hit(r, index[r].says, indexed)
      BY <1>4 DEF LiteralSearch, LiteralHits
    <2>2. /\ r \in RowNames /\ index[r].says \in Texts /\ Seen(r)
          /\ SaysStill(r, index[r].says, indexed)
      BY <2>1 DEF IndexSound, Documents
    <2> QED BY <1>2, <1>4, <2>1, <2>2 DEF LiteralSearch, derived, tables, jobs, counts
  <1>5. CASE UNCHANGED searching
    <2> SUFFICES ASSUME searching # None
                 PROVE  SearchSound'
      BY <1>5 DEF SearchSound
    <2>1. searching \in Hits /\ row \in RowNames /\ SaysStill(row, says, since)
      BY DEF SearchSound, Hits
    <2>2. /\ SaysStill(row, says, since)' /\ since \in Nat /\ since <= rewrites
      BY <1>1, <1>5, <2>1, RewritesAreCounted DEF SaysStill, DerivedInv
    <2>3. /\ rewrites \in Nat /\ rewrites <= rewrites' /\ rewrites' \in Nat
      BY <1>1, RewritesAreCounted DEF DerivedInv
    <2>4. Seen(row) => Seen(row)'
      BY <1>1, <1>5, <2>1, SeenStays
    <2>5. Generated(row) /\ Vanished(row) => Vanished(row)'
      BY <1>1, <1>5, <2>1, VanishedStays DEF DerivedInv
    <2>6. /\ rewrites # since => rewrites' # since
          /\ rewrites' = since => rewrites = since
      BY <2>2, <2>3
    <2> QED BY <1>5, <2>1, <2>2, <2>4, <2>5, <2>6 DEF SearchSound
  <1>6. CASE AttachTranslation
    <2> DEFINE now == IF FoundById(row)
                      THEN [span |-> row[1], original |-> text[row[1]]] ELSE None
    <2>1. /\ searching # None /\ searching.step = "translation"
          /\ UNCHANGED <<text, translated, translating, translations, rewrites>>
      BY <1>6 DEF AttachTranslation, derived, tables, jobs, counts
    <2>2. searching \in Hits /\ row \in RowNames /\ SaysStill(row, says, since) /\ Seen(row)
      BY <2>1 DEF SearchSound, Hits
    <2>3. searching' = [searching EXCEPT !.step = "citation", !.evidence = now]
      BY <1>6 DEF AttachTranslation
    <2>4. /\ now \in Evidence \cup {None}
          /\ now # None => /\ FoundById(row) /\ now.span = row[1]
                           /\ now.original = text[row[1]]
          /\ now = None => ~ FoundById(row)
      <3>1. [span |-> row[1], original |-> text[row[1]]] \in Evidence
        BY <2>2, RowsHaveASpan DEF Evidence, DerivedInv, TypeInv, TextsTypeOK
      <3> QED BY <3>1, EvidenceAssumption
    <2> HIDE DEF now
    <2>5. /\ searching' \in Hits /\ searching'.row = row /\ searching'.says = says
          /\ searching'.since = since /\ searching'.step = "citation"
          /\ searching'.evidence = now
      BY <2>2, <2>3, <2>4 DEF Hits
    <2>6. Generated(row) /\ now = None => Vanished(row)'
      <3>1. SUFFICES ASSUME Generated(row), ~ FoundById(row)
                     PROVE  Vanished(row)
        BY <2>1, <2>4, <2>5 DEF Vanished
      <3>2. /\ row = <<row[1], row[2], row[3]>> /\ row[3] \in Nat
            /\ <<row[1], row[2]>> \in Ids \X Range(Targets)
        BY <2>2, <3>1, RowsHaveASpan
      <3>3. \/ translated[<<row[1], row[2]>>] = None
            \/ translated[<<row[1], row[2]>>].by # row[3]
        BY <3>1, <3>2 DEF FoundById, Current
      <3>4. row[3] < translations
        BY <2>2, <3>1, <3>2, <3>3, BoundsAreNatural DEF Seen, DerivedInv, TypeInv, CountsTypeOK
      <3> QED BY <3>3, <3>4 DEF Vanished
    <2>7. now # None => /\ Generated(row) /\ now.span = row[1]
                        /\ now.original = says \/ rewrites' # since
      BY <2>1, <2>2, <2>4 DEF FoundById, SaysStill
    <2>8. SaysStill(row, says, since)'
      BY <2>1, <2>2, <2>5 DEF SaysStill
    <2> QED BY <2>5, <2>6, <2>7, <2>8 DEF SearchSound
  <1>7. CASE AttachCitation
    <2> DEFINE near == IF Anchor \notin Present THEN <<>>
                       ELSE Restrict(text, {s \in Present : StreamOf[s] = StreamOf[Anchor]})
    <2>1. /\ searching # None /\ searching.step = "citation"
          /\ UNCHANGED <<text, translated, translating, translations, rewrites>>
      BY <1>7 DEF AttachCitation, derived, tables, jobs, counts
    <2>2. /\ searching \in Hits /\ row \in RowNames /\ SaysStill(row, says, since)
          /\ Generated(row) /\ evidence = None => Vanished(row)
          /\ evidence # None => /\ Generated(row) /\ evidence.span = row[1]
                                /\ evidence.original = says \/ rewrites # since
      BY <2>1 DEF SearchSound, Hits
    <2>3. searching' = [searching EXCEPT !.step = "done", !.context = near]
      BY <1>7 DEF AttachCitation
    <2>4. near \in {<<>>} \cup SomeTexts
      <3> DEFINE S == {s \in Present : StreamOf[s] = StreamOf[Anchor]}
      <3>1. S \in SUBSET Present
        OBVIOUS
      <3> HIDE DEF S
      <3>2. Restrict(text, S) \in SomeTexts
        BY <3>1, RestrictedTexts DEF DerivedInv, TypeInv
      <3> QED BY <3>2 DEF S
    <2>5. Generated(row) /\ evidence = None => near = <<>>
      BY RecordsAreNotNone DEF Anchor, Present
    <2>6. rewrites = since /\ (Generated(row) => evidence # None) =>
            row[1] \in DOMAIN near /\ near[row[1]] = says
      <3> SUFFICES ASSUME rewrites = since, Generated(row) => evidence # None
                   PROVE  row[1] \in DOMAIN near /\ near[row[1]] = says
        OBVIOUS
      <3>1. Anchor = row[1]
        BY <2>2 DEF Anchor
      <3>2. row[1] \in Present /\ text[row[1]] = says
        BY <2>2, RowsHaveASpan DEF SaysStill, Present
      <3> QED BY <3>1, <3>2 DEF Restrict
    <2> HIDE DEF near
    <2>7. /\ searching' \in Hits /\ searching'.row = row /\ searching'.says = says
          /\ searching'.since = since /\ searching'.step = "done"
          /\ searching'.evidence = evidence /\ searching'.context = near
      BY <2>2, <2>3, <2>4 DEF Hits
    <2>8. SaysStill(row, says, since)' /\ (Vanished(row) => Vanished(row)')
      BY <2>1, <2>2, <2>7 DEF SaysStill, Vanished
    <2> QED BY <2>1, <2>2, <2>5, <2>6, <2>7, <2>8 DEF SearchSound
  <1> QED BY <1>3, <1>4, <1>5, <1>6, <1>7, WhoSearches

-----------------------------------------------------------------------------
(* Judgments and their evaluation.                                         *)

Judgments == [linked : BOOLEAN, video : BOOLEAN, says : Texts, fresh : BOOLEAN]
Views == [span : Ids, says : Texts, since : Nat]
Results == [row : RowNames, says : Texts]
Evaluations ==
  [step : {"preferred", "search", "done"}, targets : [Ids -> Judgments \cup {None}],
   preferred : Range(Streams) \cup {None},
   results : Seq(Results), since : Nat]

\* A judgment that names its segment says what the segment says, unless it was recorded
\* of a text that was rewritten after it had been viewed.
LinkedAreTrue(judgments) ==
  \A s \in Ids :
    judgments[s] # None /\ judgments[s].linked /\ judgments[s].fresh =>
      judgments[s].says = text[s]

\* What a researcher looks at is there until a rewrite.
ViewSound ==
  viewed # None =>
    /\ viewed \in Views /\ viewed.since <= rewrites
    /\ viewed.since = rewrites => viewed.says = text[viewed.span]

TargetsSound ==
  targets \in [Ids -> Judgments \cup {None}] /\ LinkedAreTrue(targets) /\ ViewSound

\* What an evaluation has read is true until a rewrite.
EvaluationSound ==
  evaluating # None =>
    /\ evaluating \in Evaluations /\ evaluating.since <= rewrites
    /\ rewrites = evaluating.since =>
         /\ LinkedAreTrue(evaluating.targets)
         /\ evaluating.step = "done" =>
              \A i \in DOMAIN evaluating.results :
                evaluating.results[i].says = text[evaluating.results[i].row[1]]

\* A step that is a rewrite has let go of what named its segments.
LEMMA WhoRewrites ==
  ASSUME TypeInv, [CorpusNext]_corpusVars
  PROVE  /\ rewrites \in Nat
         /\ \/ rewrites' = rewrites /\ text' = text
            \/ /\ rewrites' = rewrites + 1
               /\ UNCHANGED <<evaluating, exporting>>
               /\ \E stream \in Range(Streams) : RewriteAndUnlink(stream)
  <1>1. rewrites \in Nat
    BY DEF TypeInv, CountsTypeOK
  <1>2. \/ \E stream \in Range(Streams) : RewriteAndUnlink(stream)
        \/ rewrites' = rewrites /\ text' = text
    BY DEF CorpusNext, corpusVars, derived, JobNext, tables, counts, RefreshQuality,
       BeginReembed, SelectBatch, WriteBatch, StopReembed, ReadVideo, WriteVideo,
       BeginTranslation, RemoveOrphans, ReadExisting, TranslateGroup, GroupFails,
       RecordOutcome, StopTranslation, ReadSources, DeleteRuns, InsertRun, View, Judge, Annotate,
       Search, LiteralSearch, AttachTranslation, AttachCitation, LoadSnapshot, Rebuild,
       StopSync, ReadTargets, ReadPreferred, RankSearch, LoadSegments, LoadStreams,
       LoadTurns
  <1> QED BY <1>1, <1>2 DEF RewriteAndUnlink, Rewrite, reports

LEMMA ViewStays ==
  ASSUME TypeInv, ViewSound, [CorpusNext]_corpusVars,
         \/ viewed' = None \/ viewed' = viewed
  PROVE  ViewSound'
  <1> SUFFICES ASSUME viewed # None, viewed' = viewed
               PROVE  ViewSound'
    BY DEF ViewSound
  <1>1. viewed \in Views /\ viewed.since \in Nat /\ viewed.since <= rewrites
    BY DEF ViewSound, Views
  <1>2. CASE rewrites' = rewrites /\ text' = text
    BY <1>2 DEF ViewSound
  <1>3. CASE rewrites' = rewrites + 1
    BY <1>1, <1>3, WhoRewrites DEF ViewSound
  <1> QED BY <1>2, <1>3, WhoRewrites

LEMMA TargetsStay ==
  ASSUME TypeInv, TargetsSound, [CorpusNext]_corpusVars
  PROVE  TargetsSound'
  <1>1. text \in [Ids -> Texts \cup {None}] /\ rewrites \in Nat
    BY DEF TypeInv, TextsTypeOK, CountsTypeOK
  <1>2. ASSUME NEW stream \in Range(Streams), RewriteAndUnlink(stream)
        PROVE  TargetsSound'
    <2>1. targets' = [s \in Ids |-> IF targets[s] # None /\ StreamOf[s] = stream
                                    THEN [targets[s] EXCEPT !.linked = FALSE]
                                    ELSE targets[s]]
          /\ viewed' = viewed
      BY <1>2 DEF RewriteAndUnlink
    <2>2. \A s \in Ids : StreamOf[s] # stream => text'[s] = text[s]
      BY <1>2, TextIsRewritten DEF RewriteAndUnlink
    <2>3. \A s \in Ids : targets[s] # None =>
            /\ [targets[s] EXCEPT !.linked = FALSE] \in Judgments
            /\ ~ [targets[s] EXCEPT !.linked = FALSE].linked
      BY DEF TargetsSound, Judgments
    <2>4. targets' \in [Ids -> Judgments \cup {None}]
      BY <2>1, <2>3 DEF TargetsSound
    <2>5. LinkedAreTrue(targets)'
      BY <2>1, <2>2, <2>3 DEF TargetsSound, LinkedAreTrue
    <2>6. ViewSound'
      BY <2>1, ViewStays DEF TargetsSound
    <2> QED BY <2>4, <2>5, <2>6 DEF TargetsSound
  <1>3. CASE Judge
    <2> DEFINE s == viewed.span
               says == viewed.says
               fresh == viewed.since = rewrites
    <2>1. PICK video \in BOOLEAN :
            targets' = [targets EXCEPT
              ![s] = [linked |-> TRUE, video |-> video, says |-> says, fresh |-> fresh]]
      BY <1>3 DEF Judge
    <2>2. text' = text /\ s \in Ids /\ says \in Texts /\ (fresh => says = text[s])
      BY <1>3 DEF Judge, derived, tables, TargetsSound, ViewSound, Views
    <2>3. viewed' = None
      BY <1>3 DEF Judge
    <2>4. ViewSound'
      BY <2>3, ViewStays DEF TargetsSound
    <2> HIDE DEF s, says, fresh
    <2> DEFINE new == [linked |-> TRUE, video |-> video, says |-> says,
                       fresh |-> (fresh = TRUE)]
    <2>5. fresh \in BOOLEAN
      BY DEF fresh
    <2>6. new \in Judgments /\ new.says = says /\ (new.fresh => fresh)
      BY <2>2 DEF Judgments
    <2>7. targets' = [targets EXCEPT ![s] = new]
      BY <2>1, <2>5
    <2> HIDE DEF new
    <2> QED BY <2>2, <2>4, <2>6, <2>7 DEF TargetsSound, LinkedAreTrue
  <1>4. CASE UNCHANGED <<text, targets>> /\ viewed' = viewed
    <2>1. ViewSound'
      BY <1>4, ViewStays DEF TargetsSound
    <2> QED BY <1>4, <2>1 DEF TargetsSound, LinkedAreTrue
  <1>6. ASSUME NEW s \in Ids, View(s)
        PROVE  TargetsSound'
    <2>1. /\ viewed' = [span |-> s, says |-> text[s], since |-> rewrites]
          /\ UNCHANGED <<text, targets, rewrites>> /\ text[s] \in Texts
      BY <1>1, <1>6 DEF View, derived, tables, counts
    <2>2. viewed' \in Views
      BY <1>1, <2>1 DEF Views
    <2> QED BY <1>1, <2>1, <2>2 DEF TargetsSound, LinkedAreTrue, ViewSound
  <1>5. \/ \E stream \in Range(Streams) : RewriteAndUnlink(stream)
        \/ Judge \/ \E s \in Ids : View(s)
        \/ targets' = targets /\ viewed' = viewed
    BY DEF CorpusNext, corpusVars, judged, Annotate, Search, LiteralSearch,
       AttachTranslation, AttachCitation, LoadSnapshot, Rebuild, StopSync, ReadTargets,
       ReadPreferred, RankSearch, LoadSegments, LoadStreams, LoadTurns
  <1> QED BY <1>2, <1>3, <1>4, <1>5, <1>6, WhoRewrites

LEMMA EvaluationStays ==
  ASSUME DerivedInv, TargetsSound, EvaluationSound, [CorpusNext]_corpusVars
  PROVE  EvaluationSound'
  <1> USE DEF DerivedInv
  <1>1. CASE ReadTargets
    <2>1. /\ evaluating' = [step |-> "preferred", targets |-> targets, preferred |-> None,
                            results |-> <<>>, since |-> rewrites]
          /\ text' = text /\ rewrites' = rewrites
      BY <1>1 DEF ReadTargets, derived, tables, counts
    <2>2. rewrites \in Nat
      BY DEF TypeInv, CountsTypeOK
    <2>3. evaluating' \in Evaluations
      BY <2>1, <2>2 DEF Evaluations, TargetsSound
    <2> QED BY <2>1, <2>2, <2>3 DEF EvaluationSound, TargetsSound, LinkedAreTrue
  <1>2. CASE ReadPreferred
    <2>1. /\ evaluating # None /\ evaluating \in Evaluations
          /\ text' = text /\ rewrites' = rewrites
      BY <1>2 DEF ReadPreferred, EvaluationSound, derived, tables, counts
    <2>2. evaluating' = [evaluating EXCEPT !.step = "search", !.preferred = preferred]
      BY <1>2 DEF ReadPreferred
    <2>3. preferred \in Range(Streams) \cup {None}
      BY DEF TypeInv, TextsTypeOK
    <2>4. /\ evaluating' \in Evaluations /\ evaluating'.step = "search"
          /\ evaluating'.targets = evaluating.targets
          /\ evaluating'.since = evaluating.since
      BY <2>1, <2>2, <2>3 DEF Evaluations
    <2> QED BY <2>1, <2>4 DEF EvaluationSound, LinkedAreTrue
  <1>3. CASE RankSearch
    <2>1. /\ evaluating # None /\ evaluating \in Evaluations
          /\ text' = text /\ rewrites' = rewrites
      BY <1>3 DEF RankSearch, EvaluationSound, derived, tables, counts
    <2> DEFINE own == {row \in Passages : StreamOf[row[1]] = evaluating.preferred}
    <2>2. PICK n \in 0..TopK : \E rows \in [1..n -> own] :
            evaluating' = [evaluating EXCEPT !.step = "done",
              !.results = [i \in 1..n |-> [row |-> rows[i], says |-> Says(rows[i])]]]
      BY <1>3 DEF RankSearch
    <2>3. PICK rows \in [1..n -> own] :
            evaluating' = [evaluating EXCEPT !.step = "done",
              !.results = [i \in 1..n |-> [row |-> rows[i], says |-> Says(rows[i])]]]
      BY <2>2
    <2> DEFINE results == [i \in 1..n |-> [row |-> rows[i], says |-> Says(rows[i])]]
    <2>4. \A i \in 1..n : rows[i] \in Passages
      BY <2>3
    <2>5. \A i \in 1..n : rows[i] \in RowNames /\ Says(rows[i]) \in Texts
                          /\ Says(rows[i]) = text[rows[i][1]]
      BY <2>4, PassagesAreSeen
    <2>6. results \in Seq(Results)
      <3>1. results \in [1..n -> Results] /\ n \in Nat
        BY <2>3, <2>5 DEF Results
      <3> HIDE DEF results
      <3> QED BY <3>1
    <2>7. \A i \in DOMAIN results : results[i].says = text[results[i].row[1]]
      BY <2>5
    <2> HIDE DEF results
    <2>8. evaluating' = [evaluating EXCEPT !.step = "done", !.results = results]
      BY <2>3 DEF results
    <2>9. /\ evaluating' \in Evaluations /\ evaluating'.results = results
          /\ evaluating'.targets = evaluating.targets
          /\ evaluating'.since = evaluating.since
      BY <2>1, <2>6, <2>8 DEF Evaluations
    <2> QED BY <2>1, <2>7, <2>9 DEF EvaluationSound, LinkedAreTrue
  <1>4. CASE UNCHANGED evaluating
    <2> SUFFICES ASSUME evaluating # None
                 PROVE  EvaluationSound'
      BY <1>4 DEF EvaluationSound
    <2>1. evaluating \in Evaluations /\ evaluating.since \in Nat
      BY DEF EvaluationSound, Evaluations
    <2>2. CASE rewrites' = rewrites /\ text' = text
      BY <1>4, <2>2 DEF EvaluationSound, LinkedAreTrue
    <2>3. CASE rewrites' = rewrites + 1
      BY <1>4, <2>1, <2>3, WhoRewrites DEF EvaluationSound
    <2> QED BY <2>2, <2>3, WhoRewrites
  <1>5. ReadTargets \/ ReadPreferred \/ RankSearch \/ UNCHANGED evaluating
    BY DEF CorpusNext, corpusVars, reports, RewriteAndUnlink, View, Judge, Annotate, Search,
       LiteralSearch, AttachTranslation, AttachCitation, LoadSnapshot, Rebuild, StopSync,
       LoadSegments, LoadStreams, LoadTurns
  <1> QED BY <1>1, <1>2, <1>3, <1>4, <1>5

-----------------------------------------------------------------------------
(* Exports.                                                                *)

Snapshots ==
  [step : {"streams", "turns", "done"}, spans : SomeTexts,
   full : {<<>>} \cup UNION {[S -> SomeTexts] : S \in SUBSET Range(Streams)},
   turns : SUBSET Ids, since : Nat, torn : BOOLEAN]

FullText(x) ==
  \A stream \in StreamsOf(exporting[x].spans) :
    exporting[x].full[stream] = SpansOf(exporting[x].spans, stream)

TurnsSound == \A s \in Ids : turns[s] = "linked" => text[s] # None

\* The spans of a snapshot are the transcript of the count of rewrites it bears; what else it
\* holds is of its spans, unless it is torn, and then that count is past.
ExportsSound ==
  /\ exporting \in [Exports -> Snapshots \cup {None}]
  /\ \A x \in Exports : exporting[x] # None =>
       /\ exporting[x].since <= rewrites
       /\ exporting[x].since = rewrites => exporting[x].spans = Restrict(text, Present)
       /\ exporting[x].torn => exporting[x].since # rewrites
       /\ exporting[x].step # "streams" /\ ~ exporting[x].torn => FullText(x)
       /\ exporting[x].step = "done" /\ ~ exporting[x].torn =>
            exporting[x].turns \subseteq DOMAIN exporting[x].spans
  /\ \A x, y \in Exports :
       /\ exporting[x] # None /\ exporting[y] # None
       /\ exporting[x].since = exporting[y].since
       => exporting[x].spans = exporting[y].spans

LEMMA TurnsStay ==
  ASSUME TypeInv, TurnsSound, [CorpusNext]_corpusVars
  PROVE  TurnsSound'
  <1>1. ASSUME NEW stream \in Range(Streams), RewriteAndUnlink(stream)
        PROVE  TurnsSound'
    <2>1. /\ turns' = [s \in Ids |-> IF turns[s] = "linked" /\ StreamOf[s] = stream
                                     THEN "loose" ELSE turns[s]]
          /\ \A s \in Ids : StreamOf[s] # stream => text'[s] = text[s]
      BY <1>1, TextIsRewritten DEF RewriteAndUnlink
    <2> QED BY <2>1 DEF TurnsSound
  <1>2. ASSUME NEW s \in Ids, Annotate(s)
        PROVE  TurnsSound'
    BY <1>2 DEF Annotate, derived, tables, TurnsSound
  <1>3. CASE UNCHANGED <<text, turns>>
    BY <1>3 DEF TurnsSound
  <1>4. \/ \E stream \in Range(Streams) : RewriteAndUnlink(stream)
        \/ \E s \in Ids : Annotate(s)
        \/ turns' = turns
    BY DEF CorpusNext, corpusVars, judged, View, Judge, Search, LiteralSearch,
       AttachTranslation, AttachCitation, LoadSnapshot, Rebuild, StopSync, ReadTargets,
       ReadPreferred, RankSearch, LoadSegments, LoadStreams, LoadTurns
  <1> QED BY <1>1, <1>2, <1>3, <1>4, WhoRewrites

\* What is left to show of a step that changes one snapshot, and of its spans only by
\* reading the transcript of the moment.
LEMMA OneExportChanges ==
  ASSUME DerivedInv, ExportsSound, text' = text, rewrites' = rewrites,
         NEW x \in Exports, NEW new \in Snapshots,
         exporting' = [exporting EXCEPT ![x] = new],
         \/ /\ exporting[x] # None
            /\ new.since = exporting[x].since /\ new.spans = exporting[x].spans
         \/ new.since = rewrites /\ new.spans = Restrict(text, Present),
         new.torn => new.since # rewrites,
         new.step # "streams" /\ ~ new.torn =>
           \A stream \in StreamsOf(new.spans) : new.full[stream] = SpansOf(new.spans, stream),
         new.step = "done" /\ ~ new.torn => new.turns \subseteq DOMAIN new.spans
  PROVE  ExportsSound'
  <1>1. rewrites \in Nat
    BY DEF DerivedInv, TypeInv, CountsTypeOK
  <1>2. /\ exporting'[x] = new
        /\ \A y \in Exports : y # x => exporting'[y] = exporting[y]
        /\ exporting' \in [Exports -> Snapshots \cup {None}]
    BY DEF ExportsSound
  <1>3. /\ new.since <= rewrites
        /\ new.since = rewrites => new.spans = Restrict(text, Present)
    BY <1>1 DEF ExportsSound
  <1>4. \A y \in Exports : exporting[y] # None /\ new.since = exporting[y].since =>
          new.spans = exporting[y].spans
    BY DEF ExportsSound
  <1>5. Present' = Present
    BY DEF Present
  <1>6. ASSUME NEW y \in Exports, exporting'[y] # None
        PROVE  /\ exporting'[y].since <= rewrites'
               /\ exporting'[y].since = rewrites' =>
                    exporting'[y].spans = Restrict(text', Present')
               /\ exporting'[y].torn => exporting'[y].since # rewrites'
               /\ exporting'[y].step # "streams" /\ ~ exporting'[y].torn => FullText(y)'
               /\ exporting'[y].step = "done" /\ ~ exporting'[y].torn =>
                    exporting'[y].turns \subseteq DOMAIN exporting'[y].spans
    <2>1. CASE y = x
      <3>1. exporting'[y] = new
        BY <1>2, <2>1
      <3> QED BY <1>3, <1>5, <3>1 DEF FullText, StreamsOf, SpansOf
    <2>2. CASE y # x
      <3>1. exporting'[y] = exporting[y]
        BY <1>2, <2>2
      <3> QED BY <1>5, <1>6, <3>1 DEF ExportsSound, FullText, StreamsOf, SpansOf
    <2> QED BY <2>1, <2>2
  <1>7. \A y, z \in Exports :
          /\ exporting'[y] # None /\ exporting'[z] # None
          /\ exporting'[y].since = exporting'[z].since
          => exporting'[y].spans = exporting'[z].spans
    BY <1>2, <1>4 DEF ExportsSound
  <1> QED BY <1>2, <1>6, <1>7 DEF ExportsSound

LEMMA ExportsStay ==
  ASSUME DerivedInv, TurnsSound, ExportsSound, [CorpusNext]_corpusVars
  PROVE  ExportsSound'
  <1>1. rewrites \in Nat /\ text \in [Ids -> Texts \cup {None}]
    BY DEF DerivedInv, TypeInv, CountsTypeOK, TextsTypeOK
  <1>2. Restrict(text, Present) \in SomeTexts /\ DOMAIN Restrict(text, Present) = Present
    BY RestrictedTexts DEF DerivedInv, TypeInv
  <1>3. ASSUME NEW x \in Exports, LoadSegments(x)
        PROVE  ExportsSound'
    <2> DEFINE new == [step |-> "streams", spans |-> Restrict(text, Present), full |-> <<>>,
                       turns |-> {}, since |-> rewrites, torn |-> FALSE]
    <2>1. /\ exporting' = [exporting EXCEPT ![x] = new]
          /\ text' = text /\ rewrites' = rewrites
      BY <1>3 DEF LoadSegments, derived, tables, counts
    <2>2. new \in Snapshots
      BY <1>1, <1>2 DEF Snapshots
    <2>3. /\ new.since = rewrites /\ new.spans = Restrict(text, Present)
          /\ new.step = "streams" /\ ~ new.torn
      OBVIOUS
    <2> HIDE DEF new
    <2> QED BY <2>1, <2>2, <2>3, OneExportChanges
  <1>4. ASSUME NEW x \in Exports, LoadStreams(x)
        PROVE  ExportsSound'
    <2> DEFINE old == exporting[x]
               full == [stream \in StreamsOf(old.spans) |->
                          SpansOf(Restrict(text, Present), stream)]
               torn == rewrites # old.since
               new == [old EXCEPT !.step = "turns", !.full = full, !.torn = torn]
    <2>1. /\ old # None /\ old \in Snapshots
          /\ text' = text /\ rewrites' = rewrites
      BY <1>4 DEF LoadStreams, ExportsSound, derived, tables, counts
    <2>2. exporting' = [exporting EXCEPT ![x] = new]
      BY <1>4 DEF LoadStreams, ExportsSound
    <2>3. StreamsOf(old.spans) \in SUBSET Range(Streams)
      <3>1. old.spans \in SomeTexts
        BY <2>1 DEF Snapshots
      <3> QED BY <3>1, SomeTextsRead, TextsAssumption DEF StreamsOf
    <2>4. \A stream : SpansOf(Restrict(text, Present), stream) \in SomeTexts
      <3> SUFFICES ASSUME NEW stream
                   PROVE  SpansOf(Restrict(text, Present), stream) \in SomeTexts
        OBVIOUS
      <3> DEFINE S == {s \in Present : StreamOf[s] = stream}
      <3>1. S \in SUBSET Ids /\ \A s \in S : text[s] \in Texts
        BY <1>1 DEF Present
      <3>2. SpansOf(Restrict(text, Present), stream) = [s \in S |-> text[s]]
        BY DEF SpansOf, Restrict
      <3>3. [s \in S |-> text[s]] \in [S -> Texts]
        BY <3>1
      <3> HIDE DEF S
      <3> QED BY <3>1, <3>2, <3>3 DEF SomeTexts
    <2>5. full \in UNION {[S -> SomeTexts] : S \in SUBSET Range(Streams)}
      BY <2>3, <2>4
    <2>6. ~ torn => \A stream \in StreamsOf(old.spans) : full[stream] = SpansOf(old.spans, stream)
      BY <2>1 DEF ExportsSound
    <2> HIDE DEF full, torn, old
    <2>7. torn \in BOOLEAN
      BY DEF torn
    <2>8. new \in Snapshots
      BY <2>1, <2>5, <2>7 DEF Snapshots
    <2>9. /\ new.step = "turns" /\ new.full = full /\ new.torn = torn
          /\ new.spans = old.spans /\ new.since = old.since
      BY <2>1 DEF Snapshots
    <2> HIDE DEF new
    <2>10. new.torn => new.since # rewrites
      BY <2>9 DEF torn
    <2> QED BY <2>1, <2>2, <2>6, <2>8, <2>9, <2>10, OneExportChanges DEF old
  <1>5. ASSUME NEW x \in Exports, LoadTurns(x)
        PROVE  ExportsSound'
    <2> DEFINE old == exporting[x]
               linked == {s \in Ids : turns[s] = "linked"}
               torn == rewrites # old.since
               new == [old EXCEPT !.step = "done", !.turns = linked, !.torn = torn]
    <2>1. /\ old # None /\ old \in Snapshots /\ old.step = "turns"
          /\ text' = text /\ rewrites' = rewrites
      BY <1>5 DEF LoadTurns, ExportsSound, derived, tables, counts
    <2>2. exporting' = [exporting EXCEPT ![x] = new]
      BY <1>5 DEF LoadTurns, ExportsSound
    <2>3. ~ torn => /\ \A stream \in StreamsOf(old.spans) :
                         old.full[stream] = SpansOf(old.spans, stream)
                    /\ linked \subseteq DOMAIN old.spans
      <3>1. linked \subseteq Present
        BY DEF TurnsSound, Present
      <3>2. ~ torn => ~ old.torn /\ old.spans = Restrict(text, Present)
        BY <2>1 DEF ExportsSound
      <3>3. ~ torn => FullText(x)
        BY <2>1, <3>2 DEF ExportsSound
      <3> QED BY <1>2, <3>1, <3>2, <3>3 DEF FullText
    <2>4. linked \in SUBSET Ids
      OBVIOUS
    <2> HIDE DEF linked, torn, old
    <2>5. torn \in BOOLEAN
      BY DEF torn
    <2>6. new \in Snapshots
      BY <2>1, <2>4, <2>5 DEF Snapshots
    <2>7. /\ new.step = "done" /\ new.full = old.full /\ new.torn = torn
          /\ new.spans = old.spans /\ new.since = old.since /\ new.turns = linked
      BY <2>1 DEF Snapshots
    <2> HIDE DEF new
    <2>8. new.torn => new.since # rewrites
      BY <2>7 DEF torn
    <2> QED BY <2>1, <2>2, <2>3, <2>6, <2>7, <2>8, OneExportChanges DEF old
  <1>6. CASE UNCHANGED exporting
    <2>1. CASE rewrites' = rewrites /\ text' = text
      BY <1>6, <2>1 DEF ExportsSound, FullText, StreamsOf, SpansOf, Present
    <2>2. CASE rewrites' = rewrites + 1
      <3>1. \A x \in Exports : exporting[x] # None =>
              /\ exporting[x].since <= rewrites' /\ exporting[x].since # rewrites'
              /\ FullText(x)' <=> FullText(x)
        BY <1>1, <1>6, <2>2 DEF ExportsSound, Snapshots, FullText, StreamsOf, SpansOf
      <3> QED BY <1>6, <3>1 DEF ExportsSound
    <2> QED BY <2>1, <2>2, WhoRewrites DEF DerivedInv
  <1>7. \/ \E x \in Exports : LoadSegments(x) \/ LoadStreams(x) \/ LoadTurns(x)
        \/ UNCHANGED exporting
    BY DEF CorpusNext, corpusVars, reports, RewriteAndUnlink, View, Judge, Annotate, Search,
       LiteralSearch, AttachTranslation, AttachCitation, LoadSnapshot, Rebuild, StopSync,
       ReadTargets, ReadPreferred, RankSearch
  <1> QED BY <1>3, <1>4, <1>5, <1>6, <1>7

-----------------------------------------------------------------------------
(* Theorems of CorpusReaders' specification.                               *)

WatchInv ==
  /\ SnapshotSound /\ IndexSound /\ SearchSound
  /\ TargetsSound /\ EvaluationSound /\ TurnsSound /\ ExportsSound

LEMMA WatchInit ==
  ASSUME CorpusInit
  PROVE  WatchInv
  <1>1. SnapshotSound /\ SearchSound /\ EvaluationSound
    BY DEF CorpusInit, SnapshotSound, SearchSound, EvaluationSound
  <1>2. IndexSound
    BY DEF CorpusInit, IndexSound
  <1>3. TargetsSound /\ TurnsSound
    BY DEF CorpusInit, TargetsSound, LinkedAreTrue, TurnsSound, ViewSound
  <1>4. ExportsSound
    BY DEF CorpusInit, ExportsSound
  <1> QED BY <1>1, <1>2, <1>3, <1>4 DEF WatchInv

(* What a reader knows stays true beside every rewrite and every job.      *)
THEOREM ReadersInvariant == CorpusSpec => []WatchInv
  <1>1. DerivedInv /\ WatchInv /\ [CorpusNext]_corpusVars => WatchInv'
    BY SnapshotStays, IndexStays, SearchStays, TargetsStay, EvaluationStays, TurnsStay,
       ExportsStay DEF WatchInv, DerivedInv
  <1>2. CorpusSpec => []DerivedInv
    BY ReadersOnlyWatch, DerivedTextsInvariant, PTL
  <1> QED BY <1>1, <1>2, WatchInit, PTL DEF CorpusSpec

(* A hit without a translation is original text unless its row was stored  *)
(* anew or removed, one with a translation shows the text it translates    *)
(* and the context it stands in, unless the transcript was rewritten       *)
(* meanwhile: search, attach_translation_evidence and load_context read    *)
(* in statements of their own, and row ids are never used twice.           *)
THEOREM HitsAreTrue == CorpusSpec => []HitsKeepTheirOrigin
  <1>1. WatchInv => HitsKeepTheirOrigin
    BY DEF WatchInv, SearchSound, HitsKeepTheirOrigin, Answered, Vanished, Current
  <1> QED BY <1>1, ReadersInvariant, PTL

(* A linked judgment counts only its own segment, and that says what was   *)
(* judged unless the transcript was rewritten after the evaluation began.  *)
THEOREM JudgmentsAreKept == CorpusSpec => []JudgmentsHold
  <1>1. ASSUME WatchInv
        PROVE  JudgmentsHold
    <2> SUFFICES ASSUME evaluating # None, evaluating.step = "done", NEW s \in Counted,
                        evaluating.targets[s].linked
                 PROVE  \E i \in DOMAIN evaluating.results :
                          /\ evaluating.results[i].row = <<s>>
                          /\ \/ evaluating.results[i].says = evaluating.targets[s].says
                             \/ ~ evaluating.targets[s].fresh
                             \/ rewrites # evaluating.since
      BY DEF JudgmentsHold
    <2>1. PICK i \in DOMAIN evaluating.results : evaluating.results[i].row = <<s>>
      BY DEF Counted, Matches
    <2>2. s \in Ids /\ evaluating.targets[s] # None
      BY DEF Counted, Judged
    <2>3. rewrites = evaluating.since =>
            /\ evaluating.targets[s].fresh => evaluating.targets[s].says = text[s]
            /\ evaluating.results[i].says = text[s]
      BY <1>1, <2>1, <2>2 DEF WatchInv, EvaluationSound, LinkedAreTrue
    <2> QED BY <2>1, <2>3
  <1> QED BY <1>1, ReadersInvariant, PTL

\* The step of RevisionsIdentify.
RevisionsIdentifyStep ==
  /\ \A row \in DOMAIN index :
       /\ row \in DOMAIN index'
       /\ index'[row].revision >= index[row].revision
       /\ index'[row] # index[row] => index'[row].revision > index[row].revision
  /\ indexed' # indexed =>
       {row \in DOMAIN index' : index'[row].says # None} = DOMAIN syncing.says

(* A revision of the literal index names one content for ever, and after a *)
(* synchronisation the live documents are the passages of its snapshot.    *)
THEOREM RevisionsAreUsedOnce == CorpusSpec => RevisionsIdentify
  <1>1. ASSUME DerivedInv, WatchInv, [CorpusNext]_corpusVars
        PROVE  RevisionsIdentifyStep
    <2>1. \A row \in DOMAIN index : index[row].revision \in Nat
      BY <1>1 DEF WatchInv, IndexSound, Documents
    <2>2. CASE Rebuild
      <3>1. \A row \in DOMAIN index :
              /\ row \in DOMAIN index'
              /\ \/ index'[row] = index[row]
                 \/ index'[row].revision = index[row].revision + 1
        BY <1>1, <2>2, RebuildIsOfSnapshot DEF WatchInv
      <3>2. \A row \in DOMAIN syncing.says : syncing.says[row] # None
        BY <1>1, <2>2, RecordsAreNotNone DEF WatchInv, SnapshotSound, Rebuild
      <3>3. \A row \in DOMAIN index' :
              index'[row].says # None <=> row \in DOMAIN syncing.says
        BY <1>1, <2>2, <3>2, RebuildIsOfSnapshot DEF WatchInv
      <3>4. DOMAIN syncing.says \subseteq DOMAIN index'
        BY <1>1, <2>2, RebuildIsOfSnapshot DEF WatchInv
      <3> QED BY <2>1, <3>1, <3>3, <3>4 DEF RevisionsIdentifyStep
    <2>3. CASE UNCHANGED <<index, indexed>>
      BY <2>1, <2>3 DEF RevisionsIdentifyStep
    <2> QED BY <1>1, <2>2, <2>3, WhoIndexes DEF LoadSnapshot, StopSync
  <1>2. CorpusSpec => []DerivedInv
    BY ReadersOnlyWatch, DerivedTextsInvariant, PTL
  <1>3. DerivedInv /\ WatchInv /\ [CorpusNext]_corpusVars => [RevisionsIdentifyStep]_corpusVars
    BY <1>1
  <1>4. CorpusSpec => [][RevisionsIdentifyStep]_corpusVars
    BY <1>2, <1>3, ReadersInvariant, PTL DEF CorpusSpec
  <1> QED BY <1>4, PTL DEF RevisionsIdentify, RevisionsIdentifyStep

(* A citation and an export that read their segments between the same two  *)
(* rewrites agree on every interval, and a snapshot that is not torn       *)
(* describes its own spans: load_export_snapshot reads in statements of    *)
(* their own, and a citation is cut from such a snapshot.                  *)
THEOREM SnapshotsReproduce == CorpusSpec => []SnapshotsAgree
  <1>1. ASSUME WatchInv
        PROVE  SnapshotsAgree
    <2>1. ASSUME \A x \in Exports : exporting[x] # None,
                 exporting["citation"].since = exporting["batch"].since,
                 NEW stream, NEW a, NEW b
          PROVE  SpanHash("citation", stream, a, b) = SpanHash("batch", stream, a, b)
      <3>1. exporting["citation"].spans = exporting["batch"].spans
        BY <1>1, <2>1 DEF WatchInv, ExportsSound, Exports
      <3> QED BY <3>1 DEF SpanHash
    <2>2. ASSUME NEW x \in Exports, exporting[x] # None, exporting[x].step = "done",
                 ~ exporting[x].torn
          PROVE  /\ exporting[x].turns \subseteq DOMAIN exporting[x].spans
                 /\ \A stream \in StreamsOf(exporting[x].spans) :
                      SourceRevision(x, stream).content = SpansOf(exporting[x].spans, stream)
      BY <1>1, <2>2 DEF WatchInv, ExportsSound, FullText, SourceRevision
    <2> QED BY <2>1, <2>2 DEF SnapshotsAgree
  <1> QED BY <1>1, ReadersInvariant, PTL

-----------------------------------------------------------------------------
(* Assembled texts.  The segments of a stream are counted by their         *)
(* positions.                                                              *)

UpTo(S, s) == {o \in S : Position(o) <= Position(s)}

LEMMA PlacesExist ==
  ASSUME NEW S \in SUBSET Ids, NEW i \in 1..Cardinality(S)
  PROVE  \E s \in S : Cardinality(UpTo(S, s)) = i
  <1> DEFINE n == Cardinality(S)
             f == [s \in S |-> Cardinality(UpTo(S, s))]
  <1>1. IsFiniteSet(S) /\ n \in Nat
    BY SegmentsAreFinite
  <1>2. IsFiniteSet(1..n) /\ Cardinality(1..n) = n
    BY <1>1, FS_Interval
  <1>3. ASSUME NEW s \in S
        PROVE  f[s] \in 1..n
    <2>1. UpTo(S, s) \in SUBSET S /\ s \in UpTo(S, s)
      BY PositionsExist DEF UpTo
    <2>2. IsFiniteSet(UpTo(S, s)) /\ Cardinality(UpTo(S, s)) <= n
      BY <1>1, <2>1, FS_Subset
    <2>3. Cardinality(UpTo(S, s)) \in Nat /\ Cardinality(UpTo(S, s)) # 0
      BY <2>1, <2>2, FS_CardinalityType, FS_EmptySet
    <2> QED BY <1>1, <2>2, <2>3
  <1>4. ASSUME NEW s \in S, NEW t \in S, Position(s) < Position(t)
        PROVE  f[s] # f[t]
    <2>1. /\ UpTo(S, s) \in SUBSET UpTo(S, t)
          /\ t \in UpTo(S, t) /\ t \notin UpTo(S, s)
      BY <1>4, PositionsExist DEF UpTo
    <2>2. IsFiniteSet(UpTo(S, t))
      BY SegmentsAreFinite DEF UpTo
    <2> QED BY <2>1, <2>2, FS_Subset
  <1>5. ASSUME NEW s \in S, NEW t \in S, s # t
        PROVE  f[s] # f[t]
    <2>1. Position(s) \in Nat /\ Position(t) \in Nat /\ Position(s) # Position(t)
      BY <1>5, PositionsExist
    <2>2. Position(s) < Position(t) \/ Position(t) < Position(s)
      BY <2>1
    <2> QED BY <1>4, <2>2
  <1>6. f \in Injection(S, 1..n)
    <2>1. f \in [S -> 1..n]
      BY <1>3
    <2> HIDE DEF f
    <2> QED BY <1>5, <2>1 DEF Injection, IsInjective
  <1>7. f \in Surjection(S, 1..n)
    BY <1>2, <1>6, FS_Injection
  <1> QED BY <1>7 DEF Surjection

LEMMA ItemsAreTexts ==
  ASSUME NEW x \in Exports, NEW stream, exporting[x].spans \in SomeTexts
  PROVE  ItemsOf(x, stream) \in Seq(Texts)
  <1> DEFINE spans == SpansOf(exporting[x].spans, stream)
             nth(i) == CHOOSE s \in DOMAIN spans :
                         Cardinality({o \in DOMAIN spans : Position(o) <= Position(s)}) = i
             n == Cardinality(DOMAIN spans)
  <1>1. DOMAIN spans \in SUBSET Ids /\ \A s \in DOMAIN spans : spans[s] \in Texts
    BY SomeTextsRead DEF SpansOf, Restrict
  <1>2. n \in Nat
    BY <1>1, SegmentsAreFinite
  <1>3. ASSUME NEW i \in 1..n
        PROVE  nth(i) \in DOMAIN spans
    <2>1. PICK D \in SUBSET Ids : D = DOMAIN spans
      BY <1>1
    <2>2. \E s \in D : Cardinality({o \in D : Position(o) <= Position(s)}) = i
      BY <2>1, PlacesExist DEF UpTo
    <2> QED BY <2>1, <2>2
  <1>4. ItemsOf(x, stream) = [i \in 1..n |-> spans[nth(i)]]
    BY DEF ItemsOf
  <1> HIDE DEF spans, nth, n
  <1>5. \A i \in 1..n : spans[nth(i)] \in Texts
    BY <1>1, <1>3
  <1>6. [i \in 1..n |-> spans[nth(i)]] \in [1..n -> Texts]
    BY <1>5
  <1> QED BY <1>2, <1>4, <1>6

\* Induction over the indices, with a set for the predicate.
LEMMA UpToAll ==
  ASSUME NEW n \in Nat, NEW S, 0 \in S, \A m \in 0..(n - 1) : m \in S => m + 1 \in S
  PROVE  n \in S
  <1>1. ASSUME n \notin S
        PROVE  FALSE
    <2> DEFINE R == OpToRel(<, Nat)
               B == {m \in 0..n : m \notin S}
    <2>1. IsWellFoundedOn(R, Nat)
      BY NatLessThanWellFounded
    <2>2. B \subseteq Nat /\ n \in B
      BY <1>1
    <2>3. \E m \in B : \A k \in B : ~ (<<k, m>> \in R)
      <3> HIDE DEF R, B
      <3> QED BY <2>1, <2>2, WFMin
    <2>4. PICK m \in B : \A k \in B : ~ (k < m)
      <3>1. \A m, k \in B : k < m => <<k, m>> \in R
        BY <2>2 DEF OpToRel
      <3> HIDE DEF R, B
      <3> QED BY <2>3, <3>1
    <2>5. m # 0
      OBVIOUS
    <2>6. m - 1 \in 0..(n - 1) /\ m - 1 \in Nat /\ m - 1 < m
      BY <2>5
    <2>7. m - 1 \notin B
      BY <2>4, <2>6
    <2>8. m - 1 \in S
      BY <2>6, <2>7
    <2>9. (m - 1) + 1 \in S
      BY <2>6, <2>8
    <2> QED BY <2>4, <2>5, <2>9
  <1> QED BY <1>1

(* A function on the indices of a sequence that goes from each to the next *)
(* exists, whatever the length.                                            *)
RunsOn(n, first, next, f) ==
  \A i \in 1..n : f[i] = IF i = 1 THEN first ELSE next[<<f[i - 1], i>>]

LEMMA RunExists ==
  ASSUME NEW n \in Nat, NEW T, NEW first \in T, NEW next \in [T \X (1..n) -> T]
  PROVE  \E f \in [1..n -> T] : RunsOn(n, first, next, f)
  <1> DEFINE S == {m \in 0..n : \E f \in [1..m -> T] : RunsOn(m, first, next, f)}
  <1>1. 0 \in S
    <2> DEFINE f == [i \in 1..0 |-> first]
    <2>1. f \in [1..0 -> T] /\ RunsOn(0, first, next, f)
      BY DEF RunsOn
    <2> HIDE DEF f
    <2>2. \E x \in [1..0 -> T] : RunsOn(0, first, next, x)
      BY <2>1
    <2>3. 0 \in 0..n
      OBVIOUS
    <2> QED BY <2>2, <2>3, Zenon
  <1>2. ASSUME NEW m \in 0..(n - 1), m \in S
        PROVE  m + 1 \in S
    <2>1. PICK f \in [1..m -> T] : RunsOn(m, first, next, f)
      BY <1>2
    <2> DEFINE h == [i \in 1..(m + 1) |->
                       IF i <= m THEN f[i]
                       ELSE IF i = 1 THEN first ELSE next[<<f[m], i>>]]
    <2>2. h \in [1..(m + 1) -> T]
      OBVIOUS
    <2>3. \A i \in 1..m : h[i] = f[i]
      OBVIOUS
    <2>4. h[m + 1] = IF m + 1 = 1 THEN first ELSE next[<<f[m], m + 1>>]
      OBVIOUS
    <2> HIDE DEF h
    <2>5. ASSUME NEW i \in 1..(m + 1)
          PROVE  h[i] = IF i = 1 THEN first ELSE next[<<h[i - 1], i>>]
      <3>1. CASE i \in 1..m
        <4>1. i # 1 => i - 1 \in 1..m
          BY <3>1
        <4> QED BY <2>1, <2>3, <3>1, <4>1 DEF RunsOn
      <3>2. CASE i = m + 1
        <4>1. i # 1 => i - 1 = m /\ m \in 1..m
          BY <3>2
        <4> QED BY <2>3, <2>4, <3>2, <4>1
      <3> QED BY <3>1, <3>2
    <2>6. RunsOn(m + 1, first, next, h)
      BY <2>5 DEF RunsOn
    <2>7. m + 1 \in 0..n
      OBVIOUS
    <2>8. \E x \in [1..(m + 1) -> T] : RunsOn(m + 1, first, next, x)
      BY <2>2, <2>6
    <2> QED BY <2>7, <2>8
  <1> HIDE DEF S
  <1>3. n \in S
    BY <1>1, <1>2, UpToAll
  <1> QED BY <1>3 DEF S

\* The start of each text in the assembled one, and what is assembled up to it.
StartsOf(items, start) ==
  \A i \in 1..Len(items) :
    start[i] = IF i = 1 THEN 0 ELSE start[i - 1] + LengthOf[items[i - 1]] + 1

PartsOf(items) ==
  [i \in DOMAIN items |-> IF i = 1 THEN CharsOf(items[i]) ELSE <<"\n">> \o CharsOf(items[i])]

FlatUpTo(parts, flat) ==
  \A i \in 1..Len(parts) : flat[i] = IF i = 1 THEN parts[i] ELSE flat[i - 1] \o parts[i]

Chars == (Texts \X Nat) \cup {"\n"}

LEMMA ItemsTyped ==
  ASSUME NEW items \in Seq(Texts)
  PROVE  /\ Len(items) \in Nat /\ DOMAIN items = 1..Len(items)
         /\ \A i \in 1..Len(items) : items[i] \in Texts /\ LengthOf[items[i]] \in Nat \ {0}
  BY ReadersAssumption

LEMMA CharsTyped ==
  ASSUME NEW t \in Texts
  PROVE  /\ CharsOf(t) \in Seq(Chars) /\ Len(CharsOf(t)) = LengthOf[t]
         /\ <<"\n">> \o CharsOf(t) \in Seq(Chars)
         /\ Len(<<"\n">> \o CharsOf(t)) = LengthOf[t] + 1
         /\ \A k \in 1..LengthOf[t] : (<<"\n">> \o CharsOf(t))[k + 1] = CharsOf(t)[k]
  <1>1. LengthOf[t] \in Nat
    BY ReadersAssumption
  <1>2. CharsOf(t) \in Seq(Chars) /\ Len(CharsOf(t)) = LengthOf[t]
    BY <1>1 DEF CharsOf, Chars
  <1>3. <<"\n">> \in Seq(Chars) /\ Len(<<"\n">>) = 1
    BY DEF Chars
  <1> QED BY <1>1, <1>2, <1>3

LEMMA StartsExist ==
  ASSUME NEW items \in Seq(Texts)
  PROVE  \E start \in [1..Len(items) -> Nat] :
           /\ StartsOf(items, start)
           /\ RangesOf(items)
                = [i \in 1..Len(items) |-> <<start[i], start[i] + LengthOf[items[i]]>>]
  <1> DEFINE n == Len(items)
             next == [p \in Nat \X (1..n) |->
                        IF p[2] = 1 THEN 0 ELSE p[1] + LengthOf[items[p[2] - 1]] + 1]
             start == CHOOSE f : f = [i \in DOMAIN items |->
                        IF i = 1 THEN 0 ELSE f[i - 1] + LengthOf[items[i - 1]] + 1]
  <1>1. n \in Nat /\ DOMAIN items = 1..n
    BY ItemsTyped
  <1>2. next \in [Nat \X (1..n) -> Nat]
    <2>1. ASSUME NEW p \in Nat \X (1..n), p[2] # 1
          PROVE  LengthOf[items[p[2] - 1]] \in Nat
      <3>1. p[2] - 1 \in 1..n
        BY <1>1, <2>1
      <3> QED BY <3>1, ItemsTyped
    <2> QED BY <2>1
  <1>3. PICK f \in [1..n -> Nat] : RunsOn(n, 0, next, f)
    <2> HIDE DEF next
    <2> QED BY <1>1, <1>2, RunExists
  <1>4. \A i \in 1..n : f[i] = IF i = 1 THEN 0 ELSE f[i - 1] + LengthOf[items[i - 1]] + 1
    <2>1. ASSUME NEW i \in 1..n, i # 1
          PROVE  next[<<f[i - 1], i>>] = f[i - 1] + LengthOf[items[i - 1]] + 1
      <3>1. i - 1 \in 1..n
        BY <1>1, <2>1
      <3> QED BY <2>1, <3>1
    <2> HIDE DEF next
    <2> QED BY <1>3, <2>1 DEF RunsOn
  <1>5. f = [i \in DOMAIN items |->
               IF i = 1 THEN 0 ELSE f[i - 1] + LengthOf[items[i - 1]] + 1]
    BY <1>1, <1>4
  <1>6. start = [i \in DOMAIN items |->
                   IF i = 1 THEN 0 ELSE start[i - 1] + LengthOf[items[i - 1]] + 1]
    BY <1>5
  <1>7. RangesOf(items) = [i \in DOMAIN items |-> <<start[i], start[i] + LengthOf[items[i]]>>]
    BY DEF RangesOf
  <1> HIDE DEF start
  <1>8. \A i \in 1..n :
          start[i] = IF i = 1 THEN 0 ELSE start[i - 1] + LengthOf[items[i - 1]] + 1
    BY <1>1, <1>6
  <1>9. \A i \in 1..n : start[i] \in Nat
    <2> DEFINE S == {m \in 0..n : \A i \in 1..m : start[i] \in Nat}
    <2>1. 0 \in S
      BY <1>1
    <2>2. ASSUME NEW m \in 0..(n - 1), m \in S
          PROVE  m + 1 \in S
      <3>1. start[m + 1] \in Nat
        <4>1. m + 1 \in 1..n /\ (m + 1 # 1 => m \in 1..m /\ m \in 1..n /\ (m + 1) - 1 = m)
          BY <1>1, <2>2
        <4>2. m + 1 # 1 => start[m] \in Nat /\ LengthOf[items[m]] \in Nat
          BY <2>2, <4>1, ItemsTyped
        <4> QED BY <1>8, <4>1, <4>2
      <3>2. \A i \in 1..(m + 1) : i \in 1..m \/ i = m + 1
        BY <1>1
      <3> QED BY <1>1, <2>2, <3>1, <3>2
    <2> HIDE DEF S
    <2>3. n \in S
      BY <1>1, <2>1, <2>2, UpToAll
    <2> QED BY <2>3 DEF S
  <1>10. DOMAIN start = 1..n /\ start = [i \in 1..n |-> start[i]]
    BY <1>1, <1>6
  <1>11. start \in [1..n -> Nat]
    BY <1>9, <1>10
  <1> QED BY <1>1, <1>7, <1>8, <1>11 DEF StartsOf

LEMMA PartsTyped ==
  ASSUME NEW items \in Seq(Texts)
  PROVE  /\ PartsOf(items) \in Seq(Seq(Chars)) /\ Len(PartsOf(items)) = Len(items)
         /\ \A i \in 1..Len(items) :
              /\ PartsOf(items)[i]
                   = IF i = 1 THEN CharsOf(items[i]) ELSE <<"\n">> \o CharsOf(items[i])
              /\ PartsOf(items)[i] \in Seq(Chars)
  <1>1. Len(items) \in Nat /\ DOMAIN items = 1..Len(items)
    BY ItemsTyped
  <1>2. \A i \in 1..Len(items) :
          (IF i = 1 THEN CharsOf(items[i]) ELSE <<"\n">> \o CharsOf(items[i])) \in Seq(Chars)
    BY ItemsTyped, CharsTyped
  <1>3. PartsOf(items) \in [1..Len(items) -> Seq(Chars)]
    BY <1>1, <1>2 DEF PartsOf
  <1>4. PartsOf(items) \in Seq(Seq(Chars)) /\ Len(PartsOf(items)) = Len(items)
    BY <1>1, <1>3
  <1> QED BY <1>1, <1>2, <1>4 DEF PartsOf

LEMMA FlatExists ==
  ASSUME NEW parts \in Seq(Seq(Chars)), Len(parts) # 0
  PROVE  \E flat : FlatUpTo(parts, flat) /\ FlattenSeq(parts) = flat[Len(parts)]
  <1> DEFINE n == Len(parts)
             next == [p \in Seq(Chars) \X (1..n) |-> p[1] \o parts[p[2]]]
             flat == CHOOSE f : f = [i \in 1..Len(parts) |->
                        IF i = 1 THEN parts[i] ELSE f[i - 1] \o parts[i]]
  <1>1. n \in Nat /\ \A i \in 1..n : parts[i] \in Seq(Chars)
    OBVIOUS
  <1>2. next \in [Seq(Chars) \X (1..n) -> Seq(Chars)]
    <2>1. ASSUME NEW a \in Seq(Chars), NEW i \in 1..n
          PROVE  a \o parts[i] \in Seq(Chars)
      BY <1>1
    <2> HIDE DEF n
    <2> QED BY <2>1
  <1>3. PICK f \in [1..n -> Seq(Chars)] : RunsOn(n, parts[1], next, f)
    <2>1. parts[1] \in Seq(Chars)
      BY <1>1
    <2> HIDE DEF next
    <2> QED BY <1>1, <1>2, <2>1, RunExists
  <1>4. \A i \in 1..n : f[i] = IF i = 1 THEN parts[i] ELSE f[i - 1] \o parts[i]
    <2>1. ASSUME NEW i \in 1..n, i # 1
          PROVE  next[<<f[i - 1], i>>] = f[i - 1] \o parts[i]
      <3>1. i - 1 \in 1..n
        BY <1>1, <2>1
      <3> QED BY <2>1, <3>1
    <2> HIDE DEF next
    <2> QED BY <1>3, <2>1 DEF RunsOn
  <1>5. f = [i \in 1..Len(parts) |-> IF i = 1 THEN parts[i] ELSE f[i - 1] \o parts[i]]
    BY <1>1, <1>4
  <1>6. flat = [i \in 1..Len(parts) |-> IF i = 1 THEN parts[i] ELSE flat[i - 1] \o parts[i]]
    BY <1>5
  <1>7. FlattenSeq(parts) = flat[Len(parts)]
    BY DEF FlattenSeq
  <1> HIDE DEF flat
  <1> QED BY <1>6, <1>7 DEF FlatUpTo

\* What is assembled of the first i texts quotes each of them at its place.
QuotedUpTo(items, start, assembled, i) ==
  /\ assembled \in Seq(Chars) /\ Len(assembled) = start[i] + LengthOf[items[i]]
  /\ \A j \in 1..i :
       /\ start[j] + LengthOf[items[j]] <= Len(assembled)
       /\ \A k \in 1..LengthOf[items[j]] : assembled[start[j] + k] = CharsOf(items[j])[k]

LEMMA ConcatReads ==
  ASSUME NEW a \in Seq(Chars), NEW b \in Seq(Chars)
  PROVE  /\ a \o b \in Seq(Chars) /\ Len(a \o b) = Len(a) + Len(b)
         /\ \A p \in 1..Len(a) : (a \o b)[p] = a[p]
         /\ \A p \in 1..Len(b) : (a \o b)[Len(a) + p] = b[p]
  OBVIOUS

LEMMA OneMoreQuoted ==
  ASSUME NEW items \in Seq(Texts), NEW start \in [1..Len(items) -> Nat], StartsOf(items, start),
         NEW i \in 1..Len(items), i + 1 \in 1..Len(items),
         NEW a, QuotedUpTo(items, start, a, i)
  PROVE  QuotedUpTo(items, start, a \o PartsOf(items)[i + 1], i + 1)
  <1>1. PICK b : b = PartsOf(items)[i + 1]
    OBVIOUS
  <1>2. PICK n \in Nat : n = Len(a)
    BY DEF QuotedUpTo
  <1>3. /\ b = <<"\n">> \o CharsOf(items[i + 1]) /\ b \in Seq(Chars)
        /\ Len(b) = LengthOf[items[i + 1]] + 1
        /\ \A k \in 1..LengthOf[items[i + 1]] : b[k + 1] = CharsOf(items[i + 1])[k]
    <2>1. PICK m \in 1..Len(items) : m = i + 1 /\ m # 1
      OBVIOUS
    <2>2. items[m] \in Texts
      BY ItemsTyped
    <2>3. PartsOf(items)[m] = <<"\n">> \o CharsOf(items[m])
      BY <2>1, PartsTyped
    <2> QED BY <1>1, <2>1, <2>2, <2>3, CharsTyped
  <1>4. PICK m \in Nat : m = LengthOf[items[i + 1]]
    BY ItemsTyped
  <1>5. start[i + 1] = n + 1
    <2>1. start[i + 1] = start[i] + LengthOf[items[i]] + 1
      <3>1. i + 1 # 1 /\ (i + 1) - 1 = i
        OBVIOUS
      <3> QED BY <3>1 DEF StartsOf
    <2>2. start[i] \in Nat /\ LengthOf[items[i]] \in Nat
      BY ItemsTyped
    <2> QED BY <1>2, <2>1, <2>2 DEF QuotedUpTo
  <1>6. a \in Seq(Chars)
    BY DEF QuotedUpTo
  <1>7. PICK c : c = a \o b
    OBVIOUS
  <1>8. /\ c \in Seq(Chars) /\ Len(c) = n + (m + 1)
        /\ \A p \in 1..n : c[p] = a[p]
        /\ \A p \in 1..(m + 1) : c[n + p] = b[p]
    <2>1. /\ c \in Seq(Chars) /\ Len(c) = Len(a) + Len(b)
          /\ \A p \in 1..Len(a) : c[p] = a[p]
          /\ \A p \in 1..Len(b) : c[Len(a) + p] = b[p]
      BY <1>3, <1>6, <1>7, ConcatReads
    <2> QED BY <1>2, <1>3, <1>4, <2>1
  <1>9. Len(c) = start[i + 1] + m
    BY <1>5, <1>8
  <1>10. ASSUME NEW j \in 1..i
         PROVE  /\ start[j] + LengthOf[items[j]] <= Len(c)
                /\ \A k \in 1..LengthOf[items[j]] : c[start[j] + k] = CharsOf(items[j])[k]
    <2>1. PICK u \in Nat, l \in Nat : u = start[j] /\ l = LengthOf[items[j]]
      <3>1. j \in 1..Len(items)
        OBVIOUS
      <3> QED BY <3>1, ItemsTyped
    <2>2. u + l <= n /\ \A k \in 1..l : a[u + k] = CharsOf(items[j])[k]
      BY <1>2, <2>1 DEF QuotedUpTo
    <2>3. \A k \in 1..l : u + k \in 1..n
      BY <2>2
    <2>4. \A k \in 1..l : c[u + k] = CharsOf(items[j])[k]
      BY <1>8, <2>2, <2>3
    <2>5. Len(c) = n + (m + 1)
      BY <1>8
    <2>6. u + l <= Len(c)
      BY <2>2, <2>5
    <2> QED BY <2>1, <2>4, <2>6
  <1>11. \A k \in 1..m : c[start[i + 1] + k] = CharsOf(items[i + 1])[k]
    <2>1. ASSUME NEW k \in 1..m
          PROVE  c[(n + 1) + k] = CharsOf(items[i + 1])[k]
      <3>1. k + 1 \in 1..(m + 1) /\ n + (k + 1) = (n + 1) + k
        OBVIOUS
      <3>2. c[n + (k + 1)] = b[k + 1]
        BY <1>8, <3>1
      <3> QED BY <1>3, <1>4, <3>1, <3>2
    <2> QED BY <1>5, <2>1
  <1>12. \A j \in 1..(i + 1) : j \in 1..i \/ j = i + 1
    OBVIOUS
  <1>13. QuotedUpTo(items, start, c, i + 1)
    <2>1. ASSUME NEW j \in 1..(i + 1)
          PROVE  /\ start[j] + LengthOf[items[j]] <= Len(c)
                 /\ \A k \in 1..LengthOf[items[j]] : c[start[j] + k] = CharsOf(items[j])[k]
      <3>1. CASE j \in 1..i
        BY <1>10, <3>1
      <3>2. CASE j = i + 1
        BY <1>4, <1>9, <1>11, <3>2, <1>8, <1>5
      <3> QED BY <1>12, <3>1, <3>2
    <2> QED BY <1>4, <1>8, <1>9, <2>1 DEF QuotedUpTo
  <1> QED BY <1>1, <1>7, <1>13

LEMMA AllQuoted ==
  ASSUME NEW items \in Seq(Texts), NEW start \in [1..Len(items) -> Nat], StartsOf(items, start),
         NEW flat, FlatUpTo(PartsOf(items), flat), Len(items) # 0
  PROVE  QuotedUpTo(items, start, flat[Len(items)], Len(items))
  <1> DEFINE n == Len(items)
             S == {m \in 0..n : m = 0 \/ QuotedUpTo(items, start, flat[m], m)}
  <1>1. n \in Nat
    OBVIOUS
  <1>2. 0 \in S
    BY <1>1
  <1>3. ASSUME NEW m \in 0..(n - 1), m \in S
        PROVE  m + 1 \in S
    <2>1. m + 1 \in 1..n /\ m + 1 \in 0..n
      BY <1>1
    <2>2. CASE m = 0
      <3>1. flat[1] = CharsOf(items[1])
        BY <2>1, <2>2, PartsTyped DEF FlatUpTo
      <3>2. /\ start[1] = 0 /\ items[1] \in Texts /\ LengthOf[items[1]] \in Nat
            /\ flat[1] \in Seq(Chars) /\ Len(flat[1]) = LengthOf[items[1]]
        BY <2>1, <2>2, <3>1, ItemsTyped, CharsTyped DEF StartsOf
      <3>3. \A j \in 1..1 : j = 1
        OBVIOUS
      <3>4. \A k \in 1..LengthOf[items[1]] : 0 + k = k
        BY <3>2
      <3>5. QuotedUpTo(items, start, flat[1], 1)
        BY <3>1, <3>2, <3>3, <3>4 DEF QuotedUpTo
      <3> QED BY <2>1, <2>2, <3>5
    <2>3. CASE m # 0
      <3>1. m \in 1..n /\ m + 1 # 1 /\ (m + 1) - 1 = m
        BY <1>1, <2>3
      <3>2. QuotedUpTo(items, start, flat[m], m)
        BY <1>3, <2>3
      <3>3. flat[m + 1] = flat[m] \o PartsOf(items)[m + 1]
        BY <2>1, <3>1, PartsTyped DEF FlatUpTo
      <3>4. QuotedUpTo(items, start, flat[m] \o PartsOf(items)[m + 1], m + 1)
        BY <2>1, <3>1, <3>2, OneMoreQuoted
      <3> QED BY <2>1, <3>3, <3>4
    <2> QED BY <2>2, <2>3
  <1> HIDE DEF S
  <1>4. n \in S
    BY <1>1, <1>2, <1>3, UpToAll
  <1> QED BY <1>4 DEF S

LEMMA ItemsAreQuoted ==
  ASSUME NEW items \in Seq(Texts), NEW i \in DOMAIN items
  PROVE  SubSeq(Assembled(items), RangesOf(items)[i][1] + 1, RangesOf(items)[i][2])
           = CharsOf(items[i])
  <1>1. Len(items) \in Nat /\ i \in 1..Len(items) /\ Len(items) # 0
    BY ItemsTyped
  <1>2. PICK start \in [1..Len(items) -> Nat] :
          /\ StartsOf(items, start)
          /\ RangesOf(items)
               = [j \in 1..Len(items) |-> <<start[j], start[j] + LengthOf[items[j]]>>]
    BY StartsExist
  <1>3. PICK flat : /\ FlatUpTo(PartsOf(items), flat)
                    /\ FlattenSeq(PartsOf(items)) = flat[Len(PartsOf(items))]
    BY <1>1, PartsTyped, FlatExists
  <1>4. QuotedUpTo(items, start, flat[Len(items)], Len(items))
    BY <1>1, <1>2, <1>3, AllQuoted
  <1>5. PICK whole : whole = flat[Len(items)]
    OBVIOUS
  <1>6. Assembled(items) = whole
    BY <1>3, <1>5, PartsTyped DEF Assembled, PartsOf
  <1>7. PICK u \in Nat, l \in Nat : u = start[i] /\ l = LengthOf[items[i]]
    BY <1>1, ItemsTyped
  <1>8. /\ whole \in Seq(Chars) /\ u + l <= Len(whole)
        /\ \A k \in 1..l : whole[u + k] = CharsOf(items[i])[k]
    BY <1>1, <1>4, <1>5, <1>7 DEF QuotedUpTo
  <1>9. RangesOf(items)[i][1] = u /\ RangesOf(items)[i][2] = u + l
    BY <1>1, <1>2, <1>7
  <1>10. CharsOf(items[i]) = [k \in 1..l |-> CharsOf(items[i])[k]]
    BY <1>7 DEF CharsOf
  <1>11. SubSeq(whole, u + 1, u + l) = [k \in 1..l |-> whole[u + k]]
    <2>1. u + 1 \in 1..(Len(whole) + 1) /\ u + l \in 0..Len(whole)
      BY <1>8
    <2>2. SubSeq(whole, u + 1, u + l)
            = [k \in 1..((u + l) - (u + 1) + 1) |-> whole[(u + 1) + k - 1]]
      BY <1>8, <2>1
    <2>3. (u + l) - (u + 1) + 1 = l
      OBVIOUS
    <2>4. \A k \in 1..l : (u + 1) + k - 1 = u + k
      OBVIOUS
    <2> QED BY <2>2, <2>3, <2>4
  <1>12. SubSeq(whole, u + 1, u + l) = CharsOf(items[i])
    BY <1>8, <1>10, <1>11
  <1> QED BY <1>6, <1>9, <1>12

(* Two snapshots read between the same two rewrites agree, one that is not *)
(* torn describes its own spans, and in the text push_assembledasset assembles *)
(* of any number of segments, of whatever lengths, every character range   *)
(* quotes its segment.                                                     *)
THEOREM ExportsQuoteTruly == CorpusSpec => []ExportsReproduce
  <1>1. ASSUME WatchInv
        PROVE  RangesQuote
    <2>1. ASSUME NEW x \in Exports, exporting[x] # None, NEW stream
          PROVE  ItemsOf(x, stream) \in Seq(Texts)
      <3>1. exporting[x].spans \in SomeTexts
        BY <1>1, <2>1 DEF WatchInv, ExportsSound, Snapshots
      <3> QED BY <3>1, ItemsAreTexts
    <2>2. ASSUME NEW x \in Exports, exporting[x] # None, NEW stream,
                 NEW i \in DOMAIN ItemsOf(x, stream)
          PROVE  SubSeq(Assembled(ItemsOf(x, stream)), RangesOf(ItemsOf(x, stream))[i][1] + 1,
                        RangesOf(ItemsOf(x, stream))[i][2])
                   = CharsOf(ItemsOf(x, stream)[i])
      <3>1. PICK items \in Seq(Texts) : items = ItemsOf(x, stream)
        BY <2>1, <2>2
      <3> QED BY <2>2, <3>1, ItemsAreQuoted
    <2> QED BY <2>2 DEF RangesQuote
  <1> QED BY <1>1, ReadersInvariant, SnapshotsReproduce, PTL DEF ExportsReproduce
=============================================================================
