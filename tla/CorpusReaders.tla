---------------------------- MODULE CorpusReaders ----------------------------
(***************************************************************************)
(* Those who read a video's derived texts while they are rewritten         *)
(* (DerivedTexts): a search and its provenance (src/search.rs,             *)
(* src/citations.rs), the literal index (src/search_index.rs), researchers' *)
(* judgments and their evaluation (src/annotations.rs, src/evaluation.rs), *)
(* and exports (src/corpus_export.rs, src/source_span_export.rs).          *)
(*                                                                         *)
(* None of them takes a lock or a transaction: each is a row of statements *)
(* on one pool, and what the first finds may be gone when the next looks.  *)
(* A passage is named by its id: <<s>> is the segment s, <<s, t, n>> the   *)
(* translation of s to t that run n stored, whose id every upsert renews.  *)
(***************************************************************************)
EXTENDS DerivedTexts

CONSTANTS
  At,        \* the start and the end of each span
  LengthOf,  \* the characters of a text
  TopK       \* the results an evaluation case looks at

ASSUME ReadersAssumption ==
  /\ \A s \in Ids : At[s][1] < At[s][2]
  /\ LengthOf \in [Texts -> Nat \ {0}]
  /\ TopK \in Nat
  /\ \A s \in Settings : s.syncs \in Nat

\* What is shown beside a hit: the span its text translates, and that span's text.
Evidence == [span : Ids, original : Texts \cup {None}]

ASSUME EvidenceAssumption == None \notin Evidence

VARIABLES
  searching,    \* a search and its hit
  index,        \* the documents of the Tantivy index, tombstones included
  indexed,      \* the rewrites its snapshot saw; None before the first sync
  syncing,      \* a synchronisation's snapshot
  syncs,
  targets,      \* retrieval_evaluation_targets of one case, by the judged span
  turns,        \* speaker_turn annotations made of a span: linked to it or not
  viewed,       \* the result a researcher looks at, and the rewrites before it
  evaluating,   \* an evaluation run
  exporting     \* a span citation and a corpus export

derived == <<setting, tables, jobs, counts>>
found == <<searching>>
lexical == <<index, indexed, syncing, syncs>>
judged == <<targets, turns, viewed>>
reports == <<evaluating, exporting>>
corpusVars == <<derived, found, lexical, judged, reports>>

Exports == {"citation", "batch"}

CorpusInit ==
  /\ Init
  /\ searching = None
  /\ index = <<>> /\ indexed = None /\ syncing = None /\ syncs = 0
  /\ targets = [s \in Ids |-> None]
  /\ turns = [s \in Ids |-> "none"]
  /\ viewed = None
  /\ evaluating = None
  /\ exporting = [x \in Exports |-> None]

-----------------------------------------------------------------------------
(* Writers.                                                                *)

\* A judgment that names no video keeps its segment: ON DELETE SET NULL would
\* leave it without a target, and the deletion fails with the whole rewrite.
Pinned(stream) ==
  \E s \in Ids : /\ StreamOf[s] = stream /\ targets[s] # None
                 /\ targets[s].linked /\ ~targets[s].video

\* Mutant: the rows are updated in place, so nothing that names them lets go.
KeepLinks(stream) ==
  /\ Rewrite(stream) /\ ~Pinned(stream)
  /\ UNCHANGED <<found, lexical, judged, reports>>

\* Rewrite deletes the segments: judgments and annotations of them let go.
RewriteAndUnlink(stream) ==
  /\ Rewrite(stream) /\ ~Pinned(stream)
  /\ targets' = [s \in Ids |-> IF targets[s] # None /\ StreamOf[s] = stream
                               THEN [targets[s] EXCEPT !.linked = FALSE]
                               ELSE targets[s]]
  /\ turns' = [s \in Ids |-> IF turns[s] = "linked" /\ StreamOf[s] = stream
                             THEN "loose" ELSE turns[s]]
  /\ UNCHANGED <<found, lexical, viewed, reports>>

\* A researcher looks at a segment among the results of a search.
View(s) ==
  /\ Allowed("judge") /\ text[s] # None
  /\ viewed' = [span |-> s, says |-> text[s], since |-> rewrites]
  /\ UNCHANGED <<derived, found, lexical, targets, turns, reports>>

\* record_judgment, of the id that was viewed, whatever its segment says by now; a
\* foreign key refuses one that is gone.  The target's id is made of the case and the
\* segment, so judging a span again changes no link.  `says` is what was viewed, and
\* `fresh` whether no rewrite came in between.
Judge ==
  /\ viewed # None
  /\ LET s == viewed.span IN
     /\ targets[s] = None /\ text[s] # None
     /\ \E video \in BOOLEAN :
          targets' = [targets EXCEPT
            ![s] = [linked |-> TRUE, video |-> video, says |-> viewed.says,
                    fresh |-> viewed.since = rewrites]]
  /\ viewed' = None
  /\ UNCHANGED <<derived, found, lexical, turns, reports>>

\* create_annotation.
Annotate(s) ==
  /\ Allowed("export") /\ turns[s] = "none" /\ text[s] # None
  /\ turns' = [turns EXCEPT ![s] = "linked"]
  /\ UNCHANGED <<derived, found, lexical, targets, viewed, reports>>

-----------------------------------------------------------------------------
(* Search.                                                                 *)

Current(s, t) == <<s, t, translated[<<s, t>>].by>>

\* corpus_search_segments: the segments, and the translations of their texts.
Passages ==
  {<<s>> : s \in Present}
    \cup {Current(p[1], p[2]) : p \in {q \in DOMAIN translated : Shown(q[1], q[2])}}

Generated(row) == Len(row) = 3
Says(row) == IF Generated(row) THEN translated[<<row[1], row[2]>>].of ELSE text[row[1]]

\* fts_search, semantic_search: any query; only vectors of the query's model.
FtsHits == Passages
SemanticHits == {row \in Passages : ~Generated(row) => vector[row[1]].model = "current"}
\* hybrid_search: either branch, joined with the view again.
HybridHits == FtsHits \cup SemanticHits
\* TantivySearch::search: the live documents.
LiteralHits == {row \in DOMAIN index : index[row].says # None}

Hit(row, says, since) ==
  [step |-> "translation", row |-> row, says |-> says, since |-> since,
   evidence |-> None, context |-> <<>>]

\* The ranked rows of one statement.  The hits are enriched apart from each
\* other, so one of them stands for all.
Search ==
  /\ Allowed("search") /\ searching = None
  /\ \E hits \in {FtsHits, SemanticHits, HybridHits} : \E row \in hits :
       searching' = Hit(row, Says(row), rewrites)
  /\ UNCHANGED <<derived, lexical, judged, reports>>

LiteralSearch ==
  /\ Allowed("literal") /\ searching = None /\ indexed # None
  /\ \E row \in LiteralHits : searching' = Hit(row, index[row].says, indexed)
  /\ UNCHANGED <<derived, lexical, judged, reports>>

\* Mutant: the translation is looked up among those search still shows.
ShownById(row) ==
  /\ Generated(row) /\ Shown(row[1], row[2])
  /\ Current(row[1], row[2]) = row

\* attach_translation_evidence: by the row's id.
FoundById(row) ==
  /\ Generated(row) /\ translated[<<row[1], row[2]>>] # None
  /\ Current(row[1], row[2]) = row

AttachTranslation ==
  /\ searching # None /\ searching.step = "translation"
  /\ LET row == searching.row IN
     searching' = [searching EXCEPT
       !.step = "citation",
       !.evidence = IF FoundById(row)
                    THEN [span |-> row[1], original |-> text[row[1]]] ELSE None]
  /\ UNCHANGED <<derived, lexical, judged, reports>>

\* load_context: the neighbours of the hit, or of the span it translates, in
\* their stream; the anchor is looked up by its id.
Anchor == IF searching.evidence # None THEN searching.evidence.span
          ELSE IF Generated(searching.row) THEN None ELSE searching.row[1]

AttachCitation ==
  /\ searching # None /\ searching.step = "citation"
  /\ searching' = [searching EXCEPT
       !.step = "done",
       !.context = IF Anchor \notin Present THEN <<>>
                   ELSE Restrict(text, {s \in Present : StreamOf[s] = StreamOf[Anchor]})]
  /\ UNCHANGED <<derived, lexical, judged, reports>>

-----------------------------------------------------------------------------
(* The literal index, a projection that each start of the server renews.   *)

\* TantivySearch::sync reads its snapshot before it takes the index.
LoadSnapshot ==
  /\ Allowed("index") /\ syncing = None /\ syncs < setting.syncs
  /\ syncs' = syncs + 1
  /\ syncing' = [says |-> [row \in Passages |-> Says(row)], at |-> rewrites]
  /\ UNCHANGED <<derived, found, index, indexed, judged, reports>>

Live(row) == row \in DOMAIN index /\ index[row].says # None
Latest(row) == IF row \in DOMAIN index THEN index[row].revision ELSE 0

\* Mutant: a passage that comes back starts again.
FirstRevision(row) == 1

NextRevision(row) == Latest(row) + 1

\* A document like its passage stays, another gets the next revision, and a
\* live document without a passage becomes a tombstone.  That rebuild keeps the
\* tombstone and its revision is assumed of the search_engine crate.
Rebuild ==
  /\ syncing # None
  /\ LET says == syncing.says IN
     index' = [row \in DOMAIN index \cup DOMAIN says |->
       IF row \in DOMAIN says
       THEN IF Live(row) /\ index[row].says = says[row] THEN index[row]
            ELSE [revision |-> NextRevision(row), says |-> says[row]]
       ELSE IF Live(row) THEN [revision |-> NextRevision(row), says |-> None]
       ELSE index[row]]
  /\ indexed' = syncing.at
  /\ syncing' = None
  /\ UNCHANGED <<derived, found, syncs, judged, reports>>

\* The server stops while it starts; the index on disk stays.
StopSync ==
  /\ syncing # None
  /\ syncing' = None
  /\ UNCHANGED <<derived, found, index, indexed, syncs, judged, reports>>

-----------------------------------------------------------------------------
(* Evaluation.                                                             *)

\* list_cases: at least one judgment.
ReadTargets ==
  /\ Allowed("judge") /\ evaluating = None
  /\ \E s \in Ids : targets[s] # None
  /\ evaluating' = [step |-> "preferred", targets |-> targets, preferred |-> None,
                    results |-> <<>>, since |-> rewrites]
  /\ UNCHANGED <<derived, found, lexical, judged, exporting>>

\* preferred_stream_ids.
ReadPreferred ==
  /\ evaluating # None /\ evaluating.step = "preferred"
  /\ evaluating' = [evaluating EXCEPT !.step = "search", !.preferred = preferred]
  /\ UNCHANGED <<derived, found, lexical, judged, exporting>>

\* The ranked results of the case, of preferred streams only.
RankSearch ==
  /\ evaluating # None /\ evaluating.step = "search"
  /\ LET own == {row \in Passages : StreamOf[row[1]] = evaluating.preferred} IN
     \E n \in 0..TopK : \E rows \in [1..n -> own] :
       /\ IsInjective(rows)
       /\ evaluating' = [evaluating EXCEPT
            !.step = "done",
            !.results = [i \in 1..n |-> [row |-> rows[i], says |-> Says(rows[i])]]]
  /\ UNCHANGED <<derived, found, lexical, judged, exporting>>

\* target_matches: the segment while the judgment is linked, else any passage
\* that touches its time.
Matches(s, result) ==
  /\ evaluating.targets[s].linked => result.row = <<s>>
  /\ At[result.row[1]][2] >= At[s][1]
  /\ At[result.row[1]][1] <= At[s][2]

\* score_case.
Judged == {s \in Ids : evaluating.targets[s] # None}
Counted == {s \in Judged : \E i \in DOMAIN evaluating.results :
                             Matches(s, evaluating.results[i])}

-----------------------------------------------------------------------------
(* Exports.  A span citation is cut from the batch an export would write.  *)

\* load_export_snapshot, one statement each.
LoadSegments(x) ==
  /\ Allowed("export") /\ exporting[x] = None /\ Present # {}
  /\ exporting' = [exporting EXCEPT
       ![x] = [step |-> "streams", spans |-> Restrict(text, Present), full |-> <<>>,
               turns |-> {}, since |-> rewrites, torn |-> FALSE]]
  /\ UNCHANGED <<derived, found, lexical, judged, evaluating>>

StreamsOf(spans) == {StreamOf[s] : s \in DOMAIN spans}
SpansOf(spans, stream) == Restrict(spans, {s \in DOMAIN spans : StreamOf[s] = stream})

\* The full text of a stream is what its last rewrite made of its segments.
LoadStreams(x) ==
  /\ exporting[x] # None /\ exporting[x].step = "streams"
  /\ exporting' = [exporting EXCEPT
       ![x].step = "turns",
       ![x].full = [stream \in StreamsOf(exporting[x].spans) |->
                      SpansOf(Restrict(text, Present), stream)],
       ![x].torn = rewrites # exporting[x].since]
  /\ UNCHANGED <<derived, found, lexical, judged, evaluating>>

LoadTurns(x) ==
  /\ exporting[x] # None /\ exporting[x].step = "turns"
  /\ exporting' = [exporting EXCEPT
       ![x].step = "done",
       ![x].turns = {s \in Ids : turns[s] = "linked"},
       ![x].torn = rewrites # exporting[x].since]
  /\ UNCHANGED <<derived, found, lexical, judged, evaluating>>

\* A span record: transcript_span, segment_revision_material.
Span(spans, s) == [id |-> s, sequence |-> Position(s), says |-> spans[s], at |-> At[s]]

\* transcript_source: what the revision of a source is computed from.
SourceRevision(x, stream) ==
  [content |-> exporting[x].full[stream],
   spans |-> {Span(exporting[x].spans, s) : s \in DOMAIN SpansOf(exporting[x].spans, stream)}]

\* Mutant: the cited text is that of the stream's row.
SpanHashOfFullText(x, stream, start, end) ==
  LET spans == exporting[x].full[stream]
  IN {[sequence |-> Position(s), says |-> spans[s], at |-> At[s]] :
        s \in {o \in DOMAIN spans : At[o][1] < end /\ At[o][2] > start}}

\* media_spans, span_sha256: the segments of a stream that overlap [start, end).
SpanHash(x, stream, start, end) ==
  LET spans == SpansOf(exporting[x].spans, stream)
  IN {[sequence |-> Position(s), says |-> spans[s], at |-> At[s]] :
        s \in {o \in DOMAIN spans : At[o][1] < end /\ At[o][2] > start}}

\* push_text_asset: the texts of a stream in order, joined by one character,
\* and the character range of each.
ItemsOf(x, stream) ==
  LET spans == SpansOf(exporting[x].spans, stream)
      UpTo(s) == {o \in DOMAIN spans : Position(o) <= Position(s)}
      Nth(i) == CHOOSE s \in DOMAIN spans : Cardinality(UpTo(s)) = i
  IN [i \in 1..Cardinality(DOMAIN spans) |-> spans[Nth(i)]]

CharsOf(t) == [n \in 1..LengthOf[t] |-> <<t, n>>]
Assembled(items) ==
  FlattenSeq([i \in DOMAIN items |->
                IF i = 1 THEN CharsOf(items[i]) ELSE <<"\n">> \o CharsOf(items[i])])

RangesOf(items) ==
  LET start[i \in DOMAIN items] ==
        IF i = 1 THEN 0 ELSE start[i - 1] + LengthOf[items[i - 1]] + 1
  IN [i \in DOMAIN items |-> <<start[i], start[i] + LengthOf[items[i]]>>]

-----------------------------------------------------------------------------

CorpusNext ==
  \/ JobNext /\ UNCHANGED <<found, lexical, judged, reports>>
  \/ \E stream \in Range(Streams) : RewriteAndUnlink(stream)
  \/ Judge \/ \E s \in Ids : View(s) \/ Annotate(s)
  \/ Search \/ LiteralSearch \/ AttachTranslation \/ AttachCitation
  \/ LoadSnapshot \/ Rebuild \/ StopSync
  \/ ReadTargets \/ ReadPreferred \/ RankSearch
  \/ \E x \in Exports : LoadSegments(x) \/ LoadStreams(x) \/ LoadTurns(x)

CorpusSpec == CorpusInit /\ [][CorpusNext]_corpusVars

-----------------------------------------------------------------------------
(* Properties.                                                             *)

Answered == searching # None /\ searching.step = "done"

(* A hit that carries no translation is original text, unless the row it   *)
(* was found in has been stored anew or removed since; one that carries a  *)
(* translation shows beside it the text it translates, and its context     *)
(* holds that span, unless the transcript has been rewritten since.        *)
HitsKeepTheirOrigin ==
  Answered =>
    LET row == searching.row  evidence == searching.evidence
        span == row[1]
        rewritten == rewrites # searching.since
    IN /\ Generated(row) /\ evidence = None =>
            \/ translated[<<span, row[2]>>] = None
            \/ Current(span, row[2]) # row
       /\ evidence # None =>
            /\ Generated(row) /\ evidence.span = span
            /\ evidence.original = searching.says \/ rewritten
       /\ Generated(row) /\ evidence = None => searching.context = <<>>
       /\ ~rewritten /\ (Generated(row) => evidence # None) =>
            /\ span \in DOMAIN searching.context
            /\ searching.context[span] = searching.says

(* SearchResult.translation is "present when this hit is generated         *)
(* translated text rather than original evidence" (src/search.rs:145).     *)
GeneratedIsMarked ==
  Answered /\ Generated(searching.row) => searching.evidence # None

(* A revision names one content of a document for ever: passages that go,  *)
(* come back or are edited between two starts never reuse one, and the     *)
(* live documents are the passages of the last snapshot.                   *)
RevisionsIdentify ==
  [][/\ \A row \in DOMAIN index :
          /\ row \in DOMAIN index'
          /\ index'[row].revision >= index[row].revision
          /\ index'[row] # index[row] => index'[row].revision > index[row].revision
     /\ indexed' # indexed =>
          {row \in DOMAIN index' : index'[row].says # None} = DOMAIN syncing.says]_corpusVars

(* While a judgment names its segment it counts only that segment, and     *)
(* what it says is what was judged, unless the transcript was rewritten    *)
(* after the evaluation began, or before the judgment was recorded of what *)
(* the researcher had viewed: record_judgment does not look at the text.   *)
JudgmentsHold ==
  evaluating # None /\ evaluating.step = "done" =>
    \A s \in Counted :
      evaluating.targets[s].linked =>
        \E i \in DOMAIN evaluating.results :
          /\ evaluating.results[i].row = <<s>>
          /\ \/ evaluating.results[i].says = evaluating.targets[s].says
             \/ ~ evaluating.targets[s].fresh
             \/ rewrites # evaluating.since

\* A citation and an export whose segments were read between the same two rewrites agree on
\* the hash of every interval, although the rest of either snapshot was read across a
\* rewrite; a snapshot that was not describes its own spans and links its turns to them.
SnapshotsAgree ==
  /\ (\A x \in Exports : exporting[x] # None /\ exporting[x].step = "done")
     /\ exporting["citation"].since = exporting["batch"].since =>
       \A stream \in StreamsOf(exporting["batch"].spans), s, e \in Ids :
         SpanHash("citation", stream, At[s][1], At[e][2])
           = SpanHash("batch", stream, At[s][1], At[e][2])
  /\ \A x \in Exports :
       exporting[x] # None /\ exporting[x].step = "done" /\ ~ exporting[x].torn =>
         /\ exporting[x].turns \subseteq DOMAIN exporting[x].spans
         /\ \A stream \in StreamsOf(exporting[x].spans) :
              SourceRevision(x, stream).content = SpansOf(exporting[x].spans, stream)

\* Every character range of a representation quotes its segment.
RangesQuote ==
  \A x \in Exports :
    exporting[x] # None /\ exporting[x].step = "done" =>
      \A stream \in StreamsOf(exporting[x].spans) :
        LET items == ItemsOf(x, stream) IN
        \A i \in DOMAIN items :
          SubSeq(Assembled(items), RangesOf(items)[i][1] + 1, RangesOf(items)[i][2])
            = CharsOf(items[i])

(* An export describes the transcript of one moment: two whose segments    *)
(* were read between the same two rewrites agree, and what is quoted by    *)
(* its place in an assembled text is that segment.                         *)
ExportsReproduce == SnapshotsAgree /\ RangesQuote
=============================================================================
