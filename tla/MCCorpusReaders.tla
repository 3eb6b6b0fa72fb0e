--------------------------- MODULE MCCorpusReaders ---------------------------
(* A finite instance of CorpusReaders, and of DerivedTexts in it.          *)
EXTENDS CorpusReaders

CONSTANTS p, q, r

Symmetry == Permutations(Texts)

\* A captioned stream of two languages and a recognised one of a third.
SpanOrder == <<p, q, r>>
StreamNames == <<"manual", "asr">>
StreamsOfSpans == (p :> "manual") @@ (q :> "manual") @@ (r :> "asr")
LanguagesOfSpans == (p :> "de") @@ (q :> "fr") @@ (r :> "unknown")
LanguageCodes == <<"de", "en", "fr">>
Wanted == <<"en", "fr", "xx">>
Scores == [manual |-> [text |-> 60, blank |-> 45], asr |-> [text |-> 50, blank |-> 25]]
Times == (p :> <<0, 2>>) @@ (q :> <<2, 4>>) @@ (r :> <<1, 3>>)
Lengths == [t \in Texts |-> 2]

Bounded(kinds_, rewrites_, translations_, extractions_, syncs_) ==
  [kinds |-> kinds_, rewrites |-> rewrites_, translations |-> translations_,
   extractions |-> extractions_, syncs |-> syncs_]

\* The jobs that write the same rows run together, and those who read them.
JobSettings ==
  { Bounded({"reembed", "reembed_video"}, 2, 0, 0, 0),
    Bounded({"translate"}, 1, 2, 0, 0),
    Bounded({"translate"}, 2, 1, 0, 0),
    Bounded({"translate", "prefer"}, 1, 1, 0, 0),
    Bounded({"extract", "prefer"}, 2, 0, 3, 0) }
ReaderSettings ==
  { Bounded({"translate", "search"}, 0, 2, 0, 0),
    Bounded({"translate", "search"}, 1, 1, 0, 0),
    Bounded({"translate", "index", "literal"}, 0, 2, 0, 1),
    Bounded({"index", "literal"}, 2, 0, 0, 2),
    Bounded({"judge", "prefer"}, 1, 0, 0, 0),
    Bounded({"export"}, 1, 0, 0, 0) }
AllSettings == JobSettings \cup ReaderSettings
RefreshSettings == {Bounded({"translate", "search"}, 0, 2, 0, 0)}
=============================================================================
