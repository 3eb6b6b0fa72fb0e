SPECIFICATION CorpusSpec
CONSTANTS
  p = p
  q = q
  r = r
  Spans <- SpanOrder
  Streams <- StreamNames
  StreamOf <- StreamsOfSpans
  LanguageOf <- LanguagesOfSpans
  Languages <- LanguageCodes
  Targets <- Wanted
  Texts = {a, b}
  Configs = {1, 2}
  Score <- Scores
  Settings <- RefreshSettings
  None = None
  At <- Times
  LengthOf <- Lengths
  TopK = 2
SYMMETRY Symmetry
INVARIANT
  GeneratedIsMarked
CHECK_DEADLOCK FALSE
