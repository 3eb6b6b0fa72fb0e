------------------------------ MODULE MediaNeed ------------------------------
(***************************************************************************)
(* What a set of processing stages asks of a video's source media          *)
(* (src/media_acquisition.rs): nothing, an audio stream, or one video no   *)
(* taller than a cap.  One acquisition serves a whole plan because the     *)
(* needs form a join semilattice: union is the least need that covers      *)
(* both, and coverage is a total order.                                    *)
(***************************************************************************)
EXTENDS Integers, FiniteSetsExt

CONSTANTS
  ScenesHeight,   \* SCENES_MAX_HEIGHT
  DetailHeight    \* FRAME_DETAIL_MAX_HEIGHT

ASSUME HeightAssumption == ScenesHeight \in Nat /\ DetailHeight \in Nat

Nothing == [kind |-> "nothing", maxHeight |-> 0]
Audio   == [kind |-> "audio", maxHeight |-> 0]
Video(h) == [kind |-> "video", maxHeight |-> h]

Need == {Nothing, Audio} \cup {Video(h) : h \in Nat}

\* for_detector.
ForDetector(d) ==
  CASE d \in {"asr", "voices"} -> Audio
    [] d = "scenes"            -> Video(ScenesHeight)
    [] d \in {"faces", "ocr"}  -> Video(DetailHeight)
    [] OTHER                   -> Nothing

MaxHeight(a, b) == IF a >= b THEN a ELSE b

\* union: the arms of the match in their order.
Union(m, n) ==
  CASE m.kind = "video" /\ n.kind = "video" -> Video(MaxHeight(m.maxHeight, n.maxHeight))
    [] m.kind = "video" /\ n.kind # "video" -> m
    [] m.kind # "video" /\ n.kind = "video" -> n
    [] m.kind # "video" /\ n.kind # "video" /\ "audio" \in {m.kind, n.kind} -> Audio
    [] OTHER -> Nothing

\* is_covered_by: media acquired for `acquired` also serves m.
IsCoveredBy(m, acquired) ==
  \/ m.kind = "nothing"
  \/ m.kind = "audio" /\ acquired.kind \in {"audio", "video"}
  \/ /\ m.kind = "video" /\ acquired.kind = "video"
     /\ m.maxHeight <= acquired.maxHeight

\* for_detectors: the union of what each detector needs.
ForDetectors(D) == FoldSet(LAMBDA d, need : Union(need, ForDetector(d)), Nothing, D)
=============================================================================
