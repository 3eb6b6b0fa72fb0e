--------------------------- MODULE MCMediaLifecycle ---------------------------
(***************************************************************************)
(* Instances of MediaLifecycle: which runs there are and what they run.    *)
(***************************************************************************)
EXTENDS MediaLifecycle, TLC

CONSTANTS r1, r2, r3, a1, a2, v1

TwoPlansAnd(kind) == [r \in {r1, r2, r3} |-> IF r = r3 THEN kind ELSE "plan"]
OneThenAll(first, all) == [r \in {r1, r2, r3} |-> IF r = r1 THEN first ELSE all]

AllStages    == {"asr", "scenes", "faces"}
VoicesOcr    == {"voices", "ocr"}
AudioVideo   == {"asr", "scenes"}

\* One after the other: the transcript alone, then every stage again, then an
\* ingest; any of them crashes.
Serial ==
  { [kind |-> TwoPlansAnd("ingest"), enabled |-> AllStages,
     selected |-> OneThenAll({"asr"}, AllStages), refresh |-> {r2}, keep |-> {},
     start |-> s, overlapping |-> FALSE, maxCrashes |-> 1] : s \in {"absent", "audio", "video"} }

\* At the same time: two plans and an extract download and analyze.
Overlap ==
  { [kind |-> TwoPlansAnd("extract"), enabled |-> VoicesOcr,
     selected |-> OneThenAll(VoicesOcr, VoicesOcr), refresh |-> {}, keep |-> {},
     start |-> s, overlapping |-> TRUE, maxCrashes |-> 0] : s \in {"absent", "audio"} }

\* At the same time: two plans share the media, one analyzes again; one crashes.
Shared ==
  { [kind |-> TwoPlansAnd("extract"), enabled |-> AudioVideo,
     selected |-> OneThenAll(AudioVideo, AudioVideo), refresh |-> {r2}, keep |-> {},
     start |-> "video", overlapping |-> TRUE, maxCrashes |-> 1] }

\* At the same time: a workflow processes the video, a plan runs and an extract is cut.
Processed ==
  { [kind |-> [TwoPlansAnd("extract") EXCEPT ![r1] = "process"], enabled |-> {"scenes"},
     selected |-> OneThenAll({"scenes"}, {"scenes"}), refresh |-> {}, keep |-> {},
     start |-> s, overlapping |-> TRUE, maxCrashes |-> 0] : s \in {"absent", "audio"} }

\* At the same time, without an extract of its own: two plans, one of them analyzing
\* again, and an ingest, one crashes; a workflow, a plan and an ingest.
Unextracted ==
  { [kind |-> TwoPlansAnd("ingest"), enabled |-> AudioVideo,
     selected |-> OneThenAll({"scenes"}, AudioVideo), refresh |-> {r2}, keep |-> {},
     start |-> "video", overlapping |-> TRUE, maxCrashes |-> 1],
    [kind |-> [TwoPlansAnd("ingest") EXCEPT ![r1] = "process"], enabled |-> {"scenes"},
     selected |-> OneThenAll({"scenes"}, {"scenes"}), refresh |-> {}, keep |-> {},
     start |-> "audio", overlapping |-> TRUE, maxCrashes |-> 0] }

\* At the same time: two plans acquire audio for the transcript, in files of two names.
Transcribed ==
  { [kind |-> TwoPlansAnd("ingest"), enabled |-> {"asr"},
     selected |-> OneThenAll({"asr"}, {"asr"}), refresh |-> {}, keep |-> {},
     start |-> "absent", overlapping |-> TRUE, maxCrashes |-> 0] }

MediaSymmetry == Permutations(AudioPaths)

AllSettings == Transcribed \cup Serial \cup Overlap \cup Shared \cup Processed \cup Unextracted

SceneVideo == Video(ScenesHeight)
=============================================================================
