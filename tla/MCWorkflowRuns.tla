---------------------------- MODULE MCWorkflowRuns ----------------------------
(***************************************************************************)
(* Instances of WorkflowRuns: what users save and set.                     *)
(***************************************************************************)
EXTENDS WorkflowRuns

CONSTANTS asr, ocr, h1, h2

TwoDefinitions == {{asr}, {ocr}}
PlanEdits == {{asr}}
AllOrNone == {{}, {asr}}
AsrOnly == [w \in Workflows |-> {asr}]
=============================================================================
