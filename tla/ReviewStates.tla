---------------------------- MODULE ReviewStates ----------------------------
(***************************************************************************)
(* The states of a persisted review, which of them are final, and the      *)
(* adjacency map every transition is checked against                       *)
(* (reviewer/orchestrator/states.py), with the status code a finished      *)
(* review is given (reviewer/decision/engine.py).                          *)
(***************************************************************************)
EXTENDS Naturals, Sequences

TERMINAL == {"PUBLISHED", "TERMINATED_EARLY", "FAILED_CONTEXT",
             "FAILED_INTERNAL", "CANCELLED", "SUPERSEDED"}

\* The states of the removed deep mode.  No run enters them any more.
LegacyStates == {"PURPOSE_REVIEW", "DESIGN_REVIEW", "ANALYSIS_FAN_OUT",
                 "SYSTEM_CONTEXT_REVIEW"}

ORDER == << "INIT", "CONTEXT_COLLECTION", "STATIC_ANALYSIS", "DEFECT_REVIEW",
            "DOCUMENT_REVIEW", "PURPOSE_REVIEW", "DESIGN_REVIEW",
            "ANALYSIS_FAN_OUT", "SYSTEM_CONTEXT_REVIEW", "EVIDENCE_VALIDATION",
            "FINDING_VERIFICATION", "FINALIZATION", "DECISION" >>

Working == {ORDER[i] : i \in 1..Len(ORDER)}

ReviewState == Working \cup TERMINAL

UNSTOPPABLE == {"DECISION"}

\* Where a working state may lead besides a halt.
Forward(s) ==
    CASE s = "INIT"                 -> {"CONTEXT_COLLECTION", "FINALIZATION"}
      [] s = "CONTEXT_COLLECTION"   -> {"STATIC_ANALYSIS", "DOCUMENT_REVIEW",
                                        "FINALIZATION"}
      [] s = "STATIC_ANALYSIS"      -> {"DEFECT_REVIEW", "FINALIZATION"}
      [] s \in {"DEFECT_REVIEW", "DOCUMENT_REVIEW", "ANALYSIS_FAN_OUT",
                "SYSTEM_CONTEXT_REVIEW"} -> {"EVIDENCE_VALIDATION"}
      [] s \in {"PURPOSE_REVIEW", "DESIGN_REVIEW"}
                                    -> {"EVIDENCE_VALIDATION", "FINALIZATION"}
      [] s = "EVIDENCE_VALIDATION"  -> {"FINDING_VERIFICATION"}
      [] s = "FINDING_VERIFICATION" -> {"FINALIZATION"}
      [] s = "FINALIZATION"         -> {"DECISION"}
      [] s = "DECISION"             -> {"PUBLISHED"}
      [] OTHER                      -> {}

\* Every working state may also fail or be halted; a final state leads nowhere.
LEGAL(s) ==
    IF s \in Working
    THEN Forward(s) \cup {"FAILED_INTERNAL", "FAILED_CONTEXT", "CANCELLED",
                          "SUPERSEDED"}
    ELSE {}

Position(s) == CHOOSE i \in 1..Len(ORDER) : ORDER[i] = s

\* States whose commit status passes whatever the decision was.
Halted == {"FAILED_INTERNAL", "FAILED_CONTEXT", "CANCELLED", "SUPERSEDED"}

Decisions == {"COMMENT_ONLY", "REQUEST_CHANGES", "APPROVE"}

\* The commit status of a review, by its decision and the project's
\* enforcement mode.
StatusCode(decision, mode, failed) ==
    IF ~failed /\ mode = "gating" /\ decision = "REQUEST_CHANGES"
    THEN "failed" ELSE "success"
=============================================================================
