------------------------------ MODULE Verdicts ------------------------------
(***************************************************************************)
(* What a finished report lets a caller do:                                *)
(* src/src/guardrails_cli/risk_brief.py (the recommendation gate), the     *)
(* exit codes of main.py, and the GitHub Action (action.yml and            *)
(* scripts/github_action_result.py), which scans, publishes what the       *)
(* report file says and then lets the job pass or fail.                    *)
(*                                                                         *)
(* An extension of a report is the decision it has, its coverage, whether  *)
(* it names an artifact, and its dependency and reputation findings.       *)
(***************************************************************************)
EXTENDS Naturals, FiniteSets, Sequences, SequencesExt

CONSTANT
    Extensions      \* the extensions a report may list

Decision == {"allow", "review", "block", "incomplete"}
Extension == [decision : Decision, coverage : {"complete", "incomplete"},
              sha256 : BOOLEAN, osv : {"completed", "failed"}, dependencies : BOOLEAN,
              reputation : SUBSET {"review", "plain"}]

Verdict == [extensions : Seq(Extension), failOn : {"review", "block", "never"}]

VARIABLES
    verdict,        \* the report: extensions, and the options of the command
    job,            \* where the Action is
    reportFile,     \* what the report path holds: {} or one sequence of extensions
    exit,           \* exit code of the scan, -1 before
    published       \* outputs of the step that publishes

verdictVars == <<verdict, job, reportFile, exit, published>>

-----------------------------------------------------------------------------
(* The risk brief.                                                          *)

\* Variant: coverage that is not complete is left to the decision.
GateLoose(e) ==
    IF e.decision = "block" THEN "not_recommended"
    ELSE IF e.decision = "incomplete" \/ ~e.sha256 \/ e.osv # "completed" THEN "insufficient_evidence"
    ELSE IF e.decision = "review" \/ e.dependencies \/ "review" \in e.reputation THEN "needs_human_review"
    ELSE "eligible_for_recommendation"

\* _recommendation_gate: the first that applies.
Gate(e) ==
    IF e.decision = "block" THEN "not_recommended"
    ELSE IF e.decision = "incomplete" \/ e.coverage # "complete" \/ ~e.sha256 \/ e.osv # "completed"
         THEN "insufficient_evidence"
    ELSE IF e.decision = "review" \/ e.dependencies \/ "review" \in e.reputation THEN "needs_human_review"
    ELSE "eligible_for_recommendation"

Gates(exts) == {Gate(e) : e \in Range(exts)}

RecommendationPermitted(exts) == Len(exts) = 1 /\ Gate(exts[1]) = "eligible_for_recommendation"

BriefExit(exts, failOn) ==
    IF "insufficient_evidence" \in Gates(exts) THEN 3
    ELSE IF failOn = "never" THEN 0
    ELSE IF "not_recommended" \in Gates(exts) \/ (failOn = "review" /\ "needs_human_review" \in Gates(exts)) THEN 1
    ELSE 0

-----------------------------------------------------------------------------
(* The exit code of a scan and the summary of the Action.                   *)

Shown(exts) == {e.decision : e \in Range(exts)}

\* Variant: with --fail-on never nothing fails.
ScanExitLoose(exts, failOn) ==
    IF failOn = "never" THEN 0
    ELSE IF "incomplete" \in Shown(exts) THEN 3
    ELSE IF "block" \in Shown(exts) \/ (failOn = "review" /\ "review" \in Shown(exts)) THEN 1
    ELSE 0

ScanExit(exts, failOn) ==
    IF "incomplete" \in Shown(exts) THEN 3
    ELSE IF (failOn # "never" /\ "block" \in Shown(exts)) \/ (failOn = "review" /\ "review" \in Shown(exts)) THEN 1
    ELSE 0

DECISION_ORDER == <<"allow", "review", "block", "incomplete">>

\* report_summary: the worst, and incomplete of an empty report.
WorstDecision(exts) ==
    IF exts = <<>> THEN "incomplete"
    ELSE DECISION_ORDER[CHOOSE i \in 1..4 : /\ DECISION_ORDER[i] \in Shown(exts)
                                            /\ \A j \in (i + 1)..4 : DECISION_ORDER[j] \notin Shown(exts)]

ReportComplete(exts) == exts # <<>> /\ \A e \in Range(exts) : e.coverage = "complete"

-----------------------------------------------------------------------------
(* The job of the Action.                                                   *)

NoOutput == [decision |-> "", complete |-> FALSE, valid |-> FALSE]

VerdictInit ==
    /\ job = "scan" /\ exit = -1 /\ published = NoOutput
    \* a report of an earlier run may be in the workspace
    /\ reportFile \in {{}} \cup {{<<e>>} : e \in Extensions}

\* cmd_scan writes the report and then returns the code of what it found.
ScanEnds ==
    /\ job = "scan" /\ job' = "publish"
    /\ reportFile' = {verdict.extensions}
    /\ exit' = ScanExit(verdict.extensions, verdict.failOn)
    /\ UNCHANGED <<verdict, published>>

\* Variant: a scan that cannot be exported still has its code.
ScanRaisesQuietly ==
    /\ job = "scan" /\ job' = "publish"
    /\ exit' = ScanExit(verdict.extensions, verdict.failOn)
    /\ UNCHANGED <<verdict, reportFile, published>>

\* Arguments, the target, the export, an interrupt or an error nobody catches:
\* nothing is written.
ScanRaises ==
    /\ job = "scan" /\ job' = "publish"
    /\ exit' \in {1, 2, 4, 130}
    /\ UNCHANGED <<verdict, reportFile, published>>

\* if: always(); a file that cannot be read is published as incomplete.
Publish ==
    /\ job = "publish" /\ job' = "enforce"
    /\ published' =
         IF reportFile = {} THEN [decision |-> "incomplete", complete |-> FALSE, valid |-> FALSE]
         ELSE LET exts == CHOOSE r \in reportFile : TRUE
              IN  [decision |-> WorstDecision(exts), complete |-> ReportComplete(exts), valid |-> TRUE]
    /\ UNCHANGED <<verdict, reportFile, exit>>

Enforce ==
    /\ job = "enforce"
    /\ job' = IF exit = 0 THEN "passed" ELSE "failed"
    /\ UNCHANGED <<verdict, reportFile, exit, published>>

VerdictNext == ScanEnds \/ ScanRaises \/ Publish \/ Enforce

VerdictSpec == verdict \in Verdict /\ VerdictInit /\ [][VerdictNext]_verdictVars

-----------------------------------------------------------------------------
(* Properties.                                                              *)

\* No extension is taken for better by one reader than by another: what a brief
\* lets pass a scan with the same --fail-on lets pass too, what a scan lets pass
\* is not incomplete, and the one candidate a brief permits to recommend passes
\* the strictest scan, complete, named by its digest and with its dependencies
\* looked up (risk_brief.py:50, 165-181, 310-375, main.py:855-863,
\* github_action_result.py:17-24).
ReadersAgree ==
    LET exts == verdict.extensions IN
    /\ verdict.failOn # "block" /\ BriefExit(exts, verdict.failOn) = 0 => ScanExit(exts, verdict.failOn) = 0
    /\ ScanExit(exts, verdict.failOn) = 0 => WorstDecision(exts) # "incomplete" \/ exts = <<>>
    /\ RecommendationPermitted(exts) =>
          /\ BriefExit(exts, "review") = 0 /\ ScanExit(exts, "review") = 0
          /\ ReportComplete(exts) /\ exts[1].sha256 /\ exts[1].osv = "completed"

\* A job that passes publishes the decision of the scan it ran, not of a report
\* an earlier run left, and that decision is one --fail-on lets pass
\* (action.yml:77-110, main.py:459-472).
PassedIsOfThisScan ==
    job = "passed" =>
        /\ published.valid /\ published.decision = WorstDecision(verdict.extensions)
        /\ verdict.extensions # <<>> =>
             published.decision \in {"allow"} \cup (IF verdict.failOn = "review" THEN {} ELSE {"review"})
                                    \cup (IF verdict.failOn = "never" THEN {"block"} ELSE {})
=============================================================================
