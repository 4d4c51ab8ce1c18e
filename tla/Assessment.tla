----------------------------- MODULE Assessment -----------------------------
(***************************************************************************)
(* What one extension report of ide_scanner/scanner.py says: its evidence, *)
(* its analysis coverage, and the decision and public outcome drawn from   *)
(* them.  Findings are abstracted to the strongest level they reach, and   *)
(* the texts of limitations to what caused them.                           *)
(***************************************************************************)
EXTENDS Integers

CONSTANTS
    StaticProviders,  \* the analyzers that look at one artifact
    BuiltIn,          \* those of them that every artifact scan requires
    EnvRequired       \* IDE_SCANNER_REQUIRE_PROVIDERS

RequestProviders ==
    {"artifact_acquisition", "dependency_intelligence", "extension_advisories", "dynamic_sandbox"}

Providers == StaticProviders \cup RequestProviders

ASSUME ProvidersOK ==
    /\ StaticProviders \cap RequestProviders = {}
    /\ BuiltIn \subseteq StaticProviders
    /\ EnvRequired \subseteq Providers

-----------------------------------------------------------------------------
(* Evidence.  Review: verdict review or suspicious, or a capability that    *)
(* the package's contract forbids.  Abuse: a blocking chain or a blocking   *)
(* vulnerability.  Malware: confirmed intelligence, verdict malicious.      *)

Clean   == 0
Review  == 1
Abuse   == 2
Malware == 3
Level   == Clean..Malware

Worse(a, b) == IF a >= b THEN a ELSE b

-----------------------------------------------------------------------------
(* Coverage.  gaps stands for the structural fields (unread, oversized or   *)
(* unanalyzed files, missing entrypoints, bad manifest), which every        *)
(* finalization looks at again; limits for the list of limitations.         *)

Result == {"absent", "completed", "failed", "unavailable", "invalid",
           "not-applicable", "not-requested", "imported"}

Limit == Providers \cup {"gaps", "refused", "aborted"}

Coverage ==
    [gaps: BOOLEAN, limits: SUBSET Limit, result: [Providers -> Result],
     required: SUBSET Providers, state: {"none", "complete", "incomplete"}]

\* analysis_coverage of a report that no artifact was scanned for: {}
NoCoverage ==
    [gaps |-> FALSE, limits |-> {}, result |-> [p \in Providers |-> "absent"],
     required |-> {}, state |-> "none"]

\* A provider record is stored as a whole, its required flag included.
Attach(c, p, result, required) ==
    [c EXCEPT !.result[p] = result,
              !.required = IF required THEN @ \cup {p} ELSE @ \ {p}]

\* providers.setdefault(name, unavailable)["required"] = True
Demand(c, ps) ==
    [c EXCEPT !.result = [p \in Providers |->
                            IF p \in ps /\ c.result[p] = "absent" THEN "unavailable" ELSE c.result[p]],
              !.required = @ \cup ps]

Must(c)      == c.required \cup EnvRequired
Completed(c) == {p \in Must(c) : c.result[p] = "completed"}

\* Variant: limitations are rebuilt from the structural fields alone.
FinalizeAfresh(c) ==
    LET limits == (Must(c) \ Completed(c)) \cup (IF c.gaps THEN {"gaps"} ELSE {})
    IN  [c EXCEPT !.required = Must(c), !.limits = limits,
                  !.state = IF limits = {} THEN "complete" ELSE "incomplete"]

\* Variant: a provider that is merely present counts as completed.
FinalizePresent(c) ==
    LET present == {p \in Must(c) : c.result[p] # "absent"}
        limits  == (c.limits \ present) \cup (Must(c) \ present)
                        \cup (IF c.gaps THEN {"gaps"} ELSE {})
    IN  [c EXCEPT !.required = Must(c), !.limits = limits,
                  !.state = IF limits = {} THEN "complete" ELSE "incomplete"]

\* _finalize_analysis_coverage: earlier limitations stay, except those of
\* required providers that have completed since.
Finalize(c) ==
    LET limits == (c.limits \ Completed(c)) \cup (Must(c) \ Completed(c))
                        \cup (IF c.gaps THEN {"gaps"} ELSE {})
    IN  [c EXCEPT !.required = Must(c), !.limits = limits,
                  !.state = IF limits = {} THEN "complete" ELSE "incomplete"]

\* _record_archive_anomalies: archive members refused and not analyzed.
Refuse(c) == [c EXCEPT !.limits = @ \cup {"refused"}, !.state = "incomplete"]

-----------------------------------------------------------------------------
(* Decision and public outcome of a report r with the fields level, cover,  *)
(* skipped (scan_incomplete) and origin.                                    *)

Decision == {"none", "allow", "review", "block", "incomplete"}
Outcome  == {"none", "clear", "investigate", "preventive_block", "confirmed_threat", "incomplete"}

Blocked(r)   == r.level >= Abuse
Uncovered(r) == r.skipped \/ r.cover.state = "incomplete"

\* Variant: an incomplete scan is reported before its evidence is looked at.
DecideCoverageFirst(r, grown) ==
    CASE Uncovered(r) -> "incomplete"
      [] ~Uncovered(r) /\ Blocked(r) -> "block"
      [] ~Uncovered(r) /\ ~Blocked(r) /\ (r.level = Review \/ grown) -> "review"
      [] OTHER -> "allow"

\* _apply_security_decision; grown: the artifact changed from its baseline
\* and shows new capabilities or findings.
Decide(r, grown) ==
    CASE Blocked(r) -> "block"
      [] ~Blocked(r) /\ Uncovered(r) -> "incomplete"
      [] ~Blocked(r) /\ ~Uncovered(r) /\ (r.level = Review \/ grown) -> "review"
      [] OTHER -> "allow"

AnalysisStatus(r) ==
    CASE ~Uncovered(r) /\ r.cover.state = "complete" -> "complete"
      [] Uncovered(r) /\ (r.origin = "error" \/ "aborted" \in r.cover.limits) -> "failed"
      [] OTHER -> "incomplete"

\* apply_public_assessment; investigate also stands for expected_capability.
Explain(r, decision) ==
    CASE decision = "incomplete" -> "incomplete"
      [] decision = "block" -> (IF r.level = Malware THEN "confirmed_threat" ELSE "preventive_block")
      [] decision = "review" -> "investigate"
      [] decision = "allow" -> "clear"
=============================================================================
