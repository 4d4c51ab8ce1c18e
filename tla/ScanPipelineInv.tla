-------------------------- MODULE ScanPipelineInv --------------------------
(***************************************************************************)
(* The inductive invariant of ScanPipeline from which the theorems of      *)
(* ScanPipelineProofs follow.                                              *)
(***************************************************************************)
EXTENDS ScanPipeline

AfterAssess  == {"report", "done"}
AfterSandbox == {"registry", "finalize"} \cup AfterAssess
AfterMarket  == {"feed", "remote", "advisories", "sandbox"} \cup AfterSandbox
AfterRuntime == {"market"} \cup AfterMarket

Artifact == {"local", "fetched", "market", "remote"}

\* A report is made from the entry of the request it stands for; only the
\* bytes of an artifact can be executed.
OriginOK(i) ==
    /\ stage \in {"load", "local"} /\ req.kind[i] # "local" => rep[i].origin = "none"
    /\ stage \in {"runtime"} \cup AfterRuntime /\ req.kind[i] = "local" => rep[i].origin # "none"
    /\ rep[i].origin = "local" => req.kind[i] = "local"
    /\ rep[i].origin \in {"fetched", "market"} => req.kind[i] = "market"
    /\ rep[i].exec => rep[i].origin \in Artifact
    /\ stage \in AfterMarket => rep[i].origin # "fetched"

\* The scanner's own providers stay required whatever is attached later.
BuiltInRequired(i) == rep[i].origin \in Artifact => BuiltIn \subseteq rep[i].cover.required

\* The receipt of a run names the bytes of its report, and with --runtime
\* nothing that can be executed is passed over.
ReceiptOK(i) ==
    /\ rep[i].origin = "none" \/ stage \in {"load", "local"} => run[i].state = "none"
    /\ run[i].state # "none" /\ rep[i].origin \in {"local", "fetched", "market"} =>
         run[i].key = rep[i].key /\ (rep[i].exec => run[i].state \in {"failed", "completed"})
    /\ req.dynamic /\ stage \in AfterRuntime /\ req.kind[i] = "local" => run[i].state # "none"
    /\ req.dynamic /\ rep[i].origin = "market" => run[i].state # "none"

Traced(i) == \E j \in Slots : run[j].key = rep[i].key /\ run[j].trace

\* Once the sandbox evidence is in, dynamic_sandbox is required of what had to
\* run, and completed only with a trace.
SandboxOK(i) ==
    stage \in AfterSandbox /\ req.dynamic /\ rep[i].exec /\ rep[i].origin # "remote" =>
        /\ "dynamic_sandbox" \in rep[i].cover.required
        /\ rep[i].cover.result["dynamic_sandbox"] = "completed" => Traced(i)

\* A complete coverage has no gap and every required provider completed.
CompleteOK(i) ==
    rep[i].cover.state = "complete" =>
        /\ ~rep[i].cover.gaps
        /\ \A p \in Demanded(i) \cup rep[i].cover.required : rep[i].cover.result[p] = "completed"

\* The decision and the outcome are those of the report they stand in; the
\* baseline may change the decision only.
AssessedOK(i) ==
    stage \in AfterAssess =>
        /\ rep[i].skipped <=> rep[i].cover.state # "complete"
        /\ CompleteOK(i)
        /\ rep[i].outcome = Explain(rep[i], Decide(rep[i], FALSE))
        /\ \E grown \in BOOLEAN : rep[i].decision = Decide(rep[i], grown)

SlotOK(i) ==
    OriginOK(i) /\ BuiltInRequired(i) /\ ReceiptOK(i) /\ SandboxOK(i) /\ AssessedOK(i)

IInv == TypeOK /\ \A i \in Slots : SlotOK(i)
=============================================================================
