---------------------------- MODULE ScanPipeline ----------------------------
(***************************************************************************)
(* One scan request through scan_targets / _scan_request of                *)
(* ide_scanner/scanner.py: local artifacts scanned in a process pool, the  *)
(* sandbox runs, marketplace and remote artifacts, then the passes over    *)
(* all reports (threat feed, advisories, sandbox evidence, registry,       *)
(* coverage, decision) and the final report with its baseline diff.        *)
(*                                                                         *)
(* Slot i is the i-th entry of the list "extensions".                      *)
(***************************************************************************)
EXTENDS Assessment, FiniteSets

CONSTANTS
    N,        \* number of reports
    Ids,      \* extension ids (publisher.name)
    Unknown,  \* the id of a report whose manifest could not be read
    Requests  \* the requests considered, with the intelligence they meet

Slots == 1..N
Kind  == {"local", "registry", "market", "remote"}

\* The order in which the kinds are appended to the list.
Rank(k) == CASE k = "local" -> 1 [] k = "registry" -> 2 [] k = "market" -> 3 [] k = "remote" -> 4

\* bytes[i] = bytes[j]: the same VSIX at two paths; only then do two slots
\* have one instance id.  feed, listed and flagged are what threat feed,
\* advisories and registry know; imported the ids with an abuse observation
\* in the sandbox observations file; delta compares with the previous report.
\* found bounds what analyzing an artifact gives: its evidence and the static
\* providers that complete.
RequestType ==
    [kind: [Slots -> Kind], id: [Slots -> Ids], bytes: [Slots -> Slots],
     found: SUBSET (Level \X SUBSET StaticProviders),
     parallel: BOOLEAN, dynamic: BOOLEAN, providers: SUBSET Providers,
     feed: [Ids -> Level], advisories: {"completed", "unavailable", "invalid"},
     listed: [Slots -> Level], registry: {"completed", "failed", "unavailable"},
     flagged: [Ids -> Level], imported: SUBSET Ids,
     delta: [Slots -> {"none", "same", "grown"}]]

ASSUME RequestsOK ==
    /\ N \in Nat \ {0}
    /\ Unknown \notin Ids
    /\ Requests \subseteq RequestType
    /\ \A r \in Requests : \A i, j \in Slots : i < j => Rank(r.kind[i]) <= Rank(r.kind[j])

VARIABLES
    req,    \* the request
    stage,  \* how far _scan_request has got
    pool,   \* TRUE: local artifacts are scanned by worker processes
    why,    \* what made the request raise
    rep,    \* rep[i]: the i-th report
    run,    \* run[i]: receipt of the sandbox run of slot i
    obs     \* runtime_bundle["extensions"]: observations by key

vars == <<req, stage, pool, why, rep, run, obs>>

Stage == {"load", "local", "runtime", "market", "feed", "remote", "advisories",
          "sandbox", "registry", "finalize", "report", "done", "raised"}

\* An id key, the instance id of scanned bytes, or that of a failed slot.
IdKey(x) == <<"id", x>>
Keys == {IdKey(x) : x \in Ids \cup {Unknown}} \cup ({"bytes", "failed"} \X Slots)

\* Observations of one run: exfiltration or another blocking behavior, an
\* undeclared capability, a failed entrypoint, a timeout or harness error.
Item == {"exfil", "hidden", "entryError", "hardError"}

Report ==
    [origin: {"none", "local", "registry", "fetched", "market", "remote", "error", "aborted"},
     id: Ids \cup {Unknown}, key: Keys, exec: BOOLEAN, level: Level, cover: Coverage,
     skipped: BOOLEAN, decision: Decision, outcome: Outcome]

Receipt ==
    [state: {"none", "skipped", "failed", "completed"}, key: Keys, trace: BOOLEAN,
     saw: SUBSET Item]

TypeOK ==
    /\ req \in Requests
    /\ stage \in Stage
    /\ pool \in BOOLEAN
    /\ why \in {"", "input", "artifact"}
    /\ rep \in [Slots -> Report]
    /\ run \in [Slots -> Receipt]
    /\ DOMAIN obs \subseteq Keys /\ \A k \in DOMAIN obs : obs[k] \subseteq Item

Slot(kind) == {i \in Slots : req.kind[i] = kind}
Listed     == {i \in Slots : rep[i].origin # "none"}

\* The last element wins in a dict comprehension over the reports.
Last(S)  == CHOOSE i \in S : \A j \in S : j <= i
First(S) == CHOOSE i \in S : \A j \in S : i <= j
LastOf(x) == Last({i \in Listed : rep[i].id = x})

-----------------------------------------------------------------------------
(* Reports as they are first made.                                          *)

Blank(i, origin, id, key) ==
    [origin |-> origin, id |-> id, key |-> key, exec |-> FALSE, level |-> Clean,
     cover |-> NoCoverage, skipped |-> TRUE, decision |-> "none", outcome |-> "none"]

\* What the analyzers of one artifact covered, and what is refused of an archive.
Inspect(gaps, ok) ==
    Finalize([NoCoverage EXCEPT !.gaps = gaps,
                 !.result = [p \in Providers |-> IF p \notin StaticProviders THEN "absent"
                                                 ELSE IF p \in ok THEN "completed" ELSE "failed"],
                 !.required = BuiltIn])

Inspected(ok) == LET open == {Inspect(gaps, ok) : gaps \in BOOLEAN}
                 IN  open \cup {Refuse(c) : c \in open}

\* scan_extension and scan_vsix.
Analyze(blank, exec, level, c) ==
    [blank EXCEPT !.exec = exec, !.level = level, !.cover = c, !.skipped = (c.state # "complete")]

Analyzed(i, origin, id) ==
    UNION { { Analyze(Blank(i, origin, id, <<"bytes", req.bytes[i]>>), exec, f[1], c)
              : exec \in BOOLEAN, c \in Inspected(f[2]) } : f \in req.found }

\* _local_error_extension: the failure of one artifact, isolated.
Aborted == [NoCoverage EXCEPT !.gaps = TRUE, !.limits = {"aborted"}, !.state = "incomplete"]

Isolated(i) ==
    { [Blank(i, "aborted", id, <<"failed", i>>) EXCEPT !.cover = Aborted]
      : id \in {req.id[i], Unknown} }

\* _registry_only_extension and _marketplace_error_extension: no artifact.
RegistryOnly(i) == Blank(i, "registry", req.id[i], <<"failed", i>>)
MarketError(i)  == Blank(i, "error", req.id[i], <<"failed", i>>)

Init ==
    /\ req \in Requests
    /\ stage = "load"
    /\ pool = (req.parallel /\ Cardinality(Slot("local")) > 1)
    /\ why = ""
    /\ rep = [i \in Slots |-> Blank(i, "none", Unknown, <<"failed", i>>)]
    /\ run = [i \in Slots |-> [state |-> "none", key |-> <<"failed", i>>, trace |-> FALSE, saw |-> {}]]
    /\ obs = [k \in {} |-> {}]

Goto(from, to) == stage = from /\ stage' = to
Stay(at)       == stage = at /\ UNCHANGED stage
Raise(reason)  == stage' = "raised" /\ why' = reason /\ UNCHANGED <<req, pool, rep, run, obs>>
Put(i, S)      == \E r \in S : rep' = [rep EXCEPT ![i] = r]

-----------------------------------------------------------------------------
(* Acquisition and scanning, in the order of the list.                      *)

\* A replayed registry snapshot is validated before anything is scanned.
Load ==
    /\ Goto("load", "local")
    /\ UNCHANGED <<req, pool, why, rep, run, obs>>

\* An intelligence file that cannot be used is a failure of the request.
InputRaises == stage \in {"load", "feed"} /\ Raise("input")

ScanLocal(i) ==
    /\ Stay("local")
    /\ i \in Slot("local") \ Listed
    /\ pool \/ \A j \in Slot("local") : j < i => j \in Listed
    /\ Put(i, Analyzed(i, "local", req.id[i]) \cup Isolated(i))
    /\ UNCHANGED <<req, pool, why, run, obs>>

\* PermissionError when the pool starts: scan in this process instead.
PoolDenied ==
    /\ Stay("local")
    /\ pool /\ Slot("local") \cap Listed = {}
    /\ pool' = FALSE
    /\ UNCHANGED <<req, why, rep, run, obs>>

\* A worker process is killed: BrokenProcessPool leaves executor.map.
WorkerDies ==
    /\ stage = "local"
    /\ pool /\ ~(Slot("local") \subseteq Listed)
    /\ Raise("artifact")

AddRegistryOnly ==
    /\ Goto("local", "runtime")
    /\ Slot("local") \subseteq Listed
    /\ rep' = [i \in Slots |-> IF i \in Slot("registry") THEN RegistryOnly(i) ELSE rep[i]]
    /\ UNCHANGED <<req, pool, why, run, obs>>

-----------------------------------------------------------------------------
(* One sandbox run (_apply_local_dynamic_runtime, scan_marketplace_...).    *)

\* _runtime_bundle_key: the id until it is taken, then the instance.
BundleKey(i) == IF IdKey(rep[i].id) \in DOMAIN obs THEN rep[i].key ELSE IdKey(rep[i].id)

\* A run that raises is one that saw {"hardError"} without a trace.
Sandbox(i) ==
    \/ /\ ~rep[i].exec
       /\ run' = [run EXCEPT ![i] = [@ EXCEPT !.state = "skipped", !.key = rep[i].key]]
       /\ UNCHANGED obs
    \/ /\ rep[i].exec
       /\ \E saw \in SUBSET Item, traced \in BOOLEAN :
            /\ run' = [run EXCEPT ![i] =
                 [state |-> IF saw \cap {"entryError", "hardError"} = {} THEN "completed" ELSE "failed",
                  key |-> rep[i].key, saw |-> saw, trace |-> traced /\ "hardError" \notin saw]]
            /\ obs' = [k \in DOMAIN obs \cup {BundleKey(i)} |-> IF k = BundleKey(i) THEN saw ELSE obs[k]]

RunLocal(i) ==
    /\ Stay("runtime")
    /\ req.dynamic
    /\ i \in Slot("local")
    /\ run[i].state = "none"
    /\ \A j \in Slot("local") : j < i => run[j].state # "none"
    /\ Sandbox(i)
    /\ UNCHANGED <<req, pool, why, rep>>

LocalRunsDone ==
    /\ Goto("runtime", "market")
    /\ req.dynamic => \A i \in Slot("local") : run[i].state # "none"
    /\ UNCHANGED <<req, pool, why, rep, run, obs>>

-----------------------------------------------------------------------------
(* Marketplace artifacts, one after the other.                              *)

Turn(i) ==
    /\ i \in Slot("market")
    /\ \A j \in Slot("market") : j < i => rep[j].origin \in {"market", "error"}

\* The bytes served may name another extension.
Acquire(i) ==
    /\ Stay("market") /\ Turn(i)
    /\ rep[i].origin = "none"
    /\ \/ \E id \in Ids : Put(i, Analyzed(i, "fetched", id))
       \/ Put(i, {MarketError(i)})
    /\ UNCHANGED <<req, pool, why, run, obs>>

RunMarket(i) ==
    /\ Stay("market") /\ Turn(i)
    /\ rep[i].origin = "fetched"
    /\ req.dynamic /\ run[i].state = "none"
    /\ Sandbox(i)
    /\ UNCHANGED <<req, pool, why, rep>>

Ran(i) == req.dynamic => run[i].state # "none"

Accept(i) ==
    /\ Stay("market") /\ Turn(i)
    /\ rep[i].origin = "fetched" /\ Ran(i)
    /\ rep[i].id = req.id[i]
    /\ rep' = [rep EXCEPT ![i].origin = "market"]
    /\ UNCHANGED <<req, pool, why, run, obs>>

\* Another extension than the one asked for, or another version of it.
Reject(i) ==
    /\ Stay("market") /\ Turn(i)
    /\ rep[i].origin = "fetched" /\ Ran(i)
    /\ rep' = [rep EXCEPT ![i] = MarketError(i)]
    /\ UNCHANGED <<req, pool, why, run, obs>>

MarketDone ==
    /\ Goto("market", "feed")
    /\ \A i \in Slot("market") : rep[i].origin \in {"market", "error"}
    /\ UNCHANGED <<req, pool, why, rep, run, obs>>

-----------------------------------------------------------------------------
(* Passes over the reports made so far.                                     *)

Marked(r, level) == [r EXCEPT !.level = Worse(@, level)]
Known(levels, r) == IF r.id \in Ids THEN levels[r.id] ELSE Clean

\* Intelligence looked up by id: of several installations, the last one.
MarkById(levels) ==
    rep' = [i \in Slots |->
              IF i \in Listed /\ i = LastOf(rep[i].id) THEN Marked(rep[i], Known(levels, rep[i]))
              ELSE rep[i]]

MatchFeed ==
    /\ Goto("feed", "remote")
    /\ MarkById(req.feed)
    /\ UNCHANGED <<req, pool, why, run, obs>>

FetchRemote(i) ==
    /\ Stay("remote")
    /\ i \in Slot("remote") \ Listed
    /\ Put(i, Analyzed(i, "remote", req.id[i]) \cup Isolated(i))
    /\ UNCHANGED <<req, pool, why, run, obs>>

\* scan_remote_artifact isolates a failed download, not a failed scan.
RemoteRaises ==
    /\ stage = "remote"
    /\ ~(Slot("remote") \subseteq Listed)
    /\ Raise("artifact")

RemoteDone ==
    /\ Goto("remote", "advisories")
    /\ Slot("remote") \subseteq Listed
    /\ UNCHANGED <<req, pool, why, rep, run, obs>>

\* Advisories name exact bytes: an artifact that was not scanned has none.
MatchAdvisories ==
    /\ Goto("advisories", "sandbox")
    /\ rep' = [i \in Slots |->
                 IF req.advisories = "completed" /\ rep[i].origin \in {"local", "market", "remote"}
                 THEN Marked(rep[i], req.listed[i]) ELSE rep[i]]
    /\ UNCHANGED <<req, pool, why, run, obs>>

-----------------------------------------------------------------------------
(* Sandbox evidence and coverage.                                           *)

ObsKeys == DOMAIN obs \cup {IdKey(x) : x \in req.imported}
Merged(k) ==
    (IF k \in DOMAIN obs THEN obs[k] ELSE {})
        \cup (IF \E x \in req.imported : k = IdKey(x) THEN {"exfil"} ELSE {})

Severity(items) ==
    IF "exfil" \in items THEN Abuse ELSE IF "hidden" \in items THEN Review ELSE Clean

\* by_instance.get(key) or by_id.get(key)
Bears(i, k) ==
    LET byKey == {j \in Slots : rep[j].key = k}
        byId  == {j \in Slots : IdKey(rep[j].id) = k}
    IN  IF byKey # {} THEN i = Last(byKey) ELSE byId # {} /\ i = Last(byId)

Evidence(i) == UNION {Merged(k) : k \in {q \in ObsKeys : Bears(i, q)}}

\* _runtime_observations_for_report
ItemsFor(i) ==
    IF rep[i].key \in ObsKeys THEN Merged(rep[i].key)
    ELSE IF IdKey(rep[i].id) \in ObsKeys THEN Merged(IdKey(rep[i].id)) ELSE {}

Receipts(i) == {j \in Slots : run[j].state # "none" /\ run[j].key = rep[i].key}
RunNeeded(i) == \E j \in Slots : run[j].state \in {"failed", "completed"} /\ run[j].key = rep[i].key

\* Variant: a run that left no error is taken as coverage, trace or not.
RunCoversQuiet(i) == "hardError" \notin ItemsFor(i)

\* A receipt without a trace covers nothing; a failed entrypoint is covered
\* when its trace is there.
RunCovers(i) ==
    LET receipt == run[First(Receipts(i))]
    IN  /\ receipt.trace
        /\ "hardError" \notin ItemsFor(i)
        /\ receipt.state = "completed" \/ (receipt.state = "failed" /\ "entryError" \in ItemsFor(i))

SandboxResult(i) ==
    IF req.dynamic
    THEN IF RunNeeded(i) THEN (IF RunCovers(i) THEN "completed" ELSE "failed") ELSE "not-applicable"
    ELSE IF req.imported = {} THEN "not-requested" ELSE "imported"

ApplySandbox ==
    /\ Goto("sandbox", "registry")
    /\ rep' = [i \in Slots |->
                 [Marked(rep[i], Severity(Evidence(i))) EXCEPT
                    !.cover = Finalize(Attach(@, "dynamic_sandbox", SandboxResult(i), RunNeeded(i)))]]
    /\ UNCHANGED <<req, pool, why, run, obs>>

-----------------------------------------------------------------------------
(* Registry evidence, final coverage and decision.                          *)

ApplyRegistry ==
    /\ Goto("registry", "finalize")
    /\ IF req.registry = "unavailable" THEN UNCHANGED rep ELSE MarkById(req.flagged)
    /\ UNCHANGED <<req, pool, why, run, obs>>

FinalCover(r) ==
    LET c1 == IF r.origin = "error" THEN Attach(r.cover, "artifact_acquisition", "failed", TRUE) ELSE r.cover
        c2 == Attach(c1, "dependency_intelligence", req.registry, FALSE)
        c3 == Attach(c2, "extension_advisories", req.advisories, TRUE)
    IN  Finalize(Demand(c3, req.providers))

Assess(r) ==
    LET c == FinalCover(r)
        s == [r EXCEPT !.cover = c, !.skipped = c.state # "complete"]
    IN  [s EXCEPT !.decision = Decide(s, FALSE), !.outcome = Explain(s, Decide(s, FALSE))]

FinalizeAll ==
    /\ Goto("finalize", "report")
    /\ rep' = [i \in Slots |-> Assess(rep[i])]
    /\ UNCHANGED <<req, pool, why, run, obs>>

\* deltas_by_id: the delta of the last report with this id that has one.
Grown(i) ==
    LET S == {j \in Slots : rep[j].id = rep[i].id /\ req.delta[j] # "none"}
    IN  S # {} /\ req.delta[Last(S)] = "grown"

\* _build_report decides again with the baseline and explains nothing.
BuildReport ==
    /\ Goto("report", "done")
    /\ rep' = [i \in Slots |-> [rep[i] EXCEPT !.decision = Decide(rep[i], Grown(i))]]
    /\ UNCHANGED <<req, pool, why, run, obs>>

-----------------------------------------------------------------------------
Next ==
    \/ Load \/ InputRaises
    \/ PoolDenied \/ WorkerDies \/ AddRegistryOnly
    \/ \E i \in Slots : ScanLocal(i) \/ RunLocal(i)
    \/ LocalRunsDone
    \/ \E i \in Slots : Acquire(i) \/ RunMarket(i) \/ Accept(i) \/ Reject(i)
    \/ MarketDone
    \/ MatchFeed
    \/ \E i \in Slots : FetchRemote(i)
    \/ RemoteRaises \/ RemoteDone
    \/ MatchAdvisories \/ ApplySandbox \/ ApplyRegistry \/ FinalizeAll \/ BuildReport

Spec == Init /\ [][Next]_vars

-----------------------------------------------------------------------------
(* Properties.                                                              *)

Done        == stage = "done"
Approved(i) == rep[i].decision \in {"allow", "review"}
Scanned(i)  == rep[i].origin \in {"local", "market", "remote"}

\* What the request, the environment and the scanner itself ask for.
Demanded(i) ==
    EnvRequired \cup req.providers \cup {"extension_advisories"}
        \cup (IF Scanned(i) THEN BuiltIn ELSE {})

\* "If ... any required provider is unavailable, the result is INCOMPLETE,
\* never an apparent ALLOW": a report that is not blocked and not incomplete
\* has every provider completed that anyone required, at whatever stage it
\* reported, and no structural gap.
ApprovalIsCovered ==
    Done => \A i \in Slots : Approved(i) =>
        /\ AnalysisStatus(rep[i]) = "complete"
        /\ ~rep[i].cover.gaps
        /\ \A p \in Demanded(i) : rep[i].cover.result[p] = "completed"

\* With --runtime, an installed or marketplace artifact that has something to
\* run passes only on the receipt of a traced run of these very bytes, however
\* many installations of one extension share the observation keys.
RuntimeIsCovered ==
    Done /\ req.dynamic =>
        \A i \in Slots : Approved(i) /\ rep[i].exec /\ rep[i].origin # "remote" =>
            \E j \in Slots : run[j].key = rep[i].key /\ run[j].trace

\* "Actionable block evidence remains enforceable even if another provider
\* fails", and the public outcome of a blocked or incomplete report says so.
BlockHolds ==
    Done => \A i \in Slots :
        /\ rep[i].level >= Abuse <=> rep[i].decision = "block"
        /\ rep[i].level = Malware <=> rep[i].outcome = "confirmed_threat"
        /\ rep[i].decision = "incomplete" <=> rep[i].outcome = "incomplete"

\* Later passes forget nothing about an artifact: evidence only gets worse,
\* and a limitation goes only when its provider has completed since.
NothingForgotten ==
    [][\A i \in Slots :
         rep[i].origin # "none" /\ rep'[i].origin # "error" =>
            /\ rep[i].level <= rep'[i].level
            /\ \A l \in rep[i].cover.limits \ rep'[i].cover.limits :
                 l \in Providers /\ rep'[i].cover.result[l] = "completed"]_vars

-----------------------------------------------------------------------------
(* What the documentation says and the code does not keep.                  *)

\* Evidence of a run goes to the installation that ran: one whose own run
\* showed a blocking behavior is not approved.
ObservedAbuseBlocks ==
    Done => \A i \in Slots : "exfil" \in run[i].saw /\ Scanned(i) => ~Approved(i)

\* "Missing required analysis produces INCOMPLETE, never ALLOW": no artifact
\* was analyzed at all.
ArtifactlessNeverAllowed ==
    Done => \A i \in Slots : rep[i].origin = "registry" => rep[i].decision # "allow"
=============================================================================
