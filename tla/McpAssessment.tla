---------------------------- MODULE McpAssessment ----------------------------
(***************************************************************************)
(* One assessment of an MCP server: the request (service.py), the clone of *)
(* its repository, the seven extractors that run side by side, and the     *)
(* report (mcp/orchestrator.py).  env is the server together with its      *)
(* world; what the extractors conclude from it is in McpEvidence.          *)
(***************************************************************************)
EXTENDS McpEvidence

CONSTANTS
    Environments,   \* servers with the worlds they are assessed in
    NONE

ASSUME NoneOK == NONE \notin {200, 400, 422}
ASSUME WorldsOK == \A e \in Environments : "repo" \in DOMAIN e /\ RepositoryOK(e.repo)

VARIABLES
    env,        \* the server and its world; repo_path is filled in by the clone
    phase,      \* received, cloning, extracting, unwinding or over
    clone,      \* the temporary directory: none, there, gone, or torn
    status,     \* of each extractor
    evidence,   \* what each extractor gave
    live,       \* extractors with a child process that runs
    answer,     \* the HTTP status
    report      \* of an answer 200

vars == <<env, phase, clone, status, evidence, live, answer, report>>

\* The extractors that run external tools over the repository.
Forks == {"sca", "secrets"}

Statuses == {"waiting", "running", "done", "raised", "cancelled"}

TypeOK ==
    /\ phase \in {"received", "cloning", "extracting", "unwinding", "over"}
    /\ clone \in {"none", "there", "gone", "torn"}
    /\ status \in [Extractors -> Statuses]
    /\ live \in SUBSET Forks
    /\ answer \in {NONE, 200, 400, 422}
    /\ report # NONE => report.decision \in {"allow", "review", "block", "incomplete"}

Init ==
    /\ env \in Environments
    /\ phase = "received"
    /\ clone = "none"
    /\ status = [x \in Extractors |-> "waiting"]
    /\ evidence = [x \in Extractors |-> Absent]
    /\ live = {}
    /\ answer = NONE
    /\ report = NONE

Answered(code) == phase' = "over" /\ answer' = code

-----------------------------------------------------------------------------
(* The request and the repository.                                          *)

\* An empty body, or one that is no JSON object.
Refuse ==
    /\ phase = "received"
    /\ ~env.object
    /\ Answered(400)
    /\ UNCHANGED <<env, clone, status, evidence, live, report>>

Gather ==
    /\ phase' = "extracting"
    /\ status' = [x \in Extractors |-> "running"]

\* A repository that is on disk, or no repository at all.
Start ==
    /\ phase = "received"
    /\ env.object
    /\ env.server.repo_path \/ ~env.server.repo_url
    /\ Gather
    /\ UNCHANGED <<env, clone, evidence, live, answer, report>>

CloneBegins ==
    /\ phase = "received"
    /\ env.object
    /\ ~env.server.repo_path /\ env.server.repo_url
    /\ phase' = "cloning"
    /\ clone' = "there"
    /\ UNCHANGED <<env, status, evidence, live, answer, report>>

CloneSucceeds ==
    /\ phase = "cloning"
    /\ env' = [env EXCEPT !.server.repo_path = TRUE]
    /\ Gather
    /\ UNCHANGED <<clone, evidence, live, answer, report>>

\* The directory goes, whole unless a tool still writes to it: errors of
\* rmtree are ignored.
RemoveClone ==
    \/ clone = "none" /\ UNCHANGED clone
    \/ clone # "none" /\ clone' = "gone"
    \/ clone # "none" /\ live # {} /\ clone' = "torn"

\* git fails, or is killed after 120 seconds.
CloneFails ==
    /\ phase = "cloning"
    /\ RemoveClone
    /\ Answered(422)
    /\ UNCHANGED <<env, status, evidence, live, report>>

-----------------------------------------------------------------------------
(* The extractors.                                                          *)

Running(x) == phase \in {"extracting", "unwinding"} /\ status[x] = "running"

Fork(x) ==
    /\ Running(x)
    /\ x \in Forks \ live
    /\ env.server.repo_path
    /\ live' = live \cup {x}
    /\ UNCHANGED <<env, phase, clone, status, evidence, answer, report>>

\* The child ends, or its extractor kills it when it takes too long.
ChildEnds(x) ==
    /\ x \in live
    /\ live' = live \ {x}
    /\ UNCHANGED <<env, phase, clone, status, evidence, answer, report>>

\* What x may come to; only the choice of the tools to call is random.
Results(x) == {Extracted(x, env, sample) : sample \in IF x = "auth" THEN Samples(env.auth) ELSE {{}}}

Finish(x) ==
    /\ Running(x)
    /\ x \notin live
    /\ \E result \in Results(x) :
          /\ result # Raises
          /\ evidence' = [evidence EXCEPT ![x] = result]
    /\ status' = [status EXCEPT ![x] = "done"]
    /\ UNCHANGED <<env, phase, clone, live, answer, report>>

\* gather passes the first exception on at once; the repository is removed
\* while the other extractors go on.
Break(x) ==
    /\ phase = "extracting"
    /\ Running(x)
    /\ x \notin live
    /\ Raises \in Results(x)
    /\ status' = [status EXCEPT ![x] = "raised"]
    /\ RemoveClone
    /\ phase' = "unwinding"
    /\ UNCHANGED <<env, evidence, live, answer, report>>

\* An exception after the first is dropped.
BreakLate(x) ==
    /\ phase = "unwinding"
    /\ Running(x)
    /\ x \notin live
    /\ Raises \in Results(x)
    /\ status' = [status EXCEPT ![x] = "raised"]
    /\ UNCHANGED <<env, phase, clone, evidence, live, answer, report>>

\* Variant: the children of a cancelled extractor are not killed.
CancelOnly(x) ==
    /\ phase = "unwinding"
    /\ Running(x)
    /\ status' = [status EXCEPT ![x] = "cancelled"]
    /\ UNCHANGED <<env, phase, clone, evidence, live, answer, report>>

\* asyncio.run cancels what is left.  sca_support.py kills its child then, and
\* that alone: live has no helpers of a scanner, which may go on.  process.py,
\* which starts gitleaks, kills only on a timeout.
Cancel(x) ==
    /\ phase = "unwinding"
    /\ Running(x)
    /\ status' = [status EXCEPT ![x] = "cancelled"]
    /\ live' = live \ ({x} \cap {"sca"})
    /\ UNCHANGED <<env, phase, clone, evidence, answer, report>>

Unwound ==
    /\ phase = "unwinding"
    /\ \A x \in Extractors : status[x] # "running"
    /\ Answered(422)
    /\ UNCHANGED <<env, clone, status, evidence, live, report>>

Assess ==
    /\ phase = "extracting"
    /\ \A x \in Extractors : status[x] = "done"
    /\ report' = Report(evidence)
    /\ RemoveClone
    /\ Answered(200)
    /\ UNCHANGED <<env, status, evidence, live>>

Next ==
    \/ Refuse \/ Start \/ CloneBegins \/ CloneSucceeds \/ CloneFails
    \/ \E x \in Extractors :
          Fork(x) \/ ChildEnds(x) \/ Finish(x) \/ Break(x) \/ BreakLate(x) \/ Cancel(x)
    \/ Unwound \/ Assess

Spec == Init /\ [][Next]_vars

-----------------------------------------------------------------------------
(* Cleaning up.                                                             *)

\* Once the request is answered, however it ended, no clone is left whole, none
\* at all by an assessment that succeeded, and no dependency scanner outlives it,
\* whatever helpers of its own it may have left
\* (_repository_context, evaluate, sca_support.run_subprocess_exec).
NothingLeftBehind ==
    phase = "over" =>
        /\ clone # "there"
        /\ answer = 200 => clone # "torn"
        /\ "sca" \notin live

-----------------------------------------------------------------------------
(* The report and the world.                                                *)

Reported == answer = 200
Assessed(d) == Reported /\ report.decision = d

\* A remote server is allowed only when a person or the model vouched for who
\* operates it, nothing was wrong with the transport of a URL that names a host,
\* and no mode of authentication without OAuth was all that was seen (the
\* runners' vetoes, their tree and the decision together).
AllowedRemoteIsOfficial ==
    Assessed("allow") /\ Remote(env.server) =>
        /\ env.server.human = "official" \/ env.match = "official"
        /\ env.server.url = "ok" =>
              env.net.tls # "badcert" /\ ~(env.net.tls = "down" /\ env.net.scheme = "http")
        /\ evidence.auth.modes # {} => "oauth" \in evidence.auth.modes

\* A dependency that a scanner that answered names as malware, as the first
\* record of its identifiers, or that is on a malware list when a scanner
\* answered, blocks the server (ScaPipeline, malicious_deps.py).
Apart(vs, v)  == \A j \in DOMAIN vs : vs[j].ids \cap v.ids = {}
NewIn(vs, i)  == \A j \in 1..(i - 1) : vs[j].ids \cap vs[i].ids = {}
First(r, k, i) ==
    NewIn(r.vdrs[k], i) /\ \A l \in 1..(k - 1) : Apart(r.vdrs[l], r.vdrs[k][i])
NamedMalware(r) ==
    \/ /\ r.depscan = "ok"
       /\ \E k \in DOMAIN r.vdrs : \E i \in DOMAIN r.vdrs[k] : IsMalware(r.vdrs[k][i]) /\ First(r, k, i)
    \/ /\ r.osv = "json"
       /\ \E i \in DOMAIN r.found :
             /\ IsMalware(r.found[i]) /\ NewIn(r.found, i)
             /\ \A k \in DOMAIN r.vdrs : Apart(r.vdrs[k], r.found[i])
    \/ \E x \in Dependencies(r) :
          x.key[1] \in {"npm", "pypi"} /\ <<x.key[1], x.key[2]>> \in r.listed
MalwareBlocks ==
    Reported /\ env.server.repo_path /\ ScanSucceeds(env.repo) /\ NamedMalware(env.repo)
        => report.decision = "block"

\* A vulnerability of the highest severities that depscan finds reachable
\* blocks, if its record is the first of its identifiers: neither the grouping
\* across versions nor osv-scanner's records hide it (ScaPipeline,
\* vulnerability_risk.py).
ReachableHighBlocks ==
    /\ Reported /\ env.server.repo_path /\ ScanSucceeds(env.repo)
    /\ env.repo.depscan = "ok"
    /\ \E k \in DOMAIN env.repo.vdrs : \E i \in DOMAIN env.repo.vdrs[k] :
          LET v == env.repo.vdrs[k][i]
          IN  v.high /\ v.reachable /\ ~IsMalware(v) /\ First(env.repo, k, i)
    => report.decision = "block"

\* Nothing is concluded about the dependencies without a scanner that
\* answered: depscan with 0, or osv-scanner with a document (_scan_internal,
\* malicious_deps.py, vulnerability_risk.py).
DependencyVerdictHasSource ==
    Reported /\ (Scored(Malicious(evidence.sca)) \/ Scored(Vulnerability(evidence.sca)))
        => env.repo.depscan = "ok" \/ env.repo.osv = "json"

\* Every package that a lockfile lists or a manifest asks for is among the
\* dependencies, whatever versions of it the others name (_upsert).
NoPackageLost ==
    Reported /\ env.server.repo_path =>
        LET r    == env.repo
            kept == {<<x.key[1], x.key[2]>> : x \in Dependencies(r)}
        IN  /\ DirectNames(r) \cup TransitiveNames(r) \subseteq kept
            /\ {<<r.asked[i][1], r.asked[i][2]>> : i \in DOMAIN r.asked} \subseteq kept

\* A leak that the judge was shown and confirmed blocks (secrets.py,
\* secrets_risk.py).
SecretsBlock ==
    /\ Reported /\ env.server.repo_path
    /\ env.gitleaks = "leaks" /\ Answers(env.judge)
    /\ Judged(env.leaks) \cap env.leaky # {}
    => report.decision = "block"

\* Any one of the three decides alone: no mean of the other metrics, and no
\* metric that is missing from it, turns their block around (engine.py:30-39, orchestrator.py:160-175).
VetoDecides == MalwareBlocks /\ ReachableHighBlocks /\ SecretsBlock
=============================================================================
