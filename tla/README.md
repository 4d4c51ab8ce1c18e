# TLA+ models of the IDE scanner

GuardRails scans IDE extensions: an engine (`src/ide_scanner`) fetches or copies extension
packages, analyses them with its own detectors and with external providers, and decides
`allow`, `review`, `block` or `incomplete`; a command line and a terminal interface
(`src/guardrails_cli`) drive the engine and export its reports; an HTTP service runs scans as
jobs. This directory holds TLA+ modules of the parts of that system in which order,
concurrency or failure decide whether it is right, TLC runs that check them on small
instances, and TLAPS proofs of the main properties for every value of the constants.

All paths below are relative to the repository.

- [1. Inventory](#1-inventory)
- [2. The modules](#2-the-modules)
- [3. What each run checks](#3-what-each-run-checks)
- [4. What is proved](#4-what-is-proved)
- [5. Where code and documents disagree](#5-where-code-and-documents-disagree)
- [6. What is not modelled](#6-what-is-not-modelled)
- [7. Plan](#7-plan)
- [8. Running the checks](#8-running-the-checks)

## 1. Inventory

Each entry: what the component keeps, what it does, with whom it interacts, what is hard
about it, and what makes it correct. **Bold** components are modelled.

| Component | State | Operations | Hard behaviour | Correct when |
| --- | --- | --- | --- | --- |
| **Job service** `ide_scanner/service.py` | job and report files, a bounded queue, worker and runner threads, one lock | POST a job, take it, run it under a deadline, commit report and record, poll; clean up at start | a runner and its deadline settle one job; a crash between two files; writes that raise; a full queue; scans that hang | a job moves forward only and settles once; complete means the report is there; every accepted job is settled |
| **Scan pipeline** `ide_scanner/scanner.py` | the list of reports, coverage per provider, runtime receipts and observations | scan local, marketplace and remote artifacts; match feeds, advisories, sandbox evidence and registry data; finalize coverage, decide, explain, compare with a baseline | parts of one report are written by eight passes; a failed provider must survive all of them; several installations share one id | missing required analysis is never an approval; block evidence always blocks |
| **Provider processes** `ide_scanner/providers/` | a child and its process group, two pipes, kept output | spawn, read to a ceiling and a deadline, kill, reap, judge the output | the child writes, forks, closes and exits while it is read, timed and killed | truncated output is never a success; the call ends; no child is left running |
| **Private snapshots** `guardrails_cli/snapshot.py` | a temporary copy of each installation | manifest, copy, second manifest, compare, remove | the IDE updates the tree meanwhile | an accepted copy is one moment of the tree |
| **Artifact vault** `ide_scanner/artifact_store.py` | objects by hash, an SQLite catalog, staged files | stage, link, verify, flush the directory, record, unlink | concurrent calls for one hash; death and power loss in between; damaged objects | what the catalog names is there; damage is noticed and not written over |
| **Interactive session** `guardrails_cli/tui.py`, `scan_service.py` | view, report on show, its profile; scan and export threads | filter, scan, cancel a view, export, open | a thread cannot be stopped, and delivers late; exports read state that moves on | an exported file says what was scanned, how and by what |
| **Engine adapter** `guardrails_cli/scanner_adapter.py` | the engine build in the environment | verify the engine, run an operation, write a ZIP | threads save and restore one variable | reports name the build that made them; a report file is whole |
| **Policy bundles** `guardrails_cli/policy.py` | none; reads a bundle | validate, check installations, verify an artifact | approvals reached through related releases, in cycles | an artifact is allowed only if all it declares is approved |
| **Command line and Action** `guardrails_cli/main.py`, `action.yml`, `scripts/github_action_result.py` | a report file in the workspace | commands and exit codes 0, 1, 2, 3, 4, 130; scan, publish, enforce | several decisions become one number; a report of an earlier run | an incomplete scan never exits like an approval; what is published is what was scanned |
| **Risk brief** `guardrails_cli/risk_brief.py` | none | recommendation gate over a report | stale or partial evidence in an old report | no recommendation without evidence |
| **Collector**, agent `guardrails_cli/collector.py`, `ide_scanner/agent.py` | an idempotency key per snapshot | build, upload, retry | answers lost after the server accepted | a retry is not a second inventory |
| **MCP assessment** `ide_scanner/mcp/orchestrator.py`, `engine.py`, `runners/` | a cloned repository, seven extractors, twelve metrics | clone, extract concurrently, score, veto, decide | one extractor fails while others go on with the repository; metrics without evidence | a veto decides; nothing is left behind |
| **MCP extractors** `ide_scanner/mcp/extractors/` | none | ask the server, registries, a language model and local tools | every one of them may fail, be silent or answer something else | what could not be found out does not count in favour of the server |
| **MCP dependency scan** `ide_scanner/mcp/sca_pipeline.py`, `lockfiles/` | dependencies by key, records by identifier | find or generate lockfiles, parse, scan with two tools, merge, group | two scanners name one flaw differently; ranges and exact versions of one package | no package is lost, no record hides another |
| **Registries and artifact input** `ide_scanner/registry.py`, `artifact_input.py` | a partial file, a scratch file | resolve, download from one source or the next, unwrap, compare digests; pages, advisories and removals in batches | a source that fails half way; a batch that fails beside others | the bytes scanned are those that were published, or pinned; every failed source is named |
| Runtime sandbox `ide_scanner/sandbox_runner.py` | a workspace, a Bubblewrap process, events | prepare, run entrypoints, capture to a limit, collect | timeouts, truncated events, processes that stay | a run without its trace is not evidence |
| Report bundles `ide_scanner/report_bundle.py`, `guardrails_cli/report_*.py` | none | write, read, compare, attest | files that change between two reads | reading keeps the decision that was written |
| Exporters `guardrails_cli/exporters/` | a temporary file | write and replace | a crash while writing | the file is the old or the new one |
| Detectors, posture, trust, contracts, benchmarks | none | functions from text to findings and scores | none of order or failure | pattern and table tests |

How they interact. The command line and the session call `scan_service`, which copies the
installations (**snapshots**) and calls the engine through the adapter; the engine's
**pipeline** starts **provider processes** and the sandbox, and fetches through the registry
**client**; downloaded packages go to the **vault**. The **job service** runs the pipeline in
threads and shares nothing with it but the report it returns; it answers **MCP assessments** in
the request itself. What a report says is read again by the **brief**, the exit codes and the
**Action**, and by nothing that could change it. The interfaces are therefore narrow: a provider gives a status, a sandbox run gives a receipt and observations, a pipeline
gives a report or raises, and each module takes exactly that from the next one as a
nondeterministic choice. What one module promises is what the next assumes: `CompletedIsWhole`
of `BoundedProcess` is the meaning of the result `"completed"` in `Assessment`, and a scan
that hangs is a possibility in `JobService` because nothing bounds a whole scan.

## 2. The modules

| Module | Models | Notes |
| --- | --- | --- |
| `JobLifecycle` | what the service promises a client that polls | abstract specification |
| `JobService` | `service.py`: handlers, queue, workers, runners, deadline, store, clean-up | implements `JobLifecycle` |
| `JobServiceInv`, `JobServiceProofs` | inductive invariant, theorems | |
| `Assessment` | coverage, decision and public outcome of one report (`_finalize_coverage`, `classification_policy.py`, `public_outcomes.py`) | operators only |
| `ScanPipeline` | `_scan_request` of `scanner.py` from the request to the final report | uses `Assessment` |
| `ScanPipelineInv`, `ScanPipelineProofs` | inductive invariant, theorems | |
| `BoundedProcess`, `BoundedProcessProofs` | `run_bounded_process` of `providers/runtime.py` and how each provider judges its result | |
| `Snapshot` | `snapshot_installations` | |
| `ArtifactStore` | `FilesystemArtifactStore.preserve` | |
| `LocalSession`, `LocalSessionProofs` | the interactive session: views, scan threads, export threads, the build in the environment | |
| `McpMetrics` | the twelve metrics, their weighted tree, vetoes and the decision | operators only |
| `ScaPipeline` | lockfiles, dependencies, the records of the scanners and their merge | operators only |
| `McpEvidence` | what each of the seven extractors concludes from a world | uses the two above |
| `McpAssessment` | request, clone, extractors side by side, failure, cancellation, report | uses `McpEvidence` |
| `McpProofs` | theorems about the assessment, down to the dependency scan | |
| `MarketDownload` | `download_marketplace_vsix` and `scan_marketplace_extension` | |
| `PinnedArtifact` | `acquire_https_vsix`, `acquire_https_archive_member`, `scan_remote_artifact` | |
| `CustodyProofs` | theorems about the two modules above, `Snapshot` and `ArtifactStore` | extends `MCCustody`, where the four are composed |
| `RegistryIntel` | `enrich_registry`: removals, Marketplace pages, OSV, repositories | a function of a world |
| `ReleasePolicy` | `policy.py` and `policy verify`, `policy check` | a function of a bundle |
| `Verdicts` | risk brief, exit codes, the job of the Action | |
| `CollectorUpload` | `upload_collector_snapshot` over a network that loses and delays | |
| `AnswersProofs` | theorems about the four modules above | |
| `ListOps` | lists, filters and dictionaries in the forms the proofs can use | operators only |
| `Folding` | what a fold over a list is made of, for any operator | theorems, instantiated by the proof modules |
| `MC*` | instances for TLC | `MCCustody` runs `Snapshot`, `ArtifactStore`, `MarketDownload` and `PinnedArtifact` as four families of behaviours, `MCAnswers` the four that `AnswersProofs` is about: the members of a family share no state |

Definitions named in a comment as a *Variant* are the code with a plausible mistake in it
(a dropped test, a write in the other order, a missing flush). They are not part of any
specification. `PROJECT.json` pairs each property with the variant that breaks it.

### JobService

`proc` is the life of the process: `down`, three phases of `cleanup_stale_jobs`, `serving`.
`job[j]` is the job file, its `status` and `stage` as one label; `report` the set of report
files; `handler[j]` the request that drew `j`; `queue`, `worker`, `runner` the threads. A
write is the rename that makes a file visible, so a crash leaves either contents.

Each handler of the code is cut where another thread can see a difference: `do_POST` into
`Create`, `SubmitAccepted` or `SubmitRefused` and `Reject`; `_run_job` into `Take`,
`WaitEnds` or `Deadline`, and `RecordTimeout`; `execute_marketplace_job` into `Start`,
`CommitReport` and `CommitJob` (under the lock), or `ScanFails` and `RunnerFails`. The
actions ending in `Raises` are the `OSError` of a file operation at that place and go where
the code's `except` clauses send it, which in four places is nowhere: the thread dies.
`Crash` empties everything volatile. `Boot` fixes the cutoff of `cleanup_stale_jobs`: it may
fall between any two files, so `oldJobs` and `oldReports` are chosen apart, except that of the
two files of one job the one written last is not the only one past it (`InOrder`). A complete
job's report is the older of the two and may go a start before its record; `oldReports` also
remembers the reports that went so, and the properties speak of reports within the limit.

`PromptStart` says whether a runner is taken to store `running` before its deadline. The
code does not ensure it (section 5); every other property is checked and proved with it, so
that this one flaw does not hide what else may be wrong, and the violation run goes without.

### Assessment and ScanPipeline

A report holds where its artifact came from, its extension id, the key of its bytes, whether
it has something to execute, its evidence as a level (clean, review, abuse, malware), the
coverage (a result per provider, the required providers, limitations, structural gaps,
state), the decision and the public outcome. What detectors find is a choice of level; what
providers, feeds, advisories, the registry and the previous report say is part of the request.

The stages are those of `_scan_request`: `ScanLocal` (in list order, or any order in the
pool; `PoolDenied` falls back to this process, `WorkerDies` is `BrokenProcessPool`),
`AddRegistryOnly`, `RunLocal`, the marketplace artifacts one after the other (`Acquire`,
`RunMarket`, `Accept` or `Reject`), `MatchFeed`, `FetchRemote`, `MatchAdvisories`,
`ApplySandbox`, `ApplyRegistry`, `FinalizeAll`, `BuildReport`. Each is one action because the
code does it in one thread without letting any other see the list. Dictionaries by extension
id or instance id are kept as the code has them: `LastOf`, `BundleKey` and `Bears` say which
of several installations a lookup finds.

### BoundedProcess

The child and its helpers write (`Write` blocks on a full pipe), fork, close pipes and exit at
any time; the parent selects, reads chunks, keeps what the ceiling leaves room for, kills the
group at the ceiling or the deadline, waits twice and reports. `Judge` is what each of the five
callers takes for success. Output is counted in units; whether kept text decodes is a choice
limited by what was kept. A kill dooms the processes of the group unless the leader has been
reaped already, as `_terminate_process_tree` does; a doomed process may take for ever to go.

### Snapshot and ArtifactStore

Contents are numbered by the write that made them, and the pair (size, mtime) of a manifest is
that number: no two writes of one path are taken to leave the same pair. This is an assumption
about the file system that the code makes too. The copy is cut at opening and closing each
file, so that a write in between gives either version or a mixture (`Torn`). `os.walk` is given
no `onerror`, so `List` and `Check` may pass over a file that is there (`hidden`).

In the vault a content stands for its hash. `Link` is `os.link` and fails when there is an
object; `Look` makes the shard, the directory of all hashes with one first byte; `Flush` is the
`fsync` of that shard, which keeps the entries in it and not the shard's own entry in `sha256`.
`Settle` is the system writing that entry back; `LosePower` takes any objects whose entry nobody
flushed, and any shard that has not settled, with all that was flushed into it. History variables
(`asOf`, `hidden`; `hasty`, `swept`, `tainted`, and `found`, which says who recorded hastily) remember
what the properties speak of and constrain nothing.

### LocalSession

`Begin`, `Deliver` and `Fail` are `_begin_scan`, `_scan_complete` and `_scan_failed`. A scan
begun while another runs does not stop it: Textual marks the first worker as cancelled, and a
thread that has started goes on and delivers (`Drop` is one that had not). A scan thread is cut
where it touches the environment variable `IDE_SCANNER_BUILD_SHA`: `SaveEnv`, `SetEnv`,
`Report` (which reads it), `Restore`, `Display` (which reads it again). An export thread reads
the application's fields in `Name` and again in `Read`; a ZIP reads the variable in `Write`.
Second is the unit of `now`, since a report's id, and so the name of its file, is its second.
`overtaken`, `mixed` and `crossed` are history: which scans had a later one begin beside them,
held the variable together with another, and which exports had a scan begin or deliver beside
them. The properties say what holds without that, thread by thread, in any session.

### McpMetrics, ScaPipeline, McpEvidence, McpAssessment

An environment `env` is a server with its world: what was said of it, how its host, GitHub, the
registries, the language model and the local tools answer, and what its repository holds.
`McpAssessment` is the only module with state: `CloneBegins`, how it ends, an extractor that
starts, ends, raises or is cancelled, its child process in `live`, the removal of the clone when
the first one raises while the other six still read it (`unwinding`), the answer. What an
extractor concludes is a function of `env` and of what it picks at random; `ScaPipeline` is the
largest of them, from lockfiles to grouped vulnerabilities. The order in which the code visits a
hashed set is a parameter (`Order`), and a mean is kept as a fraction, so that the threshold of
0.60 is exact. Prompts, scraped pages and texts are answers of a few kinds.

### MarketDownload and PinnedArtifact

A chunk of a package knows the response it came from and its place in it, so that a mixture of
two responses, a response that ended early and the bytes of another version are all different
sequences. `AskMarket` and `AskOpenVsx` take the page of a registry; `Open` truncates the file, as `"wb"`
does; `Break` leaves what was written for the next candidate to overwrite; `Downloaded` fixes
the registry of the bytes; then layers of gzip come off, digests are compared, the vault
records, the scan hashes its own copy. Every error path is an action, with what it removes. In
`PinnedArtifact` bytes are known by what they are, and a pin by the bytes it is a digest of.

### RegistryIntel, ReleasePolicy, Verdicts, CollectorUpload

`RegistryIntel` maps a world (installations, pages, removals, advisories, and how each call ends)
to findings and errors: keys are deduplicated across installations and asked in batches, and a
failed Marketplace batch is repeated page by page. A call answers, fails (`intel.fails`), or is
answered with the body of an HTTP error (`intel.empty`): `_http_get_text` and `_http_post_json` ask
again with `curl -s`, which does not fail on a status, and the callers find in that body no row of
the removed list, no page, no advisory and no date of a repository, and record no error. `ReleasePolicy` has the approval of related
releases as the code walks it, with the path it came by, and beside it `ReviewFree`, the
greatest set of releases closed under their relationships, as its reference. `Verdicts` has the
three readers of a report, each with its own table, and the steps of the Action, in which a
report file of an earlier run may lie at the path. `CollectorUpload` is a command with retries,
two kinds of message on their way, and a server that applies a key once; the server is external.

## 3. What each run checks

| Run | Instance | Distinct states | Shows |
| --- | --- | --- | --- |
| `service_crash` | 3 jobs, 2 workers, queue of 1, two crashes, two starts that find files past the limit | 67,610 (up to symmetry) | records and reports agree, open jobs have an owner, the inductive invariant (types included) holds, `JobLifecycle` is implemented |
| `service_faults` | 2 jobs, 2 workers, two crashes, 2 failing file operations, two starts that find files past the limit | 50,495 (up to symmetry) | a stored outcome is final even then |
| `service_live` | 3 jobs, 1 worker, scans that may hang | 4,187 | every accepted job settles |
| `scan_request` | 11 requests of two reports, four with `--runtime`; among them two installations of one id and two copies of one VSIX | 2,906,145 | nothing uncovered is approved, block evidence blocks, approvals with `--runtime` rest on a traced run of these bytes, no pass forgets; the proofs' invariant, types included |
| `process_call` | a child and a helper, chunk 2, ceiling 3, pipe capacity 2, 4 units to each pipe | 386,863 | only whole output completes; the call ends; no child runs on |
| `custody` | one snapshot of 2 files with 3 writes; 3 calls of `preserve`, 2 contents in one shard, a loss of power, a damage; a download of 2 versions in up to 3 chunks from 2 registries with a limit of 2 chunks; every combination of pin, archive and served bytes | 778,236 (up to symmetry) | copies are of one moment; catalog and damage; one response per file; matched means published; pins are of the result; nothing is left on disk |
| `session` | 2 scans, 2 exports as HTML or ZIP, 2 profiles, 2 seconds, with and without a configured build | 5,094,897 (up to symmetry) | what files, receipts and the environment are good for |
| `mcp` | a quiet server and world of which one part is varied: operator, GitHub, transport, authentication, tools, leaks, advisories, repository | 529,614 | nothing is left behind; a veto decides; an official server was checked; no package is lost; no verdict without a source |
| `answers` | worlds of two installations and four packages, with calls that fail or get an error body; bundles of three releases, two of the same bytes; reports of one extension, and plain ones of two; one upload of three attempts | 188,436 | malware is reported, what a source holds is reported or its failure named; approval is the greatest closed set; brief, scan and Action agree; one snapshot is applied once |
| `service_late`, `scan_evidence`, `scan_name` | | | violations: section 5 |

Deadlock is not checked: a service that crashed need not be started again, a request ends, a
call returns, and the bounds stop the environment.

**Bounds.** Two workers and three jobs with a queue of one are the fewest with which both
workers are busy, one job waits and one is refused because the queue is full, so that all paths
of `do_POST` occur. With two crashes the clean-up itself may die in any of its phases and a
second one meets what it left, and with two starts that find old files a cutoff falls between the
files of a job and a later one takes the rest. `MaxFaults = 2` lets the second fault fall in the handler of the
first. In the pipeline two reports are enough for each hazard, which all are about one report
being taken for another (shared id, shared bytes, last of a list) or about passes over one
report. The sizes of `process_call` make a chunk cross the ceiling, leave a unit in a full pipe
and fit a whole output under the ceiling. Three calls of `preserve` let one link, one find and
one begin later; two contents keep an unflushed and a flushed object apart, and in one shard both go with it. A session's faults
each need one scan beside another, or a scan beside an export; the second export lets one file
replace another and one receipt follow another.
Three chunks with a limit of two let a download end early, end whole and pass the limit. The
server of `mcp` differs from a quiet one in one part at a time because metrics are computed from
disjoint parts of the evidence and meet only in the mean and the highest veto; where two parts
do meet, in the repository and its scanners, the worlds are products. Two batches of OSV and two
installations let one fail or come back empty beside one that answers, and let them share a package; three releases give cycles with a tail.
The theorems of section 4 have no such bounds.

**Fairness.** `service_live` assumes that threads which can run do run, that a deadline comes
(`done.wait(timeout)` returns), and nothing of the scan, of crashes or of restarts: the scan's
own steps have no fairness, so hanging is among the behaviours checked. `process_call` assumes
that the parent runs and that time passes, and nothing at all of the child, not even that a
killed process goes. No liveness is claimed for `mcp`: the calls of the language model have no
timeout, so an assessment may last for ever. Both assumptions are what the interpreter and the operating system grant.

## 4. What is proved

TLAPS checks every theorem for any values of the constants that satisfy the named assumptions:
`ConstantsOK`, `ProvidersOK`, `RequestsOK`, `ProcessOK`, `SnapshotOK`, `SessionOK`, `MarketOK`,
`NoneOK`, `ReleasesOK` (finitely many releases), `DeclaredOK`, `RecordsOK`, `BatchOK` (a batch
is not empty), and two that say of what type an input is: `WorldsOK` of `McpAssessment` (lockfiles,
manifests and scanner results are lists, of records with their fields) and `VersionsOK`. TLC evaluates
all of them for the worlds of the runs, and `WorldsOK` of `MCAnswers` says that its inputs have the
types that the theorems of `AnswersProofs` are about.

**JobServiceProofs.** `TypeCorrect` needs nothing. The safety properties are not inductive:
that a complete job has its report depends on who may still write it. `Control` says what a
job's record can be given who holds it (request, queue, runner, worker); `Publication` adds
who may have a report, and that a complete job has one or had one that passed the limit;
`Ownership` adds that an
open job has somebody who will settle it and that abandoned runners work for settled jobs.

- from `Control`, assuming `PromptStart`: `SettledIsFinal`, with any crashes, faults and expiries;
- from `Publication`, assuming `PromptStart`, with any crashes, faults and expiries:
  `CompleteJobsHaveReports` and `ImplementsLifecycle`, the refinement of `JobLifecycle`;
- from `Ownership`, assuming `PromptStart` and `MaxFaults = 0`: `PendingJobsHaveOwners`,
  `AbandonedJobsAreSettled`, `FailedJobsHaveNoReport`, and `RunningNeverExceedsWorkers`, by an
  injection from running jobs to the workers that wait on them.

Both assumptions are necessary: without `PromptStart` the run `service_late` breaks finality;
a failing second write leaves a report beside a failed job.

**ScanPipelineProofs.** `IInv` is `TypeOK` and, for every slot, `SlotOK`: where a report comes
from (`OriginOK`), that the scanner's own providers stay required (`BuiltInRequired`), that a
receipt names the bytes of its report (`ReceiptOK`), that sandbox coverage rests on a trace
(`SandboxOK`), and that decision and outcome are those of the report they stand in
(`AssessedOK`). The parts are stated by stage, because each pass may rely on what the earlier
ones have established and the final properties speak of the last stage only. From it:
`ApprovalsAreCovered`, `RuntimeApprovalsAreCovered`, `BlockAlwaysHolds`; and step by step
`NothingIsForgotten`. They hold for any number of reports, any requests, any providers.

**BoundedProcessProofs.** `Conserved` is the core: until something is dropped or times out,
what was written is in the pipe or kept, and a pipe that was read to its end stays empty
because nobody holds it any more. With `NotStarted`, `Looping`, `Settled` and `Fates` it is
inductive and gives `CompletedProvidersAreWhole`, `KilledTreesStop`, `ChildrenAreSettled`.

**CustodyProofs.** *Snapshots:* `PathOK` follows one path through one scan: `Held` (what the first
manifest has is what the tree had when that manifest was complete, or is gone for good), `Missed`
(what it has not is not copied),
`Copied` (what was copied is what the manifest has, or that is gone for good) and `Agrees`.
Contents are never made twice, so a second manifest that equals the first shows that nothing
was gone in between, and pins the copy. This gives `SnapshotsAreInstant`.

*Vault:* `Anchored` (a flushed object is there; a call past its link has one, flushed if the call
linked it; what is in the catalog is flushed, `hasty` or `swept`) and `Stopped` (a call that began beside a damaged object meets it at a comparison or dies
with the power) give `CataloguedIsKept` and `DamageStops`; `EvidenceStays` follows from the steps
and the types.

*Market:* `Reading`: while a response is read, the file is the beginning of that response and of
nothing else, because it is emptied before each candidate. `Finished`: after the download it is the
beginning of the response from the registry that the label names. With `Unreported` (no report
before the end) they are inductive and give `OneSourceOnly` and `ProvenanceIsTrue`, for any versions, any
package size and any cap.

*Pins:* `Fetched` (what the download holds at each point) and `Directory` (there only
while a member is asked for) give `PinnedBytesOnly`. *All four:* a behaviour of `Custody` is one of each
(`CustodyIsEach`), so `CustodyTypes` and `CustodyLeavesNothing` are about them together; the second
rests on both and, for a download by name, on `Kept`.

**LocalSessionProofs.** `ScreenOK` ties the profile label to the last scan begun, alive or on
show; `ExportOK` says that an export nothing crossed still reads what it was asked to export;
`EnvOK` that whoever holds the variable alone finds in it what it put there. They give one
theorem for each property of the run `session`, and three more: types, that the progress view is
left, and what a scan that held the variable alone reports.

**McpProofs.** `Concluded` says that what an extractor gave is what it concludes from the world it was
started in, `Answering` that a report is of seven extractors that are done, `Tidy` where the clone and
the child processes are. With the types they are inductive and give `TypeCorrect` and `CleansUp`. The
other properties speak of a report, so that with the invariant they are about functions of a world:

- a module passes on the worst veto of its metrics (`VetoOfModule`), so a failure of a leaf blocks
  (`FailureBlocks`) and what is allowed has no veto anywhere (`AllowedHasNoVeto`), whatever the
  means are. This gives `AllowedIsVouchedFor` and `VerdictsHaveSources`;
- `NothingIsLost`: `UpsertKeeps`, that no name leaves the dependencies when an exact version replaces
  the ranges of its name, needs `Orderly`: the three dictionaries of the code agree. Then by
  lockfile, by file, by manifest, for lists of any length;
- `VetoesDecide` needs that a record is never lost between a scanner and the metric. A slot of the map
  takes a record whose identifiers are new to it and keeps what it has (`AddKeeps`, `PutAllEnters`);
  merging a second scanner's map loses nothing (`MergeKeeps`); a group in which records of one flaw
  meet under any of their identifiers stays as grave as the gravest of them (`TakenIs`, `GroupKeeps`);
  `ScaFinds` puts these together. With `FailureBlocks`, and `LeakIsBlocked` for secrets, a report blocks.

**AnswersProofs.** `ApprovalsAreClosed`: the approval that the code finds by following one path at a
time, approving a cycle where it closes, is membership in the greatest set closed under the declared
relationships. The recursion has a solution on paths without repetition, and a release on which it and
the greatest set disagreed would have a longest path to it; one step further they agree, and so they do
there. `AllowedBytesAreClosed` follows. `ReadersAlwaysAgree` compares the three tables of decisions,
`PassedJobsAreOfTheirScan` rests on what each exit code stands for (`Coded`). `SnapshotsAreAppliedOnce`
rests on `Keyed` (every request, answer and application carries the key of the command that sent it)
and `Earned` (an answer exists only for what was applied). `FailedSourcesAreNamed` and
`MaliciousDependenciesAreReported`: the keys of all manifests are in one list (`KeysAre`), each question
of it is in one batch (`InBatch`), so the records of a key are found when its own batch is answered
(`VulnsOf`), and where one is missing that batch failed or was empty (`MissingVulns`).

**Folding** is how these proofs speak of the lists that the code loops over. The library's induction
theorems take an operator, which the provers cannot instantiate; induction here is over sets of
numbers (`Induct`), and this module has the operator of a fold as its constant, so that an
instance of it says of one loop that its result is reached by a sequence of steps (`Steps`), that a
filter selects (`Selects`) and what a concatenation holds (`FlatElements`). For the same reason
`ListOps` filters with a fold, and `Approved` is a recursive function.

**Only model-checked:** the liveness properties `AcceptedSettles` and `CallReturns`, which are
beyond the proof system. Every other property of a passing run is a theorem or a part of one.
Conversely `FailureHasNoReport`, `RunningBounded`, `KillTakesTree`, `NeverReplaced`,
`ProgressHasAnEnd` and `LoneScansNameTheEngine` are proved and not in a run, since the theorem covers
every instance.

## 5. Where code and documents disagree

Each has a run in which TLC finds the disagreement.

| Run | What happens | Against |
| --- | --- | --- |
| `service_late` | a runner that gets to its first write after its deadline stores `running` over the timeout and completes the job | "A late runner must therefore lose the terminal-state race", `src/ide_scanner/service.py:98` |
| `scan_evidence` | of two installations of one extension, what the sandbox saw of the first is charged to the second and the first is allowed | "per-installation runtime evidence", `scanner.py:1208` |
| `scan_name` | a report for which nothing was scanned ends complete and allowed | "Missing required analysis produces `INCOMPLETE`, never `ALLOW`", `README.md:128` |

Seen while modelling, in the models, and without a run of their own.

Service and provider processes:

- after a deadline the worker starts another scan beside the abandoned one
  (`service.py:249`, against "at most ``max_workers`` scans run concurrently", line 197);
- the report of a complete job may be removed a start before its record, when the cutoff falls
  between the two files (`service.py:265`; each has an age of its own): `CompleteHasReport` and `JobLifecycle` speak of reports within the limit;
- a worker whose timeout record cannot be stored dies and nothing starts another
  (`service.py:253`), as `RecordTimeoutRaises` does;
- a helper that holds a pipe when the child has exited survives the deadline
  (`providers/runtime.py:252`, against line 100): `_terminate_process_tree` returns at once.

Pipeline:

- a threat feed hit by id marks the last of several installations (`scanner.py:3986`), as
  `MarkById` does;
- a killed pool worker ends the whole request (`scanner.py:1083`), as `WorkerDies` does;
- the baseline may change a decision after the outcome was explained (`scanner.py:4499`), which
  is why `AssessedOK` ties the outcome to the decision without the baseline;
- a remote artifact is not run with `--runtime` (`scanner.py:436`): `RuntimeIsCovered` leaves it out.

Vault and session:

- a snapshot leaves out, without a word, what lies in a subdirectory that cannot be listed
  (`snapshot.py:38`, no `onerror`): `SnapshotIsInstant` allows it (`hidden`);
- a call that finds another's object in the vault records it without flushing it
  (`artifact_store.py:129`), and nobody flushes the entry of a new shard (`artifact_store.py:126`,
  140): `CatalogHasObject` leaves such records (`hasty`, `swept`) out;
- a ZIP of a scan that a later one overtook states the later one's profile (`tui.py:689`), and
  an export that a delivery crosses has the name of one report and the contents of another:
  `ExportsAreTrue` leaves both out, and without its conditions TLC finds each (the first takes
  three scans and one export, one scan more than the run has: there the theorem speaks);
- a scan beside another may report the checkout's build, or leave the variable set for good
  (`scanner_adapter.py:165`); and with a configured build the ZIP states that one while the raw
  report states the engine's (`scanner_adapter.py:226`), as `Contents` does;
- a ZIP is verified after it has replaced the file of its name (`tui.py:837`), as `Verify` does.

Downloads and registries:

- a request for one version whose Marketplace lookup failed, or whose page is of a later version,
  uses the asset URL of the page it got (`registry.py:203`, against the comment at 215); the scan
  rejects the report afterwards (`scanner.py:1520`), but the vault has recorded the bytes under
  the requested version by then (`scanner.py:1421`);
- the partial file stays after `http.client.IncompleteRead`, a failing `os.replace` and a failed
  decompression (`registry.py:269`, 499): `CallLeavesNothing` names these causes; a response that
  is closed early without an error counts as complete;
- a package in two layers of gzip is compared one layer out and shown as not matched;
- without a version, a fall back to another one at Open VSX is labelled with the Marketplace's;
- after any HTTP error `_http_get_text` and `_http_post_json` ask again with `curl -s` and take the
  error body for the answer (`registry.py:1128`): a 404 of Open VSX counts as found, a removed list
  that is refused has no rows (line 553), an error of OSV has no advisories (line 650) and one of
  GitHub no dates (line 798), and one of the Marketplace makes every extension of the batch "not
  found" (line 718), all without an error. `FailedSourceIsNamed` allows it (`intel.empty`). An
  answer that is JSON but not an object ends the enrichment where its type is not looked at, which
  is not modelled;
- of two installations of one extension only the last one's dependencies are looked up
  (`registry.py:629`), which is the condition in `MaliciousDependencyReported`;
- `artifact_input.py:66` closes a descriptor that `os.fdopen` has already closed; another thread
  may have been given the number meanwhile.

MCP:

- the OAuth metadata of a server is never found: the search is called with names of credentials
  that it does not take (`extractors/auth_modes.py:158`, `web_research.py:15`, against the docstring
  at `auth_modes.py:51`), so PKCE and registration always score as unknown;
- a failed metric leaves the mean (`mcp/engine.py:35`) and "incomplete" is out of reach, since
  hosting and opacity always score; a model that fails on metadata or source scores 0, clean;
- a hit in the Datadog lists is lost when both scanners fail; `npx name@version` is looked up under
  that whole name, so nothing is found; a malware record that shares an identifier with an earlier
  plain record is dropped, which is the condition `First` (or `NewIn` and `Apart`) in
  `MalwareBlocks` and `ReachableHighBlocks`; a package that only a manifest names as direct can be rated transitive;
- gitleaks is not killed on cancellation, so `NothingLeftBehind` speaks of the dependency scanners,
  and of a scanner only the child that the program started: `sca_support.py:104` kills no helper of it,
  and a clone may stay torn where a tool still writes into it; findings beyond the judge's token
  budget count as none.

Policy, Action and collector:

- a decision in upper case passes validation and never approves a related release;
- after a failed scan a report of an earlier run may be published, though the job fails;
  an empty report exits with 0, and a missing `status` counts as complete
  (`github_action_result.py:23`);
- a timeout while the answer is read ends an upload with no retry (`collector.py:82`), and each run
  of `collect` has a key of its own, since the snapshot holds its time.

## 6. What is not modelled

- **Detectors, module and value flow, posture, trust tiers, calibration**: functions of text. A
  model would restate their tables; tests say more. The pipeline takes the level they reach.
- **Runtime sandbox, report bundles and their reader**: planned, section 7. `ScanPipeline` takes a
  sandbox run as a receipt with observations or a failure.
- **Bubblewrap, registries, feeds, SQLite, the HTTP protocol, git, the language model, the
  collector's server**: external. Where a module needs one it takes any result the code
  distinguishes.
- **Formatting, help, tables, HTML, SARIF, the picker, search as one types, vendored acorn,
  benchmarks, release scripts, `agent.py`** (one upload, no retry), capability policies.
- **Inside the modelled parts**: authentication of the service, the 202 body that is serialised
  from a dictionary in use (`service.py:360`), time stamps of the catalog (`artifact_store.py:143`)
  and its search, size and count limits of snapshots (one refusal), an analyzer that exits with 0
  and prints nothing (`static_analysis.py:126`), evidence below the four levels, scores, the
  extractor cache, which no caller sets up. `PROJECT.json` says so at each component.

## 7. Plan

Done: the job service, the pipeline, the provider processes, snapshots and the vault, the session
with the engine adapter; then MCP assessments, downloads and pins, registry intelligence, policy
bundles, verdicts and the collector; every safety property of the runs as a theorem.

Next:

1. `SandboxRun`: the bounded capture and what a capture that stops early may claim
   (`sandbox_runner.py:791`).
2. `ReportBundle`: reading what was written, comparison, attestation of a file that changes.
3. The picker of installed extensions, and capability policies.

## 8. Running the checks

    tlc -workers 2 -config MCJobService_crash.cfg MCJobService.tla
    tlapm JobServiceProofs.tla

The name of a `.cfg` begins with the name of its module. The violation runs are expected to
end with a counterexample.
