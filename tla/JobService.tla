----------------------------- MODULE JobService -----------------------------
(***************************************************************************)
(* The HTTP job service of ide_scanner/service.py: request handler threads *)
(* that create and enqueue jobs, a bounded queue, a fixed set of worker    *)
(* threads, one runner thread per dequeued job, a deadline per job, the    *)
(* JobStore files under one lock, and the clean-up that runs at start.     *)
(*                                                                         *)
(* A job record is its file; its status and stage fields are one label     *)
(* here ("timeout" is status failed, stage timeout).  A file write is the  *)
(* rename that makes it visible, so a crash leaves the old or the new      *)
(* contents.                                                               *)
(***************************************************************************)
EXTENDS Integers, Sequences, FiniteSets

CONSTANTS
    Jobs,         \* the ids the handlers draw (uuid4: never drawn twice)
    Workers,      \* the threads of the pool
    MaxQueue,     \* capacity of the queue
    PromptStart,  \* TRUE: a runner stores "running" before its deadline
    MaxCrashes,   \* bound: process crashes
    MaxFaults,    \* bound: file operations that raise OSError
    MaxAges,      \* bound: starts that find files past the age limit
    Idle, Dead    \* a worker waiting for a job, a worker that was killed

ASSUME ConstantsOK ==
    /\ IsFiniteSet(Workers)
    /\ MaxQueue \in Nat \ {0}
    /\ PromptStart \in BOOLEAN
    /\ MaxCrashes \in Nat /\ MaxFaults \in Nat /\ MaxAges \in Nat
    /\ Idle \notin Jobs /\ Dead \notin Jobs /\ Idle # Dead

VARIABLES
    proc,        \* phase of the process
    job,         \* job[j]: label of the job file, "none" when there is none
    report,      \* the jobs with a report file
    handler,     \* handler[j]: the POST request that drew id j
    queue,       \* jobs waiting for a worker
    worker,      \* worker[w]: the job the worker waits on, Idle or Dead
    expired,     \* workers whose wait ran out, failure not yet stored
    runner,      \* runner[j]: the thread that scans j
    oldJobs,     \* job files past the age limit
    oldReports,  \* reports past the age limit, removed or still there
    crashes, faults, ages

vars == <<proc, job, report, handler, queue, worker, expired, runner,
          oldJobs, oldReports, crashes, faults, ages>>

files   == <<job, report, oldJobs, oldReports>>
threads == <<handler, queue, worker, expired, runner>>
bounds  == <<crashes, faults, ages>>

Phase    == {"down", "expireJobs", "expireReports", "failStale", "serving"}
Failed   == {"error", "timeout", "rejected", "interrupted"}
Pending  == {"queued", "running"}
Label    == {"none", "complete"} \cup Pending \cup Failed
Request  == {"idle", "created", "refused", "accepted", "rejected", "lost"}
Thread   == {"none", "start", "scanning", "commit", "failing", "done"}
Active   == {"start", "scanning", "commit", "failing"}

TypeOK ==
    /\ proc \in Phase
    /\ job \in [Jobs -> Label]
    /\ report \subseteq Jobs
    /\ handler \in [Jobs -> Request]
    /\ queue \in Seq(Jobs)
    /\ worker \in [Workers -> Jobs \cup {Idle, Dead}]
    /\ expired \subseteq Workers
    /\ runner \in [Jobs -> Thread]
    /\ oldJobs \subseteq Jobs /\ oldReports \subseteq Jobs
    /\ crashes \in Nat /\ faults \in Nat /\ ages \in Nat

Init ==
    /\ proc = "down"
    /\ job = [j \in Jobs |-> "none"]
    /\ report = {}
    /\ handler = [j \in Jobs |-> "idle"]
    /\ queue = <<>>
    /\ worker = [w \in Workers |-> Idle]
    /\ expired = {}
    /\ runner = [j \in Jobs |-> "none"]
    /\ oldJobs = {} /\ oldReports = {}
    /\ crashes = 0 /\ faults = 0 /\ ages = 0

-----------------------------------------------------------------------------
(* JobStore.  Only try_complete holds the lock across two writes.           *)

LockFree == \A j \in Jobs : runner[j] # "commit"

WriteJob(j, label) ==
    /\ job' = [job EXCEPT ![j] = label]
    /\ oldJobs' = oldJobs \ {j}

\* Variant: try_fail without its test of the stored status.
TryFailAlways(j, label) == WriteJob(j, label)

\* try_fail: a terminal record is left as it is.
TryFail(j, label) ==
    IF job[j] \in Pending THEN WriteJob(j, label) ELSE UNCHANGED <<job, oldJobs>>

\* A file operation raises OSError and the file keeps its contents.
Fault ==
    /\ faults < MaxFaults
    /\ faults' = faults + 1
    /\ UNCHANGED <<crashes, ages>>

-----------------------------------------------------------------------------
(* do_POST: create the record, offer it to the pool, store the rejection.   *)

Serving == proc = "serving" /\ UNCHANGED proc

Handle(j, from, to) ==
    /\ Serving
    /\ handler[j] = from
    /\ handler' = [handler EXCEPT ![j] = to]

Create(j) ==
    /\ Handle(j, "idle", "created")
    /\ LockFree
    /\ WriteJob(j, "queued")
    /\ UNCHANGED <<report, oldReports, queue, worker, expired, runner, bounds>>

CreateRaises(j) ==
    /\ Handle(j, "idle", "lost")
    /\ LockFree
    /\ Fault
    /\ UNCHANGED <<files, queue, worker, expired, runner>>

SubmitAccepted(j) ==
    /\ Handle(j, "created", "accepted")
    /\ Len(queue) < MaxQueue
    /\ queue' = Append(queue, j)
    /\ UNCHANGED <<files, worker, expired, runner, bounds>>

SubmitRefused(j) ==
    /\ Handle(j, "created", "refused")
    /\ Len(queue) >= MaxQueue
    /\ UNCHANGED <<files, queue, worker, expired, runner, bounds>>

\* Variant: the rejection is answered but never stored.
RejectUnstored(j) ==
    /\ Handle(j, "refused", "rejected")
    /\ UNCHANGED <<files, queue, worker, expired, runner, bounds>>

Reject(j) ==
    /\ Handle(j, "refused", "rejected")
    /\ LockFree
    /\ WriteJob(j, "rejected")
    /\ UNCHANGED <<report, oldReports, queue, worker, expired, runner, bounds>>

RejectRaises(j) ==
    /\ Handle(j, "refused", "lost")
    /\ LockFree
    /\ Fault
    /\ UNCHANGED <<files, queue, worker, expired, runner>>

-----------------------------------------------------------------------------
(* A pool worker takes a job, starts its runner and waits for it.           *)

Take(w) ==
    /\ Serving
    /\ worker[w] = Idle
    /\ queue # <<>>
    /\ queue' = Tail(queue)
    /\ worker' = [worker EXCEPT ![w] = Head(queue)]
    /\ runner' = [runner EXCEPT ![Head(queue)] = "start"]
    /\ UNCHANGED <<files, handler, expired, bounds>>

Waits(w) == worker[w] \in Jobs /\ w \notin expired

WaitEnds(w) ==
    /\ Serving
    /\ Waits(w)
    /\ runner[worker[w]] = "done"
    /\ worker' = [worker EXCEPT ![w] = Idle]
    /\ UNCHANGED <<files, handler, queue, expired, runner, bounds>>

Deadline(w) ==
    /\ Serving
    /\ Waits(w)
    /\ runner[worker[w]] # "done"
    /\ PromptStart => runner[worker[w]] # "start"
    /\ expired' = expired \cup {w}
    /\ UNCHANGED <<files, handler, queue, worker, runner, bounds>>

\* Variant: the worker moves on without storing the failure.
RecordTimeoutUnstored(w) ==
    /\ Serving
    /\ w \in expired
    /\ worker' = [worker EXCEPT ![w] = Idle]
    /\ expired' = expired \ {w}
    /\ UNCHANGED <<files, handler, queue, runner, bounds>>

RecordTimeout(w) ==
    /\ Serving
    /\ w \in expired
    /\ LockFree
    /\ TryFail(worker[w], "timeout")
    /\ worker' = [worker EXCEPT ![w] = Idle]
    /\ expired' = expired \ {w}
    /\ UNCHANGED <<report, oldReports, handler, queue, runner, bounds>>

\* Nothing in _worker catches the exception: the thread ends.
RecordTimeoutRaises(w) ==
    /\ Serving
    /\ w \in expired
    /\ LockFree
    /\ job[worker[w]] \in Pending
    /\ Fault
    /\ worker' = [worker EXCEPT ![w] = Dead]
    /\ expired' = expired \ {w}
    /\ UNCHANGED <<files, handler, queue, runner>>

-----------------------------------------------------------------------------
(* A runner: execute_marketplace_job inside _invoke.  It keeps going after  *)
(* its worker gave up.                                                      *)

Run(j, from, to) ==
    /\ Serving
    /\ runner[j] = from
    /\ runner' = [runner EXCEPT ![j] = to]
    /\ UNCHANGED <<handler, queue, worker, expired>>

\* The first write does not look at what is stored.
Start(j) ==
    /\ Run(j, "start", "scanning")
    /\ LockFree
    /\ WriteJob(j, "running")
    /\ UNCHANGED <<report, oldReports, bounds>>

\* The first write is outside the try block: the thread just ends.
StartRaises(j) ==
    /\ Run(j, "start", "done")
    /\ LockFree
    /\ Fault
    /\ UNCHANGED files

ScanFails(j) ==
    /\ Run(j, "scanning", "failing")
    /\ UNCHANGED <<files, bounds>>

\* Variant: try_complete stores the record before the report.
CommitJobFirst(j) ==
    /\ Run(j, "scanning", "commit")
    /\ LockFree
    /\ job[j] = "running"
    /\ WriteJob(j, "complete")
    /\ UNCHANGED <<report, oldReports, bounds>>

\* try_complete, job still owned: lock taken, report visible, job not yet.
CommitReport(j) ==
    /\ Run(j, "scanning", "commit")
    /\ LockFree
    /\ job[j] = "running"
    /\ report' = report \cup {j}
    /\ oldReports' = oldReports \ {j}
    /\ UNCHANGED <<job, oldJobs, bounds>>

\* try_complete, terminal already: the result is dropped.
CommitLate(j) ==
    /\ Run(j, "scanning", "done")
    /\ LockFree
    /\ job[j] # "running"
    /\ UNCHANGED <<files, bounds>>

CommitJob(j) ==
    /\ Run(j, "commit", "done")
    /\ WriteJob(j, "complete")
    /\ UNCHANGED <<report, oldReports, bounds>>

\* Either write of try_complete raises; the except clause goes to try_fail.
CommitRaises(j) ==
    /\ \/ Run(j, "scanning", "failing") /\ LockFree /\ job[j] = "running"
       \/ Run(j, "commit", "failing")
    /\ Fault
    /\ UNCHANGED files

\* Variant: the except clause swallows the failure.
RunnerFailsUnstored(j) ==
    /\ Run(j, "failing", "done")
    /\ UNCHANGED <<files, bounds>>

RunnerFails(j) ==
    /\ Run(j, "failing", "done")
    /\ LockFree
    /\ TryFail(j, "error")
    /\ UNCHANGED <<report, oldReports, bounds>>

RunnerFailsRaises(j) ==
    /\ Run(j, "failing", "done")
    /\ LockFree
    /\ job[j] \in Pending
    /\ Fault
    /\ UNCHANGED files

-----------------------------------------------------------------------------
(* The process stops at any point; files stay, threads and queue do not.    *)

Crash ==
    /\ proc # "down"
    /\ crashes < MaxCrashes
    /\ crashes' = crashes + 1
    /\ proc' = "down"
    /\ handler' = [j \in Jobs |->
                     IF handler[j] \in {"created", "refused"} THEN "lost" ELSE handler[j]]
    /\ queue' = <<>>
    /\ worker' = [w \in Workers |-> Idle]
    /\ expired' = {}
    /\ runner' = [j \in Jobs |-> "none"]
    /\ UNCHANGED <<files, faults, ages>>

-----------------------------------------------------------------------------
(* serve(): clean up job files, then report files, then stale jobs.         *)

CleanupTo(from, to) == proc = from /\ proc' = to /\ UNCHANGED <<files, threads, bounds>>

\* Of the two files of a job the cutoff may take the one written first alone:
\* try_complete writes the report after "running" and before "complete".
InOrder(J, R) ==
    \A j \in report :
        IF job[j] = "running" THEN j \in R => j \in J ELSE j \in J => j \in R

\* cleanup_stale_jobs fixes its cutoff; each file is measured by its own age.
Boot ==
    /\ proc = "down" /\ proc' = "expireJobs"
    /\ \E J \in SUBSET {j \in Jobs : job[j] # "none"}, R \in SUBSET (report \cup oldReports) :
        /\ oldJobs \subseteq J /\ oldReports \subseteq R /\ InOrder(J, R)
        /\ oldJobs' = J /\ oldReports' = R
        /\ \/ J = oldJobs /\ R = oldReports /\ UNCHANGED ages
           \/ ages < MaxAges /\ ages' = ages + 1
    /\ UNCHANGED <<job, report, threads, crashes, faults>>

ExpireJob(j) ==
    /\ proc = "expireJobs"
    /\ j \in oldJobs
    /\ job' = [job EXCEPT ![j] = "none"]
    /\ oldJobs' = oldJobs \ {j}
    /\ UNCHANGED <<proc, report, oldReports, threads, bounds>>

ExpireReport(j) ==
    /\ proc = "expireReports"
    /\ j \in oldReports \cap report
    /\ report' = report \ {j}
    /\ UNCHANGED <<proc, job, oldJobs, oldReports, threads, bounds>>

\* Unlinks that raise are skipped: those files stay until the next start.
ExpireRaises ==
    /\ \/ proc = "expireJobs" /\ oldJobs # {} /\ proc' = "expireReports"
       \/ proc = "expireReports" /\ oldReports \cap report # {} /\ proc' = "failStale"
    /\ Fault
    /\ UNCHANGED <<files, threads>>

JobsExpired    == oldJobs = {} /\ CleanupTo("expireJobs", "expireReports")
ReportsExpired == oldReports \cap report = {} /\ CleanupTo("expireReports", "failStale")

FailStale(j) ==
    /\ proc = "failStale"
    /\ job[j] \in Pending
    /\ WriteJob(j, "interrupted")
    /\ UNCHANGED <<proc, report, oldReports, threads, bounds>>

\* Storing the failure raises and nothing catches it: the start is given up.
FailStaleRaises ==
    /\ proc = "failStale" /\ proc' = "down"
    /\ \E j \in Jobs : job[j] \in Pending
    /\ Fault
    /\ UNCHANGED <<files, threads>>

\* Variant: the service listens before stale jobs are failed.
ListenEarly == CleanupTo("failStale", "serving")

Listen ==
    /\ \A j \in Jobs : job[j] \notin Pending
    /\ CleanupTo("failStale", "serving")

-----------------------------------------------------------------------------
RequestStep(j) ==
    \/ Create(j) \/ CreateRaises(j)
    \/ SubmitAccepted(j) \/ SubmitRefused(j)
    \/ Reject(j) \/ RejectRaises(j)

WorkerStep(w) ==
    \/ Take(w) \/ WaitEnds(w) \/ Deadline(w)
    \/ RecordTimeout(w) \/ RecordTimeoutRaises(w)

RunnerStep(j) ==
    \/ Start(j) \/ StartRaises(j) \/ ScanFails(j)
    \/ CommitReport(j) \/ CommitLate(j) \/ CommitJob(j) \/ CommitRaises(j)
    \/ RunnerFails(j) \/ RunnerFailsRaises(j)

CleanupStep ==
    \/ Boot \/ JobsExpired \/ ReportsExpired \/ ExpireRaises \/ FailStaleRaises \/ Listen
    \/ \E j \in Jobs : ExpireJob(j) \/ ExpireReport(j) \/ FailStale(j)

Next ==
    \/ \E j \in Jobs : RequestStep(j) \/ RunnerStep(j)
    \/ \E w \in Workers : WorkerStep(w)
    \/ CleanupStep \/ Crash

Spec == Init /\ [][Next]_vars

(***************************************************************************)
(* The threads of the process run; a scan may hang for ever, a crash need  *)
(* not happen, and no one promises to start the service again.             *)
(***************************************************************************)
Fairness ==
    /\ \A j \in Jobs :
        /\ WF_vars(SubmitAccepted(j) \/ SubmitRefused(j))
        /\ WF_vars(Reject(j))
        /\ WF_vars(Start(j)) /\ WF_vars(CommitJob(j)) /\ WF_vars(RunnerFails(j))
    /\ \A w \in Workers :
        /\ WF_vars(Take(w)) /\ WF_vars(WaitEnds(w))
        /\ WF_vars(Deadline(w)) /\ WF_vars(RecordTimeout(w))

FairSpec == Spec /\ Fairness

-----------------------------------------------------------------------------
(* Safety.                                                                  *)

\* The report_ref of a complete job leads to its report until that report has
\* passed the age limit at a start: no reader between the two writes of
\* try_complete, no crash there and no clean-up shows the record without it.
\* Past the limit it may, since the report is the older file of the two.
CompleteHasReport == \A j \in Jobs : job[j] = "complete" => j \in report \cup oldReports

\* A job that failed on its own, by deadline or by refusal has no report: a
\* late or failing runner never leaves one behind for /v1/reports to serve.
FailureHasNoReport ==
    \A j \in Jobs : job[j] \in Failed \ {"interrupted"} => j \notin report

Queued(j)   == \E i \in 1..Len(queue) : queue[i] = j
Attended(j) == \E w \in Workers : worker[w] = j

\* While the service answers, every record that still says queued or running
\* has someone who will settle it: its request, the queue, or a worker.  What
\* an earlier process left behind has been failed by cleanup_stale_jobs.
PendingHasOwner ==
    proc = "serving" =>
        \A j \in Jobs : job[j] \in Pending =>
            handler[j] \in {"created", "refused"} \/ Queued(j) \/ Attended(j)

\* Clients never see more jobs running than the pool has workers, although
\* runners abandoned at their deadline may still be scanning.
RunningBounded ==
    proc = "serving" =>
        Cardinality({j \in Jobs : job[j] = "running"}) <= Cardinality(Workers)

\* A runner that no worker waits on any more works for a job already settled.
UnattendedIsSettled ==
    \A j \in Jobs : runner[j] \in Active => Attended(j) \/ job[j] \notin Pending

-----------------------------------------------------------------------------
(* The promise to clients, and liveness.                                    *)

Fate(j) ==
    CASE job[j] = "none" -> (IF handler[j] = "idle" THEN "fresh" ELSE "gone")
      [] job[j] \in Failed -> "failed"
      [] OTHER -> job[j]

Lifecycle ==
    INSTANCE JobLifecycle WITH fate <- [j \in Jobs |-> Fate(j)],
                               published <- report, outdated <- oldReports

\* The service implements the life cycle: a job settles once, whoever of the
\* runner, the deadline, the request and the clean-up gets there first.
KeepsLifecycle == Lifecycle!Spec

\* A stored outcome is final: no later write of a runner, a deadline, a
\* request or the clean-up replaces it; the record can only age out.
SettledStays ==
    [][\A j \in Jobs : job[j] \in Failed \cup {"complete"} => job'[j] \in {job[j], "none"}]_vars

\* "A late runner must therefore lose the terminal-state race instead of
\* turning a previously failed job back into a successful one."
FailedNeverSucceeds ==
    \A j \in Jobs : [](job[j] \in Failed => [](job[j] # "complete"))

\* Every job a client was given a 202 for is settled while the service runs,
\* even when scans hang: the deadline fails it and frees the worker.
AcceptedSettles ==
    \A j \in Jobs :
        (proc = "serving" /\ handler[j] = "accepted")
            ~> (job[j] \notin Pending \/ proc # "serving")

=============================================================================
