---------------------------- MODULE JobServiceInv ----------------------------
(***************************************************************************)
(* The inductive invariant behind the theorems of JobServiceProofs: who    *)
(* holds a job (request, queue, runner, worker) fixes what its record and  *)
(* its report can be.                                                      *)
(***************************************************************************)
EXTENDS JobService

QueueControl ==
    /\ \A i \in 1..Len(queue) :
        /\ handler[queue[i]] = "accepted"
        /\ job[queue[i]] = "queued"
        /\ runner[queue[i]] = "none"
    /\ \A i, k \in 1..Len(queue) : queue[i] = queue[k] => i = k

RequestControl ==
    \A j \in Jobs :
        /\ handler[j] = "idle" => job[j] = "none"
        /\ handler[j] \in {"created", "refused"} => job[j] = "queued"
        /\ handler[j] # "accepted" => runner[j] = "none"

\* A runner past its first write never finds its record queued again.
RunnerControl ==
    \A j \in Jobs :
        /\ runner[j] = "start" => job[j] = "queued"
        /\ runner[j] = "commit" => job[j] = "running"
        /\ runner[j] \in {"scanning", "failing"} => job[j] # "queued"

WorkerControl ==
    \A w \in Workers :
        /\ worker[w] \in Jobs => runner[worker[w]] # "none"
        /\ w \in expired => worker[w] \in Jobs /\ runner[worker[w]] # "start"

\* Nothing volatile survives the process.
DownControl ==
    proc # "serving" =>
        /\ queue = <<>>
        /\ expired = {}
        /\ \A j \in Jobs : runner[j] = "none" /\ handler[j] \notin {"created", "refused"}
        /\ \A w \in Workers : worker[w] = Idle

Control ==
    /\ TypeOK
    /\ QueueControl /\ RequestControl /\ RunnerControl /\ WorkerControl /\ DownControl

-----------------------------------------------------------------------------
(* Reports.  One goes only in a clean-up, when no runner is left.           *)

ReportControl ==
    \A j \in Jobs :
        /\ job[j] = "complete" => j \in report \cup oldReports
        /\ handler[j] = "idle" \/ job[j] = "queued" => j \notin report
        /\ runner[j] = "scanning" => j \notin report
        /\ runner[j] = "commit" => j \in report

Publication == Control /\ ReportControl

-----------------------------------------------------------------------------
(* Ownership: what holds while no file operation fails.                     *)

FailureControl ==
    /\ FailureHasNoReport
    /\ proc = "serving" =>
        \A j \in Jobs : job[j] = "running" /\ runner[j] # "commit" => j \notin report

Ownership ==
    /\ Publication
    /\ FailureControl
    /\ PendingHasOwner
    /\ UnattendedIsSettled
    /\ \A j \in Jobs : runner[j] = "done" => job[j] \notin Pending
=============================================================================
