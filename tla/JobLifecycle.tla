---------------------------- MODULE JobLifecycle ----------------------------
(***************************************************************************)
(* What the scan service promises a client that polls /v1/jobs/<id> and    *)
(* /v1/reports/<id>: a job moves forward only, ends once, and is complete  *)
(* only after its report could be fetched; a report is withdrawn only when *)
(* it has outlived the age limit.  Nothing here says how requests, threads,*)
(* files or restarts bring that about; JobService does.                    *)
(***************************************************************************)
CONSTANT Jobs

VARIABLES
    fate,       \* fate[j]: what a poll of job j finds
    published,  \* the jobs whose report can be fetched
    outdated    \* the jobs whose report has outlived the age limit

vars == <<fate, published, outdated>>

Fate == {"fresh", "queued", "running", "complete", "failed", "gone"}

TypeOK ==
    /\ fate \in [Jobs -> Fate]
    /\ published \subseteq Jobs /\ outdated \subseteq Jobs

Init ==
    /\ fate = [j \in Jobs |-> "fresh"]
    /\ published = {} /\ outdated = {}

Move(j, from, to) ==
    /\ fate[j] \in from
    /\ fate' = [fate EXCEPT ![j] = to]
    /\ UNCHANGED <<published, outdated>>

Submit(j) == Move(j, {"fresh"}, "queued")

Begin(j) == Move(j, {"queued"}, "running")

Publish(j) ==
    /\ fate[j] = "running"
    /\ published' = published \cup {j}
    /\ outdated' = outdated \ {j}
    /\ UNCHANGED fate

Finish(j) ==
    /\ j \in published
    /\ Move(j, {"running"}, "complete")

Abort(j) == Move(j, {"queued", "running"}, "failed")

\* The record ages out, or was never written.
Forget(j) == Move(j, Fate, "gone")

\* Time passes over some of the reports.
Age ==
    /\ \E old \in SUBSET published : outdated' = outdated \cup old
    /\ UNCHANGED <<fate, published>>

\* Whatever its job says by then, only a report past the limit may go.
Withdraw(j) ==
    /\ j \in outdated
    /\ published' = published \ {j}
    /\ UNCHANGED <<fate, outdated>>

Next ==
    \/ \E j \in Jobs :
        \/ Submit(j) \/ Begin(j) \/ Publish(j) \/ Finish(j)
        \/ Abort(j) \/ Forget(j) \/ Withdraw(j)
    \/ Age

Spec == Init /\ [][Next]_vars
=============================================================================
