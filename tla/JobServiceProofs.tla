-------------------------- MODULE JobServiceProofs --------------------------
(***************************************************************************)
(* Theorems about JobService for every value of its constants.             *)
(* The invariants they rest on are in JobServiceInv.                       *)
(***************************************************************************)
EXTENDS JobServiceInv, FiniteSetTheorems, TLAPS

USE DEF Serving, Handle, WriteJob, TryFail, Fault, LockFree, Run, Waits, CleanupTo,
        files, threads, bounds, vars, Phase, Failed, Pending, Label, Request,
        Thread, Active

\* One step keeps the type of every variable.
LEMMA TypeStep == TypeOK /\ [Next]_vars => TypeOK'
<1> SUFFICES ASSUME TypeOK, [Next]_vars PROVE TypeOK'
  OBVIOUS
<1> USE DEF TypeOK
<1>1. ASSUME NEW j \in Jobs, RequestStep(j) PROVE TypeOK'
  <2>1. CASE Create(j) \/ CreateRaises(j)
    BY <2>1 DEF Create, CreateRaises
  <2>2. CASE SubmitAccepted(j)
    <3>1. queue' \in Seq(Jobs)
      BY <2>2 DEF SubmitAccepted
    <3> QED BY <2>2, <3>1 DEF SubmitAccepted
  <2>3. CASE SubmitRefused(j)
    BY <2>3 DEF SubmitRefused
  <2>4. CASE Reject(j) \/ RejectRaises(j)
    BY <2>4 DEF Reject, RejectRaises
  <2> QED BY <1>1, <2>1, <2>2, <2>3, <2>4 DEF RequestStep
<1>2. ASSUME NEW j \in Jobs, RunnerStep(j) PROVE TypeOK'
  <2>1. CASE Start(j) \/ StartRaises(j) \/ ScanFails(j)
    BY <2>1 DEF Start, StartRaises, ScanFails
  <2>2. CASE CommitReport(j) \/ CommitLate(j)
    BY <2>2 DEF CommitReport, CommitLate
  <2>3. CASE CommitJob(j) \/ CommitRaises(j)
    BY <2>3 DEF CommitJob, CommitRaises
  <2>4. CASE RunnerFails(j) \/ RunnerFailsRaises(j)
    BY <2>4 DEF RunnerFails, RunnerFailsRaises
  <2> QED BY <1>2, <2>1, <2>2, <2>3, <2>4 DEF RunnerStep
<1>3. ASSUME NEW w \in Workers, WorkerStep(w) PROVE TypeOK'
  <2>1. CASE Take(w)
    <3>1. Head(queue) \in Jobs /\ Tail(queue) \in Seq(Jobs)
      BY <2>1 DEF Take
    <3> QED BY <2>1, <3>1 DEF Take
  <2>2. CASE WaitEnds(w) \/ Deadline(w)
    BY <2>2 DEF WaitEnds, Deadline
  <2>3. CASE RecordTimeout(w) \/ RecordTimeoutRaises(w)
    BY <2>3 DEF RecordTimeout, RecordTimeoutRaises
  <2> QED BY <1>3, <2>1, <2>2, <2>3 DEF WorkerStep
<1>4. CASE CleanupStep
  BY <1>4 DEF CleanupStep, Boot, JobsExpired, ReportsExpired, ExpireRaises, FailStaleRaises, Listen,
              ExpireJob, ExpireReport, FailStale
<1>5. CASE Crash
  BY <1>5 DEF Crash
<1>6. CASE UNCHANGED vars
  BY <1>6
<1> QED BY <1>1, <1>2, <1>3, <1>4, <1>5, <1>6 DEF Next

\* Every variable keeps its type: labels, thread states and counters stay in
\* their sets whatever the order of steps, faults and crashes.
THEOREM TypeCorrect == Spec => []TypeOK
<1>1. Init => TypeOK
  BY DEF Init, TypeOK
<1> QED BY <1>1, TypeStep, PTL DEF Spec

\* One step keeps Control, when runners store "running" before their deadline.
LEMMA ControlStep == PromptStart /\ Control /\ [Next]_vars => Control'
<1> SUFFICES ASSUME PromptStart, Control, [Next]_vars PROVE Control'
  OBVIOUS
<1> DEFINE Parts == QueueControl /\ RequestControl /\ RunnerControl /\ WorkerControl /\ DownControl
<1>t. TypeOK'
  BY TypeStep DEF Control
<1> SUFFICES Parts'
  BY <1>t DEF Control
<1> USE ConstantsOK DEF Control, TypeOK, QueueControl, RequestControl, RunnerControl,
                        WorkerControl, DownControl
<1>1. ASSUME NEW j \in Jobs, RequestStep(j) PROVE Parts'
  <2>1. CASE Create(j)
    BY <2>1 DEF Create
  <2>2. CASE CreateRaises(j)
    BY <2>2 DEF CreateRaises
  <2>3. CASE SubmitAccepted(j)
    BY <2>3 DEF SubmitAccepted
  <2>4. CASE SubmitRefused(j)
    BY <2>4 DEF SubmitRefused
  <2>5. CASE Reject(j)
    BY <2>5 DEF Reject
  <2>6. CASE RejectRaises(j)
    BY <2>6 DEF RejectRaises
  <2> QED BY <1>1, <2>1, <2>2, <2>3, <2>4, <2>5, <2>6 DEF RequestStep
<1>2. ASSUME NEW j \in Jobs, RunnerStep(j) PROVE Parts'
  <2>1. CASE Start(j)
    BY <2>1 DEF Start
  <2>2. CASE StartRaises(j) \/ ScanFails(j)
    BY <2>2 DEF StartRaises, ScanFails
  <2>3. CASE CommitReport(j)
    BY <2>3 DEF CommitReport
  <2>4. CASE CommitLate(j)
    BY <2>4 DEF CommitLate
  <2>5. CASE CommitJob(j)
    BY <2>5 DEF CommitJob
  <2>6. CASE CommitRaises(j)
    BY <2>6 DEF CommitRaises
  <2>7. CASE RunnerFails(j)
    BY <2>7 DEF RunnerFails
  <2>8. CASE RunnerFailsRaises(j)
    BY <2>8 DEF RunnerFailsRaises
  <2> QED BY <1>2, <2>1, <2>2, <2>3, <2>4, <2>5, <2>6, <2>7, <2>8 DEF RunnerStep
<1>3. ASSUME NEW w \in Workers, WorkerStep(w) PROVE Parts'
  <2>1. CASE Take(w)
    BY <2>1 DEF Take
  <2>2. CASE WaitEnds(w)
    BY <2>2 DEF WaitEnds
  <2>3. CASE Deadline(w)
    BY <2>3 DEF Deadline
  <2>4. CASE RecordTimeout(w)
    BY <2>4 DEF RecordTimeout
  <2>5. CASE RecordTimeoutRaises(w)
    BY <2>5 DEF RecordTimeoutRaises
  <2> QED BY <1>3, <2>1, <2>2, <2>3, <2>4, <2>5 DEF WorkerStep
<1>4. CASE CleanupStep
  BY <1>4 DEF CleanupStep, Boot, JobsExpired, ReportsExpired, ExpireRaises, FailStaleRaises, Listen,
              ExpireJob, ExpireReport, FailStale
<1>5. CASE Crash
  BY <1>5 DEF Crash
<1>6. CASE UNCHANGED vars
  BY <1>6
<1> QED BY <1>1, <1>2, <1>3, <1>4, <1>5, <1>6 DEF Next

\* Control holds initially and is kept, so it always holds.
THEOREM ControlHolds == ASSUME PromptStart PROVE Spec => []Control
<1>1. Init => Control
  BY ConstantsOK DEF Init, Control, TypeOK, QueueControl, RequestControl, RunnerControl,
         WorkerControl, DownControl
<1>2. Control /\ [Next]_vars => Control'
  BY ControlStep
<1> QED BY <1>1, <1>2, PTL DEF Spec

\* One step never replaces a stored outcome.
LEMMA SettledStep ==
    ASSUME Control, [Next]_vars
    PROVE  \A j \in Jobs : job[j] \in Failed \cup {"complete"} => job'[j] \in {job[j], "none"}
<1> DEFINE Final == \A k \in Jobs :
        job[k] \in Failed \cup {"complete"} => job'[k] = job[k] \/ job'[k] = "none"
<1> SUFFICES Final
  OBVIOUS
<1> USE DEF Control, TypeOK, RequestControl, RunnerControl, WorkerControl
<1>1. ASSUME NEW j \in Jobs, RequestStep(j) PROVE Final
  <2>1. CASE Create(j)
    BY <2>1 DEF Create
  <2>2. CASE CreateRaises(j)
    BY <2>2 DEF CreateRaises
  <2>3. CASE SubmitAccepted(j)
    BY <2>3 DEF SubmitAccepted
  <2>4. CASE SubmitRefused(j)
    BY <2>4 DEF SubmitRefused
  <2>5. CASE Reject(j)
    BY <2>5 DEF Reject
  <2>6. CASE RejectRaises(j)
    BY <2>6 DEF RejectRaises
  <2> QED BY <1>1, <2>1, <2>2, <2>3, <2>4, <2>5, <2>6 DEF RequestStep
<1>2. ASSUME NEW j \in Jobs, RunnerStep(j) PROVE Final
  <2>1. CASE Start(j)
    BY <2>1 DEF Start
  <2>2. CASE StartRaises(j)
    BY <2>2 DEF StartRaises
  <2>3. CASE ScanFails(j)
    BY <2>3 DEF ScanFails
  <2>4. CASE CommitReport(j)
    BY <2>4 DEF CommitReport
  <2>5. CASE CommitLate(j)
    BY <2>5 DEF CommitLate
  <2>6. CASE CommitJob(j)
    BY <2>6 DEF CommitJob
  <2>7. CASE CommitRaises(j)
    BY <2>7 DEF CommitRaises
  <2>8. CASE RunnerFails(j)
    BY <2>8 DEF RunnerFails
  <2>9. CASE RunnerFailsRaises(j)
    BY <2>9 DEF RunnerFailsRaises
  <2> QED BY <1>2, <2>1, <2>2, <2>3, <2>4, <2>5, <2>6, <2>7, <2>8, <2>9 DEF RunnerStep
<1>3. ASSUME NEW w \in Workers, WorkerStep(w) PROVE Final
  <2>1. CASE Take(w)
    BY <2>1 DEF Take
  <2>2. CASE WaitEnds(w)
    BY <2>2 DEF WaitEnds
  <2>3. CASE Deadline(w)
    BY <2>3 DEF Deadline
  <2>4. CASE RecordTimeout(w)
    BY <2>4 DEF RecordTimeout
  <2>5. CASE RecordTimeoutRaises(w)
    BY <2>5 DEF RecordTimeoutRaises
  <2> QED BY <1>3, <2>1, <2>2, <2>3, <2>4, <2>5 DEF WorkerStep
<1>4. CASE CleanupStep
  BY <1>4 DEF CleanupStep, Boot, JobsExpired, ReportsExpired, ExpireRaises, FailStaleRaises, Listen,
              ExpireJob, ExpireReport, FailStale
<1>5. CASE Crash
  BY <1>5 DEF Crash
<1>6. CASE UNCHANGED vars
  BY <1>6
<1> QED BY <1>1, <1>2, <1>3, <1>4, <1>5, <1>6 DEF Next

\* A stored outcome is final (try_complete, try_fail): whatever the order in
\* which runner, deadline, request, clean-up, crashes and file errors come.
THEOREM SettledIsFinal == ASSUME PromptStart PROVE Spec => SettledStays
<1>1. Control /\ [Next]_vars =>
        \A j \in Jobs : job[j] \in Failed \cup {"complete"} => job'[j] \in {job[j], "none"}
  BY SettledStep
<1> QED BY <1>1, ControlHolds, PTL DEF Spec, SettledStays

\* One step keeps the invariant of the published reports.
LEMMA PublicationStep ==
    PromptStart /\ Publication /\ [Next]_vars => Publication'
<1> SUFFICES ASSUME PromptStart, Publication, [Next]_vars PROVE Publication'
  OBVIOUS
<1>t. Control'
  BY ControlStep DEF Publication
<1> SUFFICES ReportControl'
  BY <1>t DEF Publication
<1> USE ConstantsOK DEF Publication, Control, TypeOK, RequestControl, RunnerControl,
                        DownControl, ReportControl, QueueControl
<1>1. ASSUME NEW j \in Jobs, RequestStep(j) PROVE ReportControl'
  <2>1. CASE Create(j)
    BY <2>1 DEF Create
  <2>2. CASE CreateRaises(j)
    BY <2>2 DEF CreateRaises
  <2>3. CASE SubmitAccepted(j)
    BY <2>3 DEF SubmitAccepted
  <2>4. CASE SubmitRefused(j)
    BY <2>4 DEF SubmitRefused
  <2>5. CASE Reject(j)
    BY <2>5 DEF Reject
  <2>6. CASE RejectRaises(j)
    BY <2>6 DEF RejectRaises
  <2> QED BY <1>1, <2>1, <2>2, <2>3, <2>4, <2>5, <2>6 DEF RequestStep
<1>2. ASSUME NEW j \in Jobs, RunnerStep(j) PROVE ReportControl'
  <2>1. CASE Start(j)
    BY <2>1 DEF Start
  <2>2. CASE StartRaises(j)
    BY <2>2 DEF StartRaises
  <2>3. CASE ScanFails(j)
    BY <2>3 DEF ScanFails
  <2>4. CASE CommitReport(j)
    BY <2>4 DEF CommitReport
  <2>5. CASE CommitLate(j)
    BY <2>5 DEF CommitLate
  <2>6. CASE CommitJob(j)
    BY <2>6 DEF CommitJob
  <2>7. CASE CommitRaises(j)
    BY <2>7 DEF CommitRaises
  <2>8. CASE RunnerFails(j)
    BY <2>8 DEF RunnerFails
  <2>9. CASE RunnerFailsRaises(j)
    BY <2>9 DEF RunnerFailsRaises
  <2> QED BY <1>2, <2>1, <2>2, <2>3, <2>4, <2>5, <2>6, <2>7, <2>8, <2>9 DEF RunnerStep
<1>3. ASSUME NEW w \in Workers, WorkerStep(w) PROVE ReportControl'
  <2>1. CASE Take(w)
    BY <2>1 DEF Take
  <2>2. CASE WaitEnds(w)
    BY <2>2 DEF WaitEnds
  <2>3. CASE Deadline(w)
    BY <2>3 DEF Deadline
  <2>4. CASE RecordTimeout(w)
    BY <2>4 DEF RecordTimeout
  <2>5. CASE RecordTimeoutRaises(w)
    BY <2>5 DEF RecordTimeoutRaises
  <2> QED BY <1>3, <2>1, <2>2, <2>3, <2>4, <2>5 DEF WorkerStep
<1>4. CASE CleanupStep
  BY <1>4 DEF CleanupStep, Boot, JobsExpired, ReportsExpired, ExpireRaises, FailStaleRaises, Listen,
              ExpireJob, ExpireReport, FailStale
<1>5. CASE Crash
  BY <1>5 DEF Crash
<1>6. CASE UNCHANGED vars
  BY <1>6
<1> QED BY <1>1, <1>2, <1>3, <1>4, <1>5, <1>6 DEF Next

\* The reports stay consistent with the records for ever.
THEOREM PublicationHolds == ASSUME PromptStart PROVE Spec => []Publication
<1>1. Init => Publication
  BY ConstantsOK DEF Init, Publication, Control, TypeOK, QueueControl, RequestControl,
         RunnerControl, WorkerControl, DownControl, ReportControl
<1>2. Publication /\ [Next]_vars => Publication'
  BY PublicationStep
<1> QED BY <1>1, <1>2, PTL DEF Spec

\* A complete job has its report, or the report has passed the age limit:
\* try_complete writes the report first and only cleanup_stale_jobs removes
\* it.  Crashes at any point, expiry file by file and file errors included.
THEOREM CompleteJobsHaveReports ==
    ASSUME PromptStart PROVE Spec => []CompleteHasReport
<1>1. Publication => CompleteHasReport
  BY DEF Publication, ReportControl, CompleteHasReport
<1> QED BY <1>1, PublicationHolds, PTL

-----------------------------------------------------------------------------
(* Refinement.                                                              *)

\* A step that changes no fate and no report is a stutter of the life cycle.
LEMMA Stutters ==
    ASSUME \A k \in Jobs : Fate(k)' = Fate(k), report' = report, oldReports' = oldReports
    PROVE  UNCHANGED Lifecycle!vars
BY DEF Lifecycle!vars

\* A step that changes one fate and no report is a move of the life cycle.
LEMMA Moves ==
    ASSUME NEW j \in Jobs, NEW from, NEW to,
           \A k \in Jobs \ {j} : Fate(k)' = Fate(k),
           Fate(j) \in from, Fate(j)' = to,
           report' = report, oldReports' = oldReports
    PROVE  Lifecycle!Move(j, from, to)
BY DEF Lifecycle!Move

\* What a client sees of each label.
LEMMA Fates ==
    ASSUME TypeOK, NEW j \in Jobs
    PROVE  /\ job[j] \in Pending \cup {"complete"} => Fate(j) = job[j]
           /\ job[j] \in Failed => Fate(j) = "failed"
           /\ job[j] = "none" => Fate(j) = IF handler[j] = "idle" THEN "fresh" ELSE "gone"
BY DEF TypeOK, Fate

\* Every step of the service is a step of the life cycle or a stutter.
LEMMA LifecycleStep ==
    ASSUME PromptStart, Publication, Publication', [Next]_vars
    PROVE  [Lifecycle!Next]_(Lifecycle!vars)
<1> USE DEF Publication, Control, RequestControl, RunnerControl
<1>t. TypeOK /\ TypeOK'
  OBVIOUS
<1>1. ASSUME NEW j \in Jobs, RequestStep(j) PROVE [Lifecycle!Next]_(Lifecycle!vars)
  <2>o. \A k \in Jobs \ {j} : Fate(k)' = Fate(k)
    BY <1>1, <1>t DEF Fate, TypeOK, RequestStep, Create, CreateRaises, SubmitAccepted,
           SubmitRefused, Reject, RejectRaises
  <2>1. CASE Create(j)
    <3>1. Fate(j) = "fresh" /\ Fate(j)' = "queued" /\ UNCHANGED <<report, oldReports>>
      BY <2>1, <1>t DEF Create, TypeOK, Fate
    <3> QED BY <3>1, <2>o, Moves DEF Lifecycle!Next, Lifecycle!Submit
  <2>2. CASE CreateRaises(j)
    <3>1. Fate(j) = "fresh" /\ Fate(j)' = "gone" /\ UNCHANGED <<report, oldReports>>
      BY <2>2, <1>t DEF CreateRaises, TypeOK, Fate
    <3>2. Fate(j) \in Lifecycle!Fate
      BY <3>1 DEF Lifecycle!Fate
    <3> QED BY <3>1, <3>2, <2>o, Moves DEF Lifecycle!Next, Lifecycle!Forget
  <2>3. CASE Reject(j)
    <3>1. Fate(j) = "queued" /\ Fate(j)' = "failed" /\ UNCHANGED <<report, oldReports>>
      BY <2>3, <1>t DEF Reject, TypeOK, Fate
    <3>2. Fate(j) \in {"queued", "running"}
      BY <3>1
    <3> QED BY <3>1, <3>2, <2>o, Moves DEF Lifecycle!Next, Lifecycle!Abort
  <2>4. CASE SubmitAccepted(j) \/ SubmitRefused(j) \/ RejectRaises(j)
    <3>1. Fate(j)' = Fate(j) /\ UNCHANGED <<report, oldReports>>
      BY <2>4, <1>t DEF SubmitAccepted, SubmitRefused, RejectRaises, TypeOK, Fate
    <3> QED BY <3>1, <2>o, Stutters
  <2> QED BY <1>1, <2>1, <2>2, <2>3, <2>4 DEF RequestStep
<1>2. ASSUME NEW j \in Jobs, RunnerStep(j) PROVE [Lifecycle!Next]_(Lifecycle!vars)
  <2>o. \A k \in Jobs \ {j} : Fate(k)' = Fate(k)
    BY <1>2, <1>t DEF Fate, TypeOK, RunnerStep, Start, StartRaises, ScanFails, CommitReport,
           CommitLate, CommitJob, CommitRaises, RunnerFails, RunnerFailsRaises
  <2>1. CASE Start(j)
    <3>1. Fate(j) = "queued" /\ Fate(j)' = "running" /\ UNCHANGED <<report, oldReports>>
      BY <2>1, <1>t DEF Start, TypeOK, Fate
    <3> QED BY <3>1, <2>o, Moves DEF Lifecycle!Next, Lifecycle!Begin
  <2>2. CASE CommitReport(j)
    <3>1. /\ Fate(j) = "running" /\ Fate(j)' = Fate(j)
          /\ report' = report \cup {j} /\ oldReports' = oldReports \ {j}
      BY <2>2, <1>t DEF CommitReport, TypeOK, Fate
    <3> QED BY <3>1, <2>o DEF Lifecycle!Next, Lifecycle!Publish
  <2>3. CASE CommitJob(j)
    <3>1. Fate(j) = "running" /\ Fate(j)' = "complete" /\ UNCHANGED <<report, oldReports>>
      BY <2>3, <1>t DEF CommitJob, TypeOK, Fate
    <3>2. j \in report
      BY <2>3 DEF CommitJob, ReportControl
    <3> QED BY <3>1, <3>2, <2>o, Moves DEF Lifecycle!Next, Lifecycle!Finish
  <2>4. CASE RunnerFails(j)
    <3>1. CASE job[j] \in Pending
      <4>1. Fate(j) \in {"queued", "running"} /\ Fate(j)' = "failed" /\ UNCHANGED <<report, oldReports>>
        BY <2>4, <3>1, <1>t DEF RunnerFails, TypeOK, Fate
      <4> QED BY <4>1, <2>o, Moves DEF Lifecycle!Next, Lifecycle!Abort
    <3>2. CASE job[j] \notin Pending
      <4>1. Fate(j)' = Fate(j) /\ UNCHANGED <<report, oldReports>>
        BY <2>4, <3>2, <1>t DEF RunnerFails, TypeOK, Fate
      <4> QED BY <4>1, <2>o, Stutters
    <3> QED BY <3>1, <3>2
  <2>5. CASE StartRaises(j) \/ ScanFails(j) \/ CommitLate(j) \/ CommitRaises(j)
             \/ RunnerFailsRaises(j)
    <3>1. Fate(j)' = Fate(j) /\ UNCHANGED <<report, oldReports>>
      BY <2>5, <1>t DEF StartRaises, ScanFails, CommitLate, CommitRaises,
             RunnerFailsRaises, TypeOK, Fate
    <3> QED BY <3>1, <2>o, Stutters
  <2> QED BY <1>2, <2>1, <2>2, <2>3, <2>4, <2>5 DEF RunnerStep
<1>3. ASSUME NEW w \in Workers, WorkerStep(w) PROVE [Lifecycle!Next]_(Lifecycle!vars)
  <2>1. CASE RecordTimeout(w) /\ job[worker[w]] \in Pending
    <3>1. PICK j \in Jobs : j = worker[w]
      BY <2>1 DEF RecordTimeout, WorkerControl
    <3>2. \A k \in Jobs \ {j} : Fate(k)' = Fate(k)
      BY <2>1, <3>1, <1>t DEF RecordTimeout, TypeOK, Fate
    <3>3. Fate(j) \in {"queued", "running"} /\ Fate(j)' = "failed" /\ UNCHANGED <<report, oldReports>>
      BY <2>1, <3>1, <1>t DEF RecordTimeout, TypeOK, Fate
    <3> QED BY <3>2, <3>3, Moves DEF Lifecycle!Next, Lifecycle!Abort
  <2>2. CASE ~ (RecordTimeout(w) /\ job[worker[w]] \in Pending)
    <3>1. \A k \in Jobs : Fate(k)' = Fate(k)
      BY <1>3, <2>2 DEF WorkerStep, Take, WaitEnds, Deadline, RecordTimeout,
             RecordTimeoutRaises, Fate
    <3>2. UNCHANGED <<report, oldReports>>
      BY <1>3 DEF WorkerStep, Take, WaitEnds, Deadline, RecordTimeout, RecordTimeoutRaises
    <3> QED BY <3>1, <3>2, Stutters
  <2> QED BY <2>1, <2>2
<1>4. CASE CleanupStep
  <2>1. ASSUME NEW j \in Jobs, ExpireJob(j) PROVE [Lifecycle!Next]_(Lifecycle!vars)
    <3>o. \A k \in Jobs \ {j} : Fate(k)' = Fate(k)
      BY <2>1, <1>t DEF ExpireJob, TypeOK, Fate
    <3>1. CASE handler[j] = "idle"
      <4>1. Fate(j)' = Fate(j) /\ UNCHANGED <<report, oldReports>>
        BY <2>1, <3>1, <1>t DEF ExpireJob, TypeOK, Fate
      <4> QED BY <4>1, <3>o, Stutters
    <3>2. CASE handler[j] # "idle"
      <4>1. Fate(j)' = "gone" /\ UNCHANGED <<report, oldReports>>
        BY <2>1, <3>2, <1>t DEF ExpireJob, TypeOK, Fate
      <4>2. Fate(j) \in Lifecycle!Fate
        BY <3>2, <1>t DEF TypeOK, Fate, Lifecycle!Fate
      <4> QED BY <4>1, <4>2, <3>o, Moves DEF Lifecycle!Next, Lifecycle!Forget
    <3> QED BY <3>1, <3>2
  <2>2. ASSUME NEW j \in Jobs, ExpireReport(j) PROVE [Lifecycle!Next]_(Lifecycle!vars)
    <3>1. /\ j \in oldReports /\ oldReports' = oldReports
          /\ report' = report \ {j} /\ \A k \in Jobs : Fate(k)' = Fate(k)
      BY <2>2 DEF ExpireReport, Fate
    <3> QED BY <3>1 DEF Lifecycle!Next, Lifecycle!Withdraw
  <2>3. ASSUME NEW j \in Jobs, FailStale(j) PROVE [Lifecycle!Next]_(Lifecycle!vars)
    <3>o. \A k \in Jobs \ {j} : Fate(k)' = Fate(k)
      BY <2>3, <1>t DEF FailStale, TypeOK, Fate
    <3>1. Fate(j) \in {"queued", "running"} /\ Fate(j)' = "failed" /\ UNCHANGED <<report, oldReports>>
      BY <2>3, <1>t DEF FailStale, TypeOK, Fate
    <3> QED BY <3>1, <3>o, Moves DEF Lifecycle!Next, Lifecycle!Abort
  <2>4. CASE JobsExpired \/ ReportsExpired \/ ExpireRaises
            \/ FailStaleRaises \/ Listen
    <3>1. UNCHANGED <<report, oldReports>> /\ \A k \in Jobs : Fate(k)' = Fate(k)
      BY <2>4 DEF JobsExpired, ReportsExpired, ExpireRaises, FailStaleRaises, Listen, Fate
    <3> QED BY <3>1, Stutters
  <2>5. CASE Boot
    <3>1. report' = report /\ \A k \in Jobs : Fate(k)' = Fate(k)
      BY <2>5 DEF Boot, Fate
    <3>2. PICK old \in SUBSET report : oldReports' = oldReports \cup old
      <4>1. PICK R \in SUBSET (report \cup oldReports) : oldReports \subseteq R /\ oldReports' = R
        BY <2>5 DEF Boot
      <4>2. R \ oldReports \in SUBSET report /\ R = oldReports \cup (R \ oldReports)
        BY <4>1
      <4> QED BY <4>1, <4>2
    <3> QED BY <3>1, <3>2 DEF Lifecycle!Next, Lifecycle!Age
  <2> QED BY <1>4, <2>1, <2>2, <2>3, <2>4, <2>5 DEF CleanupStep
<1>5. CASE Crash
  <2>1. \A k \in Jobs : Fate(k)' = Fate(k)
    BY <1>5, <1>t DEF Crash, TypeOK, Fate
  <2> QED BY <1>5, <2>1, Stutters DEF Crash
<1>6. CASE UNCHANGED vars
  <2>1. UNCHANGED <<report, oldReports>> /\ \A k \in Jobs : Fate(k)' = Fate(k)
    BY <1>6 DEF Fate
  <2> QED BY <2>1, Stutters
<1> QED BY <1>1, <1>2, <1>3, <1>4, <1>5, <1>6 DEF Next

\* The service implements the life cycle promised to clients.
THEOREM ImplementsLifecycle ==
    ASSUME PromptStart PROVE Spec => KeepsLifecycle
<1>1. Init => Lifecycle!Init
  BY DEF Init, Fate, Lifecycle!Init
<1>2. Publication /\ Publication' /\ [Next]_vars => [Lifecycle!Next]_(Lifecycle!vars)
  BY LifecycleStep
<1> QED BY <1>1, <1>2, PublicationHolds, PTL DEF Spec, KeepsLifecycle, Lifecycle!Spec

-----------------------------------------------------------------------------
(* Ownership, while no file operation fails.                                *)

\* One step keeps the invariant of who will settle a job.
LEMMA OwnershipStep ==
    PromptStart /\ MaxFaults = 0 /\ Ownership /\ [Next]_vars => Ownership'
<1> SUFFICES ASSUME PromptStart, MaxFaults = 0, Ownership, [Next]_vars PROVE Ownership'
  OBVIOUS
<1> DEFINE Parts == /\ FailureControl
                    /\ PendingHasOwner
                    /\ UnattendedIsSettled
                    /\ \A j \in Jobs : runner[j] = "done" => job[j] \notin Pending
<1>t. Publication'
  BY PublicationStep DEF Ownership
<1> SUFFICES Parts'
  BY <1>t DEF Ownership
<1> USE ConstantsOK DEF Ownership, Publication, Control, TypeOK, RequestControl, RunnerControl,
                        WorkerControl, DownControl, ReportControl, QueueControl,
                        FailureControl, FailureHasNoReport, PendingHasOwner,
                        UnattendedIsSettled, Queued, Attended
<1>1. ASSUME NEW j \in Jobs, RequestStep(j) PROVE Parts'
  <2>1. CASE Create(j)
    BY <2>1 DEF Create
  <2>2. CASE CreateRaises(j)
    BY <2>2 DEF CreateRaises
  <2>3. CASE SubmitAccepted(j)
    BY <2>3 DEF SubmitAccepted
  <2>4. CASE SubmitRefused(j)
    BY <2>4 DEF SubmitRefused
  <2>5. CASE Reject(j)
    BY <2>5 DEF Reject
  <2>6. CASE RejectRaises(j)
    BY <2>6 DEF RejectRaises
  <2> QED BY <1>1, <2>1, <2>2, <2>3, <2>4, <2>5, <2>6 DEF RequestStep
<1>2. ASSUME NEW j \in Jobs, RunnerStep(j) PROVE Parts'
  <2>1. CASE Start(j)
    BY <2>1 DEF Start
  <2>2. CASE StartRaises(j)
    BY <2>2 DEF StartRaises
  <2>3. CASE ScanFails(j)
    BY <2>3 DEF ScanFails
  <2>4. CASE CommitReport(j)
    BY <2>4 DEF CommitReport
  <2>5. CASE CommitLate(j)
    BY <2>5 DEF CommitLate
  <2>6. CASE CommitJob(j)
    BY <2>6 DEF CommitJob
  <2>7. CASE CommitRaises(j)
    BY <2>7 DEF CommitRaises
  <2>8. CASE RunnerFails(j)
    BY <2>8 DEF RunnerFails
  <2>9. CASE RunnerFailsRaises(j)
    BY <2>9 DEF RunnerFailsRaises
  <2> QED BY <1>2, <2>1, <2>2, <2>3, <2>4, <2>5, <2>6, <2>7, <2>8, <2>9 DEF RunnerStep
<1>3. ASSUME NEW w \in Workers, WorkerStep(w) PROVE Parts'
  <2>1. CASE Take(w)
    <3>1. FailureControl' /\ \A j \in Jobs : runner'[j] = "done" => job'[j] \notin Pending
      BY <2>1 DEF Take
    <3>2. ASSUME NEW j \in Jobs, Queued(j) PROVE Attended(j)' \/ Queued(j)'
      <4>1. PICK i \in 1..Len(queue) : queue[i] = j
        BY <3>2
      <4>2. CASE i = 1
        BY <2>1, <4>1, <4>2 DEF Take
      <4>3. CASE i # 1
        <5>1. i - 1 \in 1..Len(queue') /\ queue'[i - 1] = j
          BY <2>1, <4>1, <4>3 DEF Take
        <5> QED BY <5>1
      <4> QED BY <4>2, <4>3
    <3>3. ASSUME NEW j \in Jobs, Attended(j) PROVE Attended(j)'
      BY <2>1, <3>3 DEF Take
    <3>4. PendingHasOwner'
      BY <2>1, <3>2, <3>3 DEF Take
    <3>5. UnattendedIsSettled'
      <4>1. PICK h \in Jobs : h = Head(queue)
        BY <2>1 DEF Take
      <4>2. Attended(h)'
        BY <2>1, <4>1 DEF Take
      <4> QED BY <2>1, <3>3, <4>1, <4>2 DEF Take
    <3> QED BY <3>1, <3>4, <3>5
  <2>2. CASE WaitEnds(w)
    BY <2>2 DEF WaitEnds
  <2>3. CASE Deadline(w)
    BY <2>3 DEF Deadline
  <2>4. CASE RecordTimeout(w)
    BY <2>4 DEF RecordTimeout
  <2>5. CASE RecordTimeoutRaises(w)
    BY <2>5 DEF RecordTimeoutRaises
  <2> QED BY <1>3, <2>1, <2>2, <2>3, <2>4, <2>5 DEF WorkerStep
<1>4. CASE CleanupStep
  BY <1>4 DEF CleanupStep, Boot, JobsExpired, ReportsExpired, ExpireRaises, FailStaleRaises, Listen,
              ExpireJob, ExpireReport, FailStale
<1>5. CASE Crash
  BY <1>5 DEF Crash
<1>6. CASE UNCHANGED vars
  BY <1>6
<1> QED BY <1>1, <1>2, <1>3, <1>4, <1>5, <1>6 DEF Next

\* With no file errors every job has someone who will settle it.
THEOREM OwnershipHolds == ASSUME PromptStart, MaxFaults = 0 PROVE Spec => []Ownership
<1>1. Init => Ownership
  BY ConstantsOK DEF Init, Ownership, Publication, Control, TypeOK, QueueControl,
         RequestControl, RunnerControl, WorkerControl, DownControl, ReportControl,
         FailureControl, FailureHasNoReport, PendingHasOwner,
         UnattendedIsSettled
<1>2. Ownership /\ [Next]_vars => Ownership'
  BY OwnershipStep
<1> QED BY <1>1, <1>2, PTL DEF Spec

\* A record that says queued or running has a request, the queue or a worker
\* that will settle it.
THEOREM PendingJobsHaveOwners ==
    ASSUME PromptStart, MaxFaults = 0 PROVE Spec => []PendingHasOwner
<1>1. Ownership => PendingHasOwner
  BY DEF Ownership
<1> QED BY <1>1, OwnershipHolds, PTL

\* A runner that nobody waits on any more works for a settled job.
THEOREM AbandonedJobsAreSettled ==
    ASSUME PromptStart, MaxFaults = 0 PROVE Spec => []UnattendedIsSettled
<1>1. Ownership => UnattendedIsSettled
  BY DEF Ownership
<1> QED BY <1>1, OwnershipHolds, PTL

\* A job that failed while the service ran never leaves a report behind.
THEOREM FailedJobsHaveNoReport ==
    ASSUME PromptStart, MaxFaults = 0 PROVE Spec => []FailureHasNoReport
<1>1. Ownership => FailureHasNoReport
  BY DEF Ownership, FailureControl
<1> QED BY <1>1, OwnershipHolds, PTL

\* At most as many jobs are shown running as the pool has workers: each one
\* shown running has a worker of its own waiting for it.
THEOREM RunningNeverExceedsWorkers ==
    ASSUME PromptStart, MaxFaults = 0 PROVE Spec => []RunningBounded
<1>1. ASSUME Ownership PROVE RunningBounded
  <2> DEFINE Running == {j \in Jobs : job[j] = "running"}
             Taken == {worker[w] : w \in Workers}
  <2> SUFFICES ASSUME proc = "serving" PROVE Cardinality(Running) <= Cardinality(Workers)
    BY DEF RunningBounded
  <2>1. IsFiniteSet(Workers)
    BY ConstantsOK
  <2>2. IsFiniteSet(Taken) /\ Cardinality(Taken) <= Cardinality(Workers)
    <3>1. worker \in Surjection(Workers, Taken)
      BY <1>1 DEF Ownership, Publication, Control, TypeOK, Surjection
    <3> HIDE DEF Taken
    <3> QED BY <2>1, <3>1, FS_Surjection
  <2>3. Running \subseteq Taken
    BY <1>1 DEF Ownership, PendingHasOwner, Publication, Control, TypeOK, QueueControl,
           RequestControl, Queued, Attended
  <2>4. Cardinality(Running) <= Cardinality(Taken)
    BY <2>2, <2>3, FS_Subset
  <2>5. IsFiniteSet(Running) /\ Cardinality(Running) \in Nat
        /\ Cardinality(Taken) \in Nat /\ Cardinality(Workers) \in Nat
    BY <2>1, <2>2, <2>3, FS_Subset, FS_CardinalityType
  <2> QED BY <2>2, <2>4, <2>5
<1>2. Ownership => RunningBounded
  BY <1>1
<1> QED BY <1>2, OwnershipHolds, PTL
=============================================================================
