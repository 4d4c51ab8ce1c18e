------------------------ MODULE BoundedProcessProofs ------------------------
(***************************************************************************)
(* Proofs about BoundedProcess for any helpers, ceiling, chunk size and    *)
(* pipe capacity: types, what a completed status rests on, and what is     *)
(* left of the child.                                                      *)
(***************************************************************************)
EXTENDS BoundedProcess, TLAPS

-----------------------------------------------------------------------------
(* The inductive invariant, in parts.                                       *)

\* Before it starts the child has done nothing, and nothing of it exists.
NotStarted ==
    proc[Leader] = "unborn" =>
        /\ pc \in {"start", "done"} /\ open = {}
        /\ proc = [p \in Procs |-> "unborn"] /\ holds = [p \in Procs |-> {}]
        /\ \A s \in Pipes : pipe[s] = 0 /\ wrote[s] = 0 /\ buf[s] = 0

Intact == ~limited /\ ~timedOut

\* Until output is dropped every unit written is in the pipe or kept, and a
\* pipe whose end was read stays empty, nobody holding it.
Conserved ==
    Intact => \A s \in Pipes :
        /\ wrote[s] = pipe[s] + buf[s]
        /\ s \notin open => pipe[s] = 0 /\ ~Held(s)

Looping ==
    /\ pc = "start" => proc[Leader] = "unborn"
    /\ pc = "read" => ready \subseteq open /\ \A s \in ready : Readable(s)
    /\ Intact /\ pc \in {"wait", "waitAgain", "judge", "done"} => open = {}

Settled ==
    /\ code # "none" => proc[Leader] = "gone"
    /\ status = "completed" => pc = "done"
    /\ status = "completed" /\ proc[Leader] # "unborn" => Intact /\ code \in Exits

Fates == KillTakesTree /\ (pc \in {"waitAgain", "judge", "done"} => proc[Leader] # "running")

IInv == TypeOK /\ NotStarted /\ Conserved /\ Looping /\ Settled /\ Fates

-----------------------------------------------------------------------------
LEMMA KeepFacts ==
    ASSUME TypeOK, NEW s \in Pipes
    PROVE  /\ Size(s) \in Nat /\ Size(s) <= pipe[s]
           /\ Keep(s) \in [Pipes -> 0..Limit]
           /\ Size(s) <= Limit - buf[s] => Keep(s) = [buf EXCEPT ![s] = @ + Size(s)]
<1>1. Limit \in Nat /\ Chunk \in Nat BY ProcessOK
<1>2. pipe[s] \in Nat /\ buf \in [Pipes -> 0..Limit] /\ buf[s] \in 0..Limit BY DEF TypeOK
<1>3. Size(s) \in Nat /\ Size(s) <= pipe[s] BY <1>1, <1>2 DEF Size
<1> HIDE DEF Size
<1> DEFINE kept == IF Size(s) > Limit - buf[s] THEN Limit ELSE buf[s] + Size(s)
<1>4. kept \in 0..Limit BY <1>1, <1>2, <1>3
<1>5. Keep(s) = [buf EXCEPT ![s] = kept] BY DEF Keep
<1>6. Keep(s) \in [Pipes -> 0..Limit] BY <1>2, <1>4, <1>5
<1>7. Size(s) <= Limit - buf[s] => kept = buf[s] + Size(s) BY <1>1, <1>2, <1>3
<1> QED BY <1>3, <1>5, <1>6, <1>7

LEMMA TerminateFacts ==
    ASSUME TypeOK, Terminate
    PROVE  /\ proc' \in [Procs -> {"unborn", "running", "doomed", "gone"}]
           /\ \A p \in Procs : proc'[p] # proc[p] => proc[p] = "running" /\ proc'[p] = "doomed"
           /\ proc[Leader] # "gone" => \A p \in Procs : proc'[p] # "running"
           /\ Leader \in Procs
<1> DEFINE Life == {"unborn", "running", "doomed", "gone"}
           next(p) == IF proc[Leader] # "gone" /\ proc[p] = "running" THEN "doomed" ELSE proc[p]
<1>1. Leader \in Procs BY DEF Procs
<1>2. proc \in [Procs -> Life] BY DEF TypeOK
<1>3. \A p \in Procs : next(p) \in Life BY <1>2
<1>4. proc' = [p \in Procs |-> next(p)] BY DEF Terminate
<1>5. proc' \in [Procs -> Life] BY <1>3, <1>4
<1>6. \A p \in Procs : proc'[p] = next(p) BY <1>4
<1> QED BY <1>1, <1>5, <1>6

\* Every step keeps the types.
LEMMA TypeStep == TypeOK /\ [Next]_vars => TypeOK'
<1> SUFFICES ASSUME TypeOK, [Next]_vars PROVE TypeOK'
    OBVIOUS
<1> USE DEF child, parent, Codes, Exits
<1>1. ASSUME NEW p \in Procs, NEW h \in Helpers, Fork(p, h) PROVE TypeOK'
    BY <1>1 DEF TypeOK, Fork
<1>2. ASSUME NEW p \in Procs, NEW s \in Pipes, ClosePipe(p, s) PROVE TypeOK'
    BY <1>2 DEF TypeOK, ClosePipe
<1>3. ASSUME NEW p \in Procs, NEW s \in Pipes, Write(p, s) PROVE TypeOK'
    BY <1>3 DEF TypeOK, Write
<1>4. ASSUME NEW p \in Procs, NEW exit \in Codes, Gone(p, exit) PROVE TypeOK'
    BY <1>4 DEF TypeOK, Gone
<1>5. ASSUME NEW p \in Procs, Exit(p) \/ Die(p) PROVE TypeOK'
    BY <1>4, <1>5 DEF Exit, Die
<1>6. CASE Expire BY <1>6 DEF TypeOK, Expire
<1>7. CASE NotRun BY <1>7 DEF TypeOK, NotRun
<1>8. CASE Spawn BY <1>8 DEF TypeOK, Spawn, Procs
<1>9. CASE Select BY <1>9 DEF TypeOK, Select
<1>10. CASE Timeout BY <1>10, TerminateFacts DEF TypeOK, Timeout
<1>11. CASE LoopEnds BY <1>11 DEF TypeOK, LoopEnds
<1>12. ASSUME NEW s \in Pipes, ReadEnd(s) PROVE TypeOK'
    BY <1>12 DEF TypeOK, ReadEnd
<1>13. ASSUME NEW s \in Pipes, ReadChunk(s) PROVE TypeOK'
    <2>1. pipe' \in [Pipes -> Nat] /\ buf' \in [Pipes -> 0..Limit]
        BY <1>13, KeepFacts DEF TypeOK, ReadChunk
    <2>2. proc' \in [Procs -> {"unborn", "running", "doomed", "gone"}]
        BY <1>13, TerminateFacts DEF TypeOK, ReadChunk
    <2> QED BY <1>13, <2>1, <2>2 DEF TypeOK, ReadChunk
<1>14. CASE Reaped \/ GiveUp BY <1>14 DEF TypeOK, Reaped, GiveUp
<1>15. CASE WaitExpires BY <1>15, TerminateFacts DEF TypeOK, WaitExpires
<1>16. CASE Judge BY <1>16 DEF TypeOK, Judge
<1>17. CASE UNCHANGED vars BY <1>17 DEF TypeOK, vars
<1> QED BY <1>1, <1>2, <1>3, <1>5, <1>6, <1>7, <1>8, <1>9, <1>10, <1>11, <1>12, <1>13,
           <1>14, <1>15, <1>16, <1>17 DEF Next, ChildStep, ParentStep

LEMMA TypeInit == Init => TypeOK
<1> Limit \in Nat BY ProcessOK
<1> SUFFICES ASSUME Init PROVE TypeOK OBVIOUS
<1>1. [s \in Pipes |-> 0] \in [Pipes -> Nat] /\ [s \in Pipes |-> 0] \in [Pipes -> 0..Limit]
    OBVIOUS
<1> QED BY <1>1 DEF Init, TypeOK, Codes, Exits

\* Every variable keeps its type; in particular what is kept of a pipe never
\* exceeds the ceiling ("a hard parent-memory ceiling").
THEOREM TypeCorrect == Spec => []TypeOK
BY TypeInit, TypeStep, PTL DEF Spec

-----------------------------------------------------------------------------
(* The steps of the child.                                                  *)

Others == NotStarted /\ Conserved /\ Looping /\ Settled /\ Fates

LEMMA ForkStep ==
    ASSUME IInv, NEW p \in Procs, NEW h \in Helpers, Fork(p, h) PROVE Others'
<1> USE DEF IInv, Fork, child, parent
<1>1. Leader \in Procs /\ h # Leader /\ h \in Procs
    <2>1. Leader \notin Helpers BY ProcessOK
    <2> QED BY <2>1 DEF Procs
<1>2. proc'[Leader] = proc[Leader] /\ proc[Leader] # "unborn" BY <1>1 DEF TypeOK, NotStarted
<1>3. \A s \in Pipes : Held(s)' => Held(s)
    <2>1. PICK kept \in SUBSET holds[p] : holds' = [holds EXCEPT ![h] = kept] OBVIOUS
    <2> QED BY <1>1, <2>1 DEF TypeOK, Held
<1>4. NotStarted' BY <1>2 DEF NotStarted
<1>5. Conserved' BY <1>3 DEF TypeOK, Conserved, Intact
<1>6. Looping' BY <1>2, <1>3 DEF TypeOK, Looping, Readable, Intact
<1>7. Settled' BY <1>2 DEF Settled, Intact
<1>8. Fates' BY <1>2 DEF Fates, KillTakesTree
<1> QED BY <1>4, <1>5, <1>6, <1>7, <1>8 DEF Others

LEMMA WriteStep ==
    ASSUME IInv, NEW p \in Procs, NEW s \in Pipes, ClosePipe(p, s) \/ Write(p, s) PROVE Others'
<1> USE DEF IInv, child, parent
<1>1. UNCHANGED <<proc, code, parent>> /\ proc[p] = "running" BY DEF ClosePipe, Write
<1>2. Leader \in Procs BY DEF Procs
<1>3. proc[Leader] # "unborn" BY <1>1 DEF NotStarted
<1>4. NotStarted' BY <1>1, <1>3 DEF NotStarted
<1>5. \A q \in Pipes : Held(q)' => Held(q) BY DEF TypeOK, Held, ClosePipe, Write
<1>6. \A q \in Pipes : wrote[q] = pipe[q] + buf[q] => wrote'[q] = pipe'[q] + buf'[q]
    BY DEF TypeOK, ClosePipe, Write
<1>7. \A q \in Pipes \ open : pipe'[q] = pipe[q]
    BY DEF TypeOK, ClosePipe, Write
<1>8. Conserved' BY <1>1, <1>5, <1>6, <1>7 DEF Conserved, Intact
<1>9. \A q \in Pipes : pipe[q] > 0 => pipe'[q] > 0 BY DEF TypeOK, ClosePipe, Write
<1>10. Looping' BY <1>1, <1>5, <1>9 DEF TypeOK, Looping, Readable, Intact
<1>11. Settled' /\ Fates' BY <1>1 DEF Settled, Intact, Fates, KillTakesTree
<1> QED BY <1>4, <1>8, <1>10, <1>11 DEF Others

LEMMA GoneStep ==
    ASSUME IInv, NEW p \in Procs, Exit(p) \/ Die(p) PROVE Others'
<1> USE DEF IInv, child, parent
<1>1. PICK exit \in Codes : /\ Gone(p, exit)
                            /\ proc[p] \in {"running", "doomed"}
                            /\ exit # "none"
                            /\ exit = "killed" => proc[p] = "doomed"
    BY DEF Exit, Die, Codes, Exits
<1>2. Leader \in Procs BY DEF Procs
<1>3. proc[Leader] # "unborn" /\ proc'[Leader] # "unborn" BY <1>1, <1>2 DEF TypeOK, Gone, NotStarted
<1>4. NotStarted' BY <1>3 DEF NotStarted
<1>5. \A q \in Pipes : Held(q)' => Held(q) BY <1>1 DEF TypeOK, Held, Gone
<1>6. Conserved' BY <1>1, <1>5 DEF Conserved, Intact, Gone
<1>7. Looping' BY <1>1, <1>3, <1>5 DEF TypeOK, Looping, Readable, Intact, Gone
<1>8. Settled' BY <1>1, <1>2, <1>3 DEF TypeOK, Settled, Intact, Gone, Exits
<1>9. Fates' BY <1>1, <1>2 DEF TypeOK, Fates, KillTakesTree, Gone
<1> QED BY <1>4, <1>6, <1>7, <1>8, <1>9 DEF Others

-----------------------------------------------------------------------------
(* The steps of the parent.                                                 *)

LEMMA StartStep ==
    ASSUME IInv, NotRun \/ Spawn PROVE Others'
<1> USE DEF IInv, child, parent
<1>1. Leader \in Procs BY DEF Procs
<1>2. proc[Leader] = "unborn" BY DEF NotRun, Spawn, Looping
<1>3. /\ \A q \in Procs : proc[q] = "unborn" /\ holds[q] = {}
      /\ \A s \in Pipes : pipe[s] = 0 /\ wrote[s] = 0 /\ buf[s] = 0
    BY <1>2 DEF NotStarted
<1>4. CASE NotRun
    <2>1. NotStarted' BY <1>2, <1>4 DEF NotStarted, NotRun
    <2>2. Conserved' BY <1>3, <1>4 DEF Conserved, Intact, Held, NotRun
    <2>3. Looping' BY <1>4, <1>2 DEF Looping, Intact, Readable, NotRun, TypeOK, NotStarted
    <2>4. Settled' /\ Fates' BY <1>1, <1>2, <1>3, <1>4 DEF Settled, Intact, Fates, KillTakesTree, NotRun
    <2> QED BY <2>1, <2>2, <2>3, <2>4 DEF Others
<1>5. CASE Spawn
    <2>1. proc'[Leader] = "running" BY <1>1, <1>5 DEF TypeOK, Spawn
    <2>2. NotStarted' BY <2>1 DEF NotStarted
    <2>3. Conserved' BY <1>3, <1>5 DEF Conserved, Intact, Spawn
    <2>4. Looping' BY <1>5 DEF Looping, Spawn
    <2>5. Settled' /\ Fates' BY <1>5, <1>2, <2>1 DEF Settled, Intact, Fates, KillTakesTree, Spawn
    <2> QED BY <2>2, <2>3, <2>4, <2>5 DEF Others
<1> QED BY <1>4, <1>5

\* Steps that only move the parent about.
LEMMA QuietStep ==
    ASSUME IInv, Expire \/ Select \/ LoopEnds \/ Reaped \/ GiveUp PROVE Others'
<1> USE DEF IInv, child, parent
<1>1. UNCHANGED <<child, buf, limited, timedOut, status>>
    BY DEF Expire, Select, LoopEnds, Reaped, GiveUp
<1>2. proc[Leader] = "unborn" => pc' = pc /\ open' = open
    BY DEF NotStarted, Expire, Select, LoopEnds, Reaped, GiveUp
<1>3. NotStarted' BY <1>1, <1>2 DEF NotStarted
<1>4. Intact => open' = open
    BY DEF Looping, Expire, Select, LoopEnds, Reaped, GiveUp
<1>5. Conserved' BY <1>1, <1>4 DEF Conserved, Intact, Held
<1>6. Looping'
    BY <1>1, <1>4 DEF TypeOK, Looping, Intact, Readable, Held, Expire, Select, LoopEnds, Reaped, GiveUp
<1>7. Settled'
    BY <1>1 DEF Settled, Intact, Expire, Select, LoopEnds, Reaped, GiveUp
<1>8. Fates'
    BY <1>1 DEF Fates, KillTakesTree, Expire, Select, LoopEnds, Reaped, GiveUp
<1> QED BY <1>3, <1>5, <1>6, <1>7, <1>8 DEF Others

LEMMA KillStep ==
    ASSUME IInv, Timeout \/ WaitExpires PROVE Others'
<1> USE DEF IInv, child, parent
<1>1. Terminate /\ UNCHANGED <<holds, pipe, wrote, code, buf, limited, status>>
    BY DEF Timeout, WaitExpires
<1>2. pc \in {"loop", "wait"} /\ pc' \in {"wait", "waitAgain"} BY DEF Timeout, WaitExpires
<1>3. proc[Leader] # "unborn" BY <1>2 DEF NotStarted
<1>4. proc'[Leader] # "unborn" BY <1>1, <1>3, TerminateFacts
<1>5. NotStarted' BY <1>4 DEF NotStarted
<1>6. Intact' => Intact /\ open' = open BY <1>1 DEF Intact, Timeout, WaitExpires
<1>7. Conserved' BY <1>1, <1>6 DEF Conserved, Held
<1>8. Looping' BY <1>2, <1>6 DEF Looping, Timeout, WaitExpires, Intact
<1>9. code # "none" => proc'[Leader] = "gone" BY <1>1, TerminateFacts DEF Settled
<1>10. Settled' BY <1>1, <1>2, <1>9 DEF Settled
<1>11. Fates' BY <1>1, <1>2, TerminateFacts DEF Fates, KillTakesTree, Settled
<1> QED BY <1>5, <1>7, <1>8, <1>10, <1>11 DEF Others

LEMMA ReadEndStep ==
    ASSUME IInv, NEW s \in Pipes, ReadEnd(s) PROVE Others'
<1> USE DEF IInv, ReadEnd, child, parent
<1>1. proc[Leader] # "unborn" BY DEF NotStarted
<1>2. NotStarted' BY <1>1 DEF NotStarted
<1>3. pipe[s] = 0 /\ ~Held(s) BY DEF TypeOK, Looping, Readable
<1>4. Conserved' BY <1>3 DEF Conserved, Intact, Held
<1>5. Looping' BY DEF Looping, Intact, Readable, Held
<1>6. Settled' /\ Fates' BY DEF Settled, Intact, Fates, KillTakesTree
<1> QED BY <1>2, <1>4, <1>5, <1>6 DEF Others

LEMMA ReadChunkStep ==
    ASSUME IInv, NEW s \in Pipes, ReadChunk(s) PROVE Others'
<1> USE DEF IInv, child, parent
<1>1. proc[Leader] # "unborn" BY DEF NotStarted, ReadChunk
<1>2. Size(s) \in Nat /\ Size(s) <= pipe[s] BY KeepFacts
<1>3. CASE Size(s) > Limit - buf[s]
    <2>1. /\ Terminate /\ limited' = TRUE /\ pc' = "wait"
          /\ UNCHANGED <<code, status, timedOut, open>>
        BY <1>3 DEF ReadChunk
    <2>2. proc'[Leader] # "unborn" BY <1>1, <2>1, TerminateFacts
    <2>3. NotStarted' /\ Conserved' /\ Looping'
        BY <2>1, <2>2 DEF NotStarted, Conserved, Looping, Intact
    <2>4. code # "none" => proc'[Leader] = "gone" BY <2>1, TerminateFacts DEF Settled
    <2>5. status # "completed" BY DEF Settled, ReadChunk
    <2>6. Settled' BY <2>1, <2>4, <2>5 DEF Settled
    <2>7. Fates' BY <2>1, TerminateFacts DEF Fates, KillTakesTree, Settled
    <2> QED BY <2>3, <2>6, <2>7 DEF Others
<1>4. CASE ~(Size(s) > Limit - buf[s])
    <2>1. /\ UNCHANGED <<holds, proc, limited, code, wrote, status, timedOut, open>>
          /\ ready' = ready \ {s} /\ pc' \in {"loop", "read"} /\ pc = "read" /\ s \in ready
          /\ pipe' = [pipe EXCEPT ![s] = @ - Size(s)]
        BY <1>4 DEF ReadChunk
    <2>2. buf' = [buf EXCEPT ![s] = @ + Size(s)]
        <3>1. Limit \in Nat /\ buf[s] \in 0..Limit BY ProcessOK DEF TypeOK
        <3>2. Size(s) <= Limit - buf[s] BY <1>2, <1>4, <3>1
        <3> QED BY <3>2, KeepFacts DEF ReadChunk
    <2>3. s \in open BY <2>1 DEF Looping
    <2>4. \A q \in Pipes : wrote[q] = pipe[q] + buf[q] => wrote[q] = pipe'[q] + buf'[q]
        BY <2>1, <2>2, <1>2 DEF TypeOK
    <2>5. \A q \in Pipes : q # s => pipe'[q] = pipe[q] BY <2>1 DEF TypeOK
    <2>6. Conserved' BY <2>1, <2>3, <2>4, <2>5 DEF Conserved, Intact, Held
    <2>7. NotStarted' BY <1>1, <2>1 DEF NotStarted
    <2>8. \A q \in ready' : Readable(q)'
        BY <2>1, <2>5 DEF TypeOK, Looping, Readable, Held
    <2>9. Looping' BY <2>1, <2>8 DEF Looping, Intact
    <2>10. Settled' /\ Fates' BY <2>1 DEF Settled, Intact, Fates, KillTakesTree
    <2> QED BY <2>6, <2>7, <2>9, <2>10 DEF Others
<1> QED BY <1>3, <1>4

LEMMA JudgeStep ==
    ASSUME IInv, Judge PROVE Others'
<1> USE DEF IInv, Judge, child, parent
<1>1. NotStarted' BY DEF NotStarted
<1>2. Conserved' BY DEF Conserved, Intact, Held
<1>3. Looping' BY DEF Looping, Intact
<1>4. status' = "completed" => ~timedOut /\ ReturnCode \in {"zero", "one"}
    BY DEF TypeOK, Providers, Completes, SemgrepCompletes, YaraCompletes, YaraWorkerCompletes,
           ArtifactCompletes, GunzipCompletes
<1>5. status' = "completed" => Intact /\ code \in Exits
    BY <1>4 DEF ReturnCode, Intact, Exits
<1>6. Settled' BY <1>5 DEF Settled, Intact
<1>7. Fates' BY DEF Fates, KillTakesTree
<1> QED BY <1>1, <1>2, <1>3, <1>6, <1>7 DEF Others

LEMMA InvInit == Init => IInv
<1> SUFFICES ASSUME Init PROVE IInv OBVIOUS
<1>1. TypeOK BY TypeInit
<1>2. NotStarted /\ Conserved /\ Looping /\ Settled /\ Fates
    BY DEF Init, NotStarted, Conserved, Intact, Held, Looping, Settled, Fates, KillTakesTree, Procs
<1> QED BY <1>1, <1>2 DEF IInv

LEMMA InvStep == IInv /\ [Next]_vars => IInv'
<1> SUFFICES ASSUME IInv, [Next]_vars PROVE IInv' OBVIOUS
<1>1. TypeOK' BY TypeStep DEF IInv
<1>2. Others'
    <2>1. CASE ChildStep BY <2>1, ForkStep, WriteStep, GoneStep DEF ChildStep
    <2>2. CASE Expire BY <2>2, QuietStep
    <2>3. CASE ParentStep
        BY <2>3, StartStep, QuietStep, KillStep, ReadEndStep, ReadChunkStep, JudgeStep DEF ParentStep
    <2>4. CASE UNCHANGED vars
        BY <2>4 DEF vars, child, parent, IInv, Others, NotStarted, Conserved, Intact, Held, Looping,
           Readable, Settled, Fates, KillTakesTree
    <2> QED BY <2>1, <2>2, <2>3, <2>4 DEF Next
<1> QED BY <1>1, <1>2 DEF IInv, Others

-----------------------------------------------------------------------------
(* What follows.                                                            *)

\* The invariant: units are conserved until output is dropped, and a killed
\* child has no running helper.
THEOREM ProcessInvariant == Spec => []IInv
BY InvInit, InvStep, PTL DEF Spec

\* "A truncated provider payload is never a successful analysis": whatever the
\* ceiling, chunk and pipe sizes and however many helpers write, a provider
\* that ran is completed only on the whole of its output.
THEOREM CompletedProvidersAreWhole == Spec => []CompletedIsWhole
<1>1. IInv => CompletedIsWhole
    <2> SUFFICES ASSUME IInv, status = "completed" PROVE buf = wrote /\ (code \in Exits \/ proc[Leader] = "unborn")
        BY DEF CompletedIsWhole
    <2>1. \A s \in Pipes : buf[s] = wrote[s]
        <3>1. CASE proc[Leader] = "unborn" BY <3>1 DEF IInv, NotStarted
        <3>2. CASE proc[Leader] # "unborn"
            <4>1. Intact /\ open = {} BY <3>2 DEF IInv, Settled, Looping
            <4> QED BY <4>1 DEF IInv, TypeOK, Conserved
        <3> QED BY <3>1, <3>2
    <2>2. buf = wrote BY <2>1 DEF IInv, TypeOK
    <2> QED BY <2>2 DEF IInv, Settled
<1> QED BY <1>1, ProcessInvariant, PTL

\* Killing the child kills its whole tree, for any number of helpers.
THEOREM KilledTreesStop == Spec => []KillTakesTree
<1>1. IInv => KillTakesTree BY DEF IInv, Fates
<1> QED BY <1>1, ProcessInvariant, PTL

\* No call leaves its child running.
THEOREM ChildrenAreSettled == Spec => []ChildIsSettled
<1>1. IInv => ChildIsSettled BY DEF IInv, Fates, ChildIsSettled
<1> QED BY <1>1, ProcessInvariant, PTL
=============================================================================
