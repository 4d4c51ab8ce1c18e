------------------------- MODULE LocalSessionProofs -------------------------
(***************************************************************************)
(* Proofs about LocalSession, for any number of scans, exports, profiles    *)
(* and seconds.                                                            *)
(***************************************************************************)
EXTENDS LocalSession, TLAPS

-----------------------------------------------------------------------------
(* Types.                                                                   *)

LEMMA InitTypes == Init => TypeOK
BY SessionOK DEF Init, TypeOK, Setting, Build, ScanThread, ExportThread, Names, Scans, Time

LEMMA ScanStepTypes ==
    ASSUME TypeOK, NEW s \in Scans, Begin(s) \/ ScanStep(s)
    PROVE  TypeOK'
<1> USE SessionOK DEF TypeOK, ScanThread, Setting, Build, history, screen, Moves
<1>1. CASE Begin(s)
  <2> DEFINE r == [scan[s] EXCEPT !.pc = "begun", !.profile = filter]
  <2>1. scan' = [scan EXCEPT ![s] = r]
    BY <1>1 DEF Begin
  <2>2. r \in ScanThread
    BY <1>1 DEF Begin
  <2> HIDE DEF r, ScanThread
  <2> QED BY <2>1, <2>2, <1>1 DEF Begin, Live, Busy
<1>2. CASE Drop(s)        BY <1>2 DEF Drop
<1>3. CASE SaveEnv(s)
  <2> DEFINE r == [scan[s] EXCEPT !.pc = "saved", !.saved = env]
  <2>1. scan' = [scan EXCEPT ![s] = r]
    BY <1>3 DEF SaveEnv
  <2>2. r \in ScanThread
    BY <1>3 DEF SaveEnv
  <2> HIDE DEF r, ScanThread
  <2> QED BY <2>1, <2>2, <1>3 DEF SaveEnv, Holding
<1>4. CASE SetEnv(s)      BY <1>4 DEF SetEnv
<1>5. CASE Report(s)
  <2> DEFINE r == [scan[s] EXCEPT !.pc = "built", !.raw = ScannerBuild(env), !.sid = now']
  <2>1. scan' = [scan EXCEPT ![s] = r]
    BY <1>5 DEF Report
  <2>t. now' \in Time
    BY <1>5 DEF Report, Time
  <2>b. ScannerBuild(env) \in Build
    BY DEF ScannerBuild
  <2>2. r \in ScanThread
    BY <2>t, <2>b
  <2> HIDE DEF r, ScanThread
  <2> QED BY <2>1, <2>2, <2>t, <1>5 DEF Report
<1>6. CASE ScanRaises(s)  BY <1>6 DEF ScanRaises
<1>7. CASE Restore(s)     BY <1>7 DEF Restore
<1>8. CASE Display(s)
  <2> DEFINE r == [scan[s] EXCEPT !.pc = "ready", !.seen = Stamp(env)]
  <2>1. scan' = [scan EXCEPT ![s] = r]
    BY <1>8 DEF Display
  <2>2. r \in ScanThread
    BY <1>8 DEF Display, Stamp
  <2> HIDE DEF r, ScanThread
  <2> QED BY <2>1, <2>2, <1>8 DEF Display
<1>9. CASE Unable(s)      BY <1>9 DEF Unable
<1>10. CASE Deliver(s)    BY <1>10 DEF Deliver, Busy
<1>11. CASE Fail(s)       BY <1>11 DEF Fail
<1>12. CASE Unheard(s)    BY <1>12 DEF Unheard
<1> QED BY <1>1, <1>2, <1>3, <1>4, <1>5, <1>6, <1>7, <1>8, <1>9, <1>10, <1>11, <1>12 DEF ScanStep

LEMMA ContentsType ==
    ASSUME TypeOK, NEW e \in Exports, export[e].of # 0
    PROVE  Contents(e) \in File
<1> DEFINE s == export[e].of
<1>1. s \in Scans /\ scan[s] \in ScanThread
  BY DEF TypeOK, ExportThread
<1>2. CASE export[e].fmt = "html"
  BY <1>1, <1>2 DEF Contents, TypeOK, File, ExportThread, ScanThread
<1>3. CASE export[e].fmt = "json"
  BY <1>1, <1>3 DEF Contents, TypeOK, File, ExportThread, ScanThread
<1>4. CASE export[e].fmt = "zip"
  BY <1>1, <1>4 DEF Contents, TypeOK, File, ExportThread, ScanThread, Stamp, Build, Setting
<1> QED BY <1>2, <1>3, <1>4 DEF TypeOK, ExportThread

LEMMA ExportStepTypes ==
    ASSUME TypeOK, NEW e \in Exports, ExportOK(e), ScreenOK,
           (\E fmt \in Formats : Ask(e, fmt)) \/ ExportStep(e)
    PROVE  TypeOK'
<1> USE SessionOK DEF TypeOK, ExportThread, history, screen
<1>1. CASE \E fmt \in Formats : Ask(e, fmt)
  <2>1. PICK fmt \in Formats : Ask(e, fmt)
    BY <1>1
  <2> DEFINE r == [export[e] EXCEPT !.pc = "asked", !.fmt = fmt]
  <2>2. r \in ExportThread /\ export' = [export EXCEPT ![e] = r]
    BY <2>1 DEF Ask
  <2> HIDE DEF r, ExportThread
  <2> QED BY <2>1, <2>2 DEF Ask
<1>2. CASE Name(e)
  <2> DEFINE r == [export[e] EXCEPT !.pc = "named", !.sid = scan[shown].sid]
  <2>1. scan[shown] \in ScanThread
    BY <1>2 DEF Name, ExportOK
  <2>s. scan[shown].sid \in Time
    BY <2>1 DEF ScanThread
  <2>2. r \in ExportThread /\ export' = [export EXCEPT ![e] = r]
    BY <1>2, <2>s DEF Name
  <2> HIDE DEF r, ExportThread
  <2>3. export' \in [Exports -> ExportThread]
    BY <2>2
  <2>4. UNCHANGED <<open, screen, given, env, now, scan, file, history>>
    BY <1>2 DEF Name
  <2> QED BY <2>3, <2>4
<1>3. CASE Read(e)
  <2> DEFINE r == [export[e] EXCEPT !.pc = "read", !.of = shown, !.profile = label]
  <2>1. r \in ExportThread /\ export' = [export EXCEPT ![e] = r]
    BY <1>3 DEF Read
  <2> HIDE DEF r, ExportThread
  <2>2. export' \in [Exports -> ExportThread]
    BY <2>1
  <2>3. UNCHANGED <<open, screen, given, env, now, scan, file, history>>
    BY <1>3 DEF Read
  <2> QED BY <2>2, <2>3
<1>4. CASE Write(e)
  <2>1. Contents(e) \in File
    BY <1>4, ContentsType DEF Write, ExportOK
  <2>2. export' \in [Exports -> ExportThread]
    BY <1>4 DEF Write
  <2>3. file' \in [Names -> File \cup {NoFile}]
    BY <1>4, <2>1 DEF Write
  <2> QED BY <1>4, <2>2, <2>3 DEF Write
<1>5. CASE WriteRaises(e) BY <1>5 DEF WriteRaises
<1>6. CASE Verify(e)      BY <1>6 DEF Verify
<1>7. CASE Complete(e)    BY <1>7 DEF Complete
<1> QED BY <1>1, <1>2, <1>3, <1>4, <1>5, <1>6, <1>7 DEF ExportStep

LEMMA UserStepTypes ==
    ASSUME TypeOK, Choose \/ Back \/ Quit
    PROVE  TypeOK'
BY DEF TypeOK, Choose, Back, Quit, screen, history

-----------------------------------------------------------------------------
(* What the steps of a thread leave alone.                                  *)

LEMMA ScanStepFacts ==
    ASSUME TypeOK, NEW s \in Scans, ScanStep(s)
    PROVE  /\ \A t \in Scans \ {s} : scan'[t] = scan[t]
           /\ scan'[s].profile = scan[s].profile
           /\ s \in Live /\ scan'[s].pc # "idle" /\ Live' \subseteq Live
           /\ UNCHANGED <<open, label, given, export, file, overtaken>>
           /\ \/ /\ shown' = s /\ view' = "results" /\ receipt' = {}
                 /\ crossed' = crossed \cup Busy
                 /\ scan'[s].pc = "done"
              \/ UNCHANGED <<shown, receipt, crossed>> /\ view' \in {view, "picker"}
<1> USE DEF TypeOK, ScanThread, Moves, Live, screen, history
<1>1. CASE Drop(s)        BY <1>1 DEF Drop
<1>2. CASE SaveEnv(s)     BY <1>2 DEF SaveEnv
<1>3. CASE SetEnv(s)      BY <1>3 DEF SetEnv
<1>4. CASE Report(s)      BY <1>4 DEF Report
<1>5. CASE ScanRaises(s)  BY <1>5 DEF ScanRaises
<1>6. CASE Restore(s)     BY <1>6 DEF Restore
<1>7. CASE Display(s)     BY <1>7 DEF Display
<1>8. CASE Unable(s)      BY <1>8 DEF Unable
<1>9. CASE Deliver(s)     BY <1>9 DEF Deliver
<1>10. CASE Fail(s)       BY <1>10 DEF Fail
<1>11. CASE Unheard(s)    BY <1>11 DEF Unheard
<1> QED BY <1>1, <1>2, <1>3, <1>4, <1>5, <1>6, <1>7, <1>8, <1>9, <1>10, <1>11 DEF ScanStep

LEMMA ExportStepFacts ==
    ASSUME TypeOK, NEW e \in Exports, (\E fmt \in Formats : Ask(e, fmt)) \/ ExportStep(e)
    PROVE  /\ \A x \in Exports \ {e} : export'[x] = export[x]
           /\ export'[e].pc # "idle"
           /\ UNCHANGED <<open, view, filter, label, shown, given, env, now, scan, history>>
BY DEF TypeOK, ExportThread, Ask, ExportStep, Name, Read, Write, WriteRaises, Verify, Complete, screen

LEMMA UserFacts ==
    ASSUME Choose \/ Back \/ Quit \/ UNCHANGED vars
    PROVE  /\ UNCHANGED <<label, shown, receipt, given, env, now, scan, export, file, history>>
           /\ view' \in {view, "picker"} /\ open' \in {open, FALSE}
           /\ (open' /\ view # "results") => view' = view
BY DEF Choose, Back, Quit, vars, screen, history

\* A finished scan stays as it is.
LEMMA DoneStays ==
    ASSUME TypeOK, [Next]_vars, NEW t \in Scans, scan[t].pc = "done"
    PROVE  scan'[t] = scan[t]
<1>1. ASSUME NEW s \in Scans, Begin(s) PROVE scan'[t] = scan[t]
  BY <1>1 DEF Begin, TypeOK
<1>2. ASSUME NEW s \in Scans, ScanStep(s) PROVE scan'[t] = scan[t]
  BY <1>2, ScanStepFacts DEF Live
<1>3. ASSUME NEW e \in Exports, (\E fmt \in Formats : Ask(e, fmt)) \/ ExportStep(e) PROVE scan'[t] = scan[t]
  BY <1>3, ExportStepFacts
<1>4. CASE Choose \/ Back \/ Quit \/ UNCHANGED vars
  BY <1>4, UserFacts
<1> QED BY <1>1, <1>2, <1>3, <1>4 DEF Next

-----------------------------------------------------------------------------
(* The parts of the invariant.                                              *)

LEMMA ScreenStep ==
    ASSUME TypeOK, ScreenOK, [Next]_vars
    PROVE  ScreenOK'
<1>1. ASSUME NEW s \in Scans, Begin(s) PROVE ScreenOK'
  <2>1. /\ \A t \in Scans \ {s} : scan'[t] = scan[t]
        /\ scan'[s].pc = "begun" /\ scan'[s].profile = label'
        /\ Live' \subseteq Live \cup {s}
    BY <1>1 DEF Begin, TypeOK, ScanThread, Live
  <2>2. shown' = shown /\ view' = "progress" /\ overtaken' = overtaken \cup Live /\ scan[s].pc = "idle"
    BY <1>1 DEF Begin
  <2> QED BY <2>1, <2>2 DEF ScreenOK, TypeOK, Live
<1>2. ASSUME NEW s \in Scans, ScanStep(s) PROVE ScreenOK'
  <2>1. /\ \A t \in Scans \ {s} : scan'[t] = scan[t]
        /\ scan'[s].profile = scan[s].profile
        /\ s \in Live /\ scan'[s].pc # "idle" /\ Live' \subseteq Live
        /\ UNCHANGED <<label, overtaken>>
        /\ \/ shown' = s /\ view' = "results" /\ scan'[s].pc = "done"
           \/ UNCHANGED shown /\ view' \in {view, "picker"}
    BY <1>2, ScanStepFacts
  <2>2. Live \subseteq Scans /\ scan[s].pc # "done"
    BY <2>1 DEF Live
  <2>3. shown' # 0 => scan'[shown'].pc = "done"
    BY <2>1, <2>2 DEF ScreenOK, TypeOK
  <2>4. view' = "results" => shown' # 0
    BY <2>1 DEF ScreenOK, Scans
  <2>5. (view' = "results" /\ shown' \notin overtaken') => label' = scan'[shown'].profile
    BY <2>1, <2>2 DEF ScreenOK, TypeOK
  <2>6. \A t \in Live' \ overtaken' : label' = scan'[t].profile
    BY <2>1, <2>2 DEF ScreenOK
  <2>7. \A t \in overtaken' : scan'[t].pc # "idle"
    BY <2>1 DEF ScreenOK, TypeOK
  <2> QED BY <2>3, <2>4, <2>5, <2>6, <2>7 DEF ScreenOK
<1>3. ASSUME NEW e \in Exports, (\E fmt \in Formats : Ask(e, fmt)) \/ ExportStep(e) PROVE ScreenOK'
  BY <1>3, ExportStepFacts DEF ScreenOK, Live, history
<1>4. CASE Choose \/ Back \/ Quit \/ UNCHANGED vars
  BY <1>4, UserFacts DEF ScreenOK, Live, history
<1> QED BY <1>1, <1>2, <1>3, <1>4 DEF Next

LEMMA ExportOKStep ==
    ASSUME IInv, [Next]_vars, NEW x \in Exports
    PROVE  ExportOK(x)'
<1> USE DEF IInv
<1>1. ASSUME NEW s \in Scans, Begin(s) PROVE ExportOK(x)'
  <2>1. /\ UNCHANGED <<shown, export, receipt>>
        /\ crossed' = crossed \cup Busy
        /\ \A t \in Scans : scan[t].pc = "done" => scan'[t] = scan[t]
        /\ Busy' = Busy
    BY <1>1, DoneStays DEF Begin, Busy
  <2> QED BY <2>1 DEF ExportOK, TypeOK, ExportThread
<1>2. ASSUME NEW s \in Scans, ScanStep(s) PROVE ExportOK(x)'
  <2>1. /\ UNCHANGED <<label, export, overtaken>>
        /\ \A t \in Scans : scan[t].pc = "done" => scan'[t] = scan[t]
        /\ Busy' = Busy
        /\ \/ shown' = s /\ receipt' = {} /\ crossed' = crossed \cup Busy
           \/ UNCHANGED <<shown, receipt, crossed>>
    BY <1>2, ScanStepFacts, DoneStays DEF Busy
  <2>2. shown # 0 => scan[shown].pc = "done" /\ scan'[shown] = scan[shown]
    BY <2>1 DEF ScreenOK, TypeOK
  <2>3. CASE shown' = s /\ receipt' = {} /\ crossed' = crossed \cup Busy
    BY <2>1, <2>3 DEF ExportOK, TypeOK, ExportThread, Scans
  <2>4. CASE UNCHANGED <<shown, receipt, crossed>>
    BY <2>1, <2>2, <2>4 DEF ExportOK, TypeOK, ExportThread, Busy
  <2> QED BY <2>1, <2>3, <2>4
<1>3. ASSUME NEW e \in Exports, (\E fmt \in Formats : Ask(e, fmt)) \/ ExportStep(e) PROVE ExportOK(x)'
  <2>1. UNCHANGED <<label, shown, scan, overtaken, crossed>>
    BY <1>3, ExportStepFacts DEF history
  <2>2. CASE x # e
    <3>1. export'[x] = export[x]
      BY <1>3, <2>2, ExportStepFacts
    <3>2. receipt' \in {receipt, {e}}
      BY <1>3 DEF Ask, ExportStep, Name, Read, Write, WriteRaises, Verify, Complete, screen
    <3> QED BY <2>1, <2>2, <3>1, <3>2 DEF ExportOK, Busy
  <2>3. CASE x = e
    <3> USE <2>1, <2>3 DEF ExportOK, Busy, TypeOK, ExportThread, screen
    <3>1. CASE \E fmt \in Formats : Ask(e, fmt)  BY <3>1 DEF Ask, ScreenOK
    <3>2. CASE Name(e)         BY <3>2 DEF Name
    <3>3. CASE Read(e)         BY <3>3 DEF Read, ScreenOK
    <3>4. CASE Write(e)        BY <3>4 DEF Write
    <3>5. CASE WriteRaises(e)  BY <3>5 DEF WriteRaises
    <3>6. CASE Verify(e)       BY <3>6 DEF Verify
    <3>7. CASE Complete(e)     BY <3>7 DEF Complete
    <3> QED BY <1>3, <3>1, <3>2, <3>3, <3>4, <3>5, <3>6, <3>7 DEF ExportStep
  <2> QED BY <2>2, <2>3
<1>4. CASE Choose \/ Back \/ Quit \/ UNCHANGED vars
  BY <1>4, UserFacts DEF ExportOK, Busy, history
<1> QED BY <1>1, <1>2, <1>3, <1>4 DEF Next

\* Files change by Write only; what they are made from does not change.
LEMMA FileStep ==
    ASSUME IInv, [Next]_vars
    PROVE  (\A n \in Names : FileOK(n))' /\ ExportsAreTrue'
<1> USE DEF IInv
<1>a. /\ \A t \in Scans : scan[t].pc = "done" => scan'[t] = scan[t]
      /\ overtaken \subseteq overtaken' /\ crossed \subseteq crossed'
      /\ \A e \in Exports : export[e].pc # "idle" => export'[e].pc # "idle"
  <2>1. ASSUME NEW t \in Scans, scan[t].pc = "done" PROVE scan'[t] = scan[t]
    BY <2>1, DoneStays
  <2>2. CASE \E s \in Scans : Begin(s)
    BY <2>1, <2>2 DEF Begin
  <2>3. ASSUME NEW s \in Scans, ScanStep(s)
        PROVE overtaken \subseteq overtaken' /\ crossed \subseteq crossed' /\ export' = export
    BY <2>3, ScanStepFacts
  <2>4. ASSUME NEW e \in Exports, (\E fmt \in Formats : Ask(e, fmt)) \/ ExportStep(e)
        PROVE overtaken' = overtaken /\ crossed' = crossed
              /\ \A x \in Exports : export[x].pc # "idle" => export'[x].pc # "idle"
    BY <2>4, ExportStepFacts DEF history
  <2>5. CASE Choose \/ Back \/ Quit \/ UNCHANGED vars
    BY <2>1, <2>5, UserFacts DEF history
  <2> QED BY <2>1, <2>2, <2>3, <2>4, <2>5 DEF Next
<1>b. ASSUME NEW n \in Names, file'[n] = file[n]
      PROVE  /\ FileOK(n)'
             /\ (file'[n] # NoFile /\ file'[n].by \notin crossed' /\ file'[n].of \notin overtaken')
                => /\ n[2] = scan'[file'[n].of].sid
                   /\ file'[n].profile \in {scan'[file'[n].of].profile, "unstated"}
  <2>1. CASE file[n] = NoFile
    BY <1>b, <2>1 DEF FileOK
  <2>2. CASE file[n] # NoFile
    <3>1. file[n].of \in Scans /\ file[n].by \in Exports
      BY <2>2 DEF TypeOK, File, FileOK
    <3>2. scan'[file[n].of] = scan[file[n].of] /\ export'[file[n].by].pc # "idle"
      BY <1>a, <2>2, <3>1 DEF FileOK
    <3> QED BY <1>a, <1>b, <2>2, <3>1, <3>2 DEF FileOK, ExportsAreTrue
  <2> QED BY <2>1, <2>2
<1>1. CASE UNCHANGED file
  BY <1>1, <1>b DEF ExportsAreTrue
<1>2. ASSUME NEW e \in Exports, Write(e) PROVE (\A n \in Names : FileOK(n))' /\ ExportsAreTrue'
  <2> DEFINE c == Contents(e)
  <2>0. PICK m \in Names : m = <<export[e].fmt, export[e].sid>>
    BY DEF TypeOK, ExportThread, Names
  <2>1. export[e].pc = "read" /\ export[e].of \in Scans /\ scan[export[e].of].pc = "done"
    BY <1>2 DEF Write, TypeOK, ExportThread, ExportOK
  <2>2. c \in File
    BY <2>1, ContentsType DEF Scans
  <2>3. file'[m] = c /\ \A n \in Names \ {m} : file'[n] = file[n]
    BY <1>2, <2>0 DEF Write, TypeOK
  <2>4. /\ c.by = e /\ c.of = export[e].of
        /\ c.profile \in {export[e].profile, scan[export[e].of].profile, "unstated"}
    BY DEF Contents, TypeOK, ExportThread
  <2>5. scan' = scan /\ overtaken' = overtaken /\ crossed' = crossed /\ export'[e].pc # "idle"
    BY <1>2, ExportStepFacts DEF ExportStep, history
  <2>6. (e \notin crossed /\ export[e].of \notin overtaken)
        => /\ export[e].sid = scan[export[e].of].sid
           /\ export[e].profile = scan[export[e].of].profile
    BY <2>1 DEF ExportOK, Busy
  <2>7. m[2] = export[e].sid
    BY <2>0
  <2> HIDE DEF c
  <2>8. FileOK(m)'
    BY <2>1, <2>3, <2>4, <2>5 DEF FileOK, Scans
  <2>9. (file'[m].by \notin crossed' /\ file'[m].of \notin overtaken')
        => m[2] = scan'[file'[m].of].sid /\ file'[m].profile \in {scan'[file'[m].of].profile, "unstated"}
    BY <2>3, <2>4, <2>5, <2>6, <2>7
  <2> QED BY <1>b, <2>3, <2>8, <2>9 DEF ExportsAreTrue
<1> QED
  BY <1>1, <1>2
  DEF Next, Choose, Back, Quit, Begin, ScanStep, Drop, SaveEnv, SetEnv, Report, ScanRaises, Restore, Display,
      Unable, Deliver, Fail, Unheard, Ask, ExportStep, Name, Read, WriteRaises, Verify, Complete, vars

LEMMA ProgressStep ==
    ASSUME IInv, [Next]_vars
    PROVE  ProgressHasAnEnd'
<1> USE DEF IInv
<1>1. ASSUME NEW s \in Scans, Begin(s) PROVE ProgressHasAnEnd'
  <2>1. s \in Live' /\ s \notin Live /\ s \notin overtaken /\ overtaken' = overtaken \cup Live
    BY <1>1 DEF Begin, TypeOK, ScanThread, Live, ScreenOK
  <2> QED BY <2>1 DEF ProgressHasAnEnd
<1>2. ASSUME NEW s \in Scans, ScanStep(s), open', view' = "progress" PROVE Live' \ overtaken' # {}
  <2>1. /\ \A t \in Scans \ {s} : scan'[t] = scan[t]
        /\ open' = open /\ overtaken' = overtaken /\ view = "progress"
    BY <1>2, ScanStepFacts
  <2>2. s \in overtaken \/ s \in Live'
    <3> USE DEF TypeOK, ScanThread, Moves, Live, screen
    <3>1. CASE Drop(s)        BY <3>1 DEF Drop
    <3>2. CASE SaveEnv(s)     BY <3>2 DEF SaveEnv
    <3>3. CASE SetEnv(s)      BY <3>3 DEF SetEnv
    <3>4. CASE Report(s)      BY <3>4 DEF Report
    <3>5. CASE ScanRaises(s)  BY <3>5 DEF ScanRaises
    <3>6. CASE Restore(s)     BY <3>6 DEF Restore
    <3>7. CASE Display(s)     BY <3>7 DEF Display
    <3>8. CASE Unable(s)      BY <3>8 DEF Unable
    <3>9. CASE Deliver(s)     BY <3>9, <1>2 DEF Deliver
    <3>10. CASE Fail(s)       BY <3>10, <1>2 DEF Fail
    <3>11. CASE Unheard(s)    BY <3>11, <1>2 DEF Unheard
    <3> QED BY <1>2, <3>1, <3>2, <3>3, <3>4, <3>5, <3>6, <3>7, <3>8, <3>9, <3>10, <3>11 DEF ScanStep
  <2>3. PICK t \in Live \ overtaken : TRUE
    BY <1>2, <2>1 DEF ProgressHasAnEnd
  <2> QED BY <2>1, <2>2, <2>3 DEF Live
<1>3. ASSUME NEW e \in Exports, (\E fmt \in Formats : Ask(e, fmt)) \/ ExportStep(e) PROVE ProgressHasAnEnd'
  BY <1>3, ExportStepFacts DEF ProgressHasAnEnd, Live, history
<1>4. CASE Choose \/ Back \/ Quit \/ UNCHANGED vars
  BY <1>4, UserFacts DEF ProgressHasAnEnd, Live, history
<1> QED BY <1>1, <1>2, <1>3, <1>4 DEF Next, ProgressHasAnEnd

\* Steps that touch neither the variable nor a thread's part in it.
EnvParts == EnvOK /\ LoneScansNameTheEngine /\ EnvironmentIsRestored

LEMMA EnvFrame ==
    ASSUME TypeOK, EnvParts, UNCHANGED <<env, given, mixed>>, Holding' = Holding,
           \A s \in Scans : /\ scan'[s].saved = scan[s].saved /\ scan'[s].raw = scan[s].raw
                            /\ scan'[s].pc = "set" => scan[s].pc = "set"
    PROVE  EnvParts'
BY DEF EnvParts, EnvOK, LoneScansNameTheEngine, EnvironmentIsRestored, Holding

LEMMA EnvStep ==
    ASSUME TypeOK, EnvParts, [Next]_vars
    PROVE  EnvParts'
<1> USE DEF TypeOK, ScanThread
<1>1. ASSUME NEW s \in Scans, Begin(s) PROVE EnvParts'
  BY <1>1, EnvFrame DEF Begin, Holding
<1>2. ASSUME NEW s \in Scans, ScanStep(s) PROVE EnvParts'
  <2> USE DEF Moves, history, screen
  <2>1. CASE Drop(s)      BY <2>1, EnvFrame DEF Drop, Holding
  <2>2. CASE SaveEnv(s)
    <3>1. /\ \A t \in Scans \ {s} : scan'[t] = scan[t]
          /\ scan'[s].pc = "saved" /\ scan'[s].saved = env /\ scan'[s].raw = scan[s].raw
          /\ Holding' = Holding \cup {s} /\ s \notin Holding
          /\ env' = env /\ given' = given
          /\ mixed \subseteq mixed' /\ (Holding # {} => Holding' \subseteq mixed')
      BY <2>2 DEF SaveEnv, Holding
    <3>2. EnvOK'
      BY <3>1 DEF EnvParts, EnvOK, EnvironmentIsRestored
    <3>3. LoneScansNameTheEngine'
      BY <3>1 DEF EnvParts, LoneScansNameTheEngine
    <3>4. EnvironmentIsRestored'
      BY <3>1 DEF EnvironmentIsRestored
    <3> QED BY <3>2, <3>3, <3>4 DEF EnvParts
  <2>3. CASE SetEnv(s)
    <3>1. /\ \A t \in Scans : scan'[t].saved = scan[t].saved /\ scan'[t].raw = scan[t].raw
          /\ s \in Holding /\ Holding' = Holding /\ env' = "engine" /\ UNCHANGED <<given, mixed>>
      BY <2>3 DEF SetEnv, Holding
    <3> QED BY <3>1 DEF EnvParts, EnvOK, LoneScansNameTheEngine, EnvironmentIsRestored, Holding
  <2>4. CASE Report(s)
    <3>1. /\ \A t \in Scans \ {s} : scan'[t] = scan[t]
          /\ scan'[s].pc = "built" /\ scan[s].pc = "set" /\ scan'[s].saved = scan[s].saved
          /\ scan'[s].raw = ScannerBuild(env)
          /\ Holding' = Holding /\ UNCHANGED <<env, given, mixed>>
      BY <2>4 DEF Report, Holding
    <3>2. s \notin mixed => ScannerBuild(env) = "engine"
      BY <3>1 DEF EnvParts, EnvOK, ScannerBuild
    <3> QED BY <3>1, <3>2 DEF EnvParts, EnvOK, LoneScansNameTheEngine, EnvironmentIsRestored, Holding
  <2>5. CASE ScanRaises(s) BY <2>5, EnvFrame DEF ScanRaises, Holding
  <2>6. CASE Restore(s)
    <3>1. /\ \A t \in Scans \ {s} : scan'[t] = scan[t]
          /\ scan'[s].saved = scan[s].saved /\ scan'[s].raw = scan[s].raw /\ scan'[s].pc # "set"
          /\ s \in Holding /\ Holding' = Holding \ {s}
          /\ env' = scan[s].saved /\ UNCHANGED <<given, mixed>>
      BY <2>6 DEF Restore, Holding
    <3>2. \A t \in Scans \ mixed : scan'[t].pc # "set"
      BY <3>1 DEF EnvParts, EnvOK, Holding
    <3> QED BY <3>1, <3>2 DEF EnvParts, EnvOK, LoneScansNameTheEngine, EnvironmentIsRestored
  <2>7. CASE Display(s)    BY <2>7, EnvFrame DEF Display, Holding
  <2>8. CASE Unable(s)     BY <2>8, EnvFrame DEF Unable, Holding
  <2>9. CASE Deliver(s)    BY <2>9, EnvFrame DEF Deliver, Holding
  <2>10. CASE Fail(s)      BY <2>10, EnvFrame DEF Fail, Holding
  <2>11. CASE Unheard(s)   BY <2>11, EnvFrame DEF Unheard, Holding
  <2> QED BY <1>2, <2>1, <2>2, <2>3, <2>4, <2>5, <2>6, <2>7, <2>8, <2>9, <2>10, <2>11 DEF ScanStep
<1>3. ASSUME NEW e \in Exports, (\E fmt \in Formats : Ask(e, fmt)) \/ ExportStep(e) PROVE EnvParts'
  BY <1>3, ExportStepFacts, EnvFrame DEF Holding, history
<1>4. CASE Choose \/ Back \/ Quit \/ UNCHANGED vars
  BY <1>4, UserFacts, EnvFrame DEF Holding, history
<1> QED BY <1>1, <1>2, <1>3, <1>4 DEF Next

-----------------------------------------------------------------------------
(* The theorems.                                                            *)

LEMMA Invariant == Spec => []IInv
<1>1. Init => IInv
  <2> SUFFICES ASSUME Init PROVE IInv
    OBVIOUS
  <2>1. TypeOK
    BY InitTypes
  <2>2. \A s \in Scans : scan[s].pc = "idle" /\ scan[s].raw = "none"
    BY DEF Init
  <2>3. \A e \in Exports : export[e].pc = "idle" /\ e \notin receipt
    BY DEF Init
  <2>4. \A n \in Names : file[n] = NoFile
    BY DEF Init
  <2>5. Live = {} /\ Holding = {} /\ env = given /\ shown = 0 /\ view = "picker" /\ overtaken = {}
    BY <2>2 DEF Live, Holding, Init
  <2> QED
    BY <2>1, <2>2, <2>3, <2>4, <2>5
    DEF IInv, ScreenOK, ExportOK, FileOK, EnvOK, ExportsAreTrue, ProgressHasAnEnd, LoneScansNameTheEngine,
        EnvironmentIsRestored, Busy
<1>2. IInv /\ [Next]_vars => IInv'
  <2> SUFFICES ASSUME IInv, [Next]_vars PROVE IInv'
    OBVIOUS
  <2>1. TypeOK'
    <3>1. CASE UNCHANGED vars
      BY <3>1 DEF IInv, TypeOK, vars, history
    <3> QED BY <3>1, ScanStepTypes, ExportStepTypes, UserStepTypes DEF IInv, Next
  <2>2. EnvParts'
    BY EnvStep DEF IInv, EnvParts
  <2> QED BY <2>1, <2>2, ScreenStep, ExportOKStep, FileStep, ProgressStep DEF IInv, EnvParts
<1> QED BY <1>1, <1>2, PTL DEF Spec

\* Every state of a session has the declared types.
THEOREM TypeCorrect == Spec => []TypeOK
<1>1. IInv => TypeOK BY DEF IInv
<1> QED BY <1>1, Invariant, PTL

\* A file no scan crossed, of a scan none overtook, is named after its own scan
\* and states the profile that scan ran with.
THEOREM PatientExportsAreTrue == Spec => []ExportsAreTrue
<1>1. IInv => ExportsAreTrue BY DEF IInv
<1> QED BY <1>1, Invariant, PTL

\* A receipt stands under the report its file was made from.
THEOREM ReceiptsAreOfTheShown == Spec => []ReceiptIsOfShown
<1>1. IInv => ReceiptIsOfShown BY DEF IInv, ExportOK, ReceiptIsOfShown, TypeOK
<1> QED BY <1>1, Invariant, PTL

\* While the progress view is shown a scan lives that will leave it.
THEOREM ProgressIsAwaited == Spec => []ProgressHasAnEnd
<1>1. IInv => ProgressHasAnEnd BY DEF IInv
<1> QED BY <1>1, Invariant, PTL

\* A scan that held the variable alone reports the engine that made it.
THEOREM LoneReportsNameTheEngine == Spec => []LoneScansNameTheEngine
<1>1. IInv => LoneScansNameTheEngine BY DEF IInv
<1> QED BY <1>1, Invariant, PTL

\* Sessions whose scans never overlap give the environment back.
THEOREM EnvironmentGivenBack == Spec => []EnvironmentIsRestored
<1>1. IInv => EnvironmentIsRestored BY DEF IInv
<1> QED BY <1>1, Invariant, PTL
=============================================================================
