---------------------------- MODULE LocalSession ----------------------------
(***************************************************************************)
(* The interactive session (guardrails_cli/tui.py): the view on screen,    *)
(* scan threads that cannot be stopped, export threads that read the       *)
(* application's fields while these move on, and the environment variable  *)
(* IDE_SCANNER_BUILD_SHA that every scan thread saves, sets and restores.  *)
(*                                                                         *)
(* Scans are numbered in the order in which they begin; 0 is no scan.      *)
(* What a scan finds does not matter here, only whose report it is.        *)
(***************************************************************************)
EXTENDS Integers

CONSTANTS
    Profiles,      \* values of the profile filter
    MaxScans,      \* bound: scans begun in a session
    Exports,       \* bound: export threads of a session
    Formats,       \* the formats the user asks for
    MaxTime        \* bound: seconds that pass

Scans == 1..MaxScans
Time  == 0..MaxTime

ASSUME SessionOK ==
    /\ MaxScans \in Nat /\ MaxTime \in Nat
    /\ Profiles # {} /\ "unstated" \notin Profiles
    /\ Formats \subseteq {"html", "json", "zip"}

VARIABLES
    open,    \* the application runs
    view,    \* which of its three views is shown
    filter,  \* value of the profile filter
    label,   \* report_profile
    shown,   \* the scan whose raw_report and view_report are kept
    receipt, \* the export whose receipt is shown
    given,   \* the environment variable when the session began
    env,     \* the environment variable
    now,     \* the clock, in seconds, as last read
    scan,    \* the scan threads
    export,  \* the export threads
    file,    \* the exported files by format and second

    overtaken, \* history: scans alive when a later one began
    mixed,     \* history: scans that held the variable together with another
    crossed    \* history: exports alive when a scan began or delivered

vars == <<open, view, filter, label, shown, receipt, given, env, now, scan, export, file,
          overtaken, mixed, crossed>>
history == <<overtaken, mixed, crossed>>
screen  == <<view, filter, label, shown, receipt>>

Setting == {"unset", "configured", "engine"}
Build   == {"none", "checkout", "configured", "engine"}

ScanThread ==
    [pc: {"idle", "begun", "saved", "set", "built", "broken", "restored", "failing", "ready",
          "done", "dropped"},
     profile: Profiles, saved: Setting, raw: Build, seen: Build, sid: Time]

ExportThread ==
    [pc: {"idle", "asked", "named", "read", "verify", "saved", "done"},
     fmt: {"html", "json", "zip"}, sid: Time, of: {0} \cup Scans, profile: Profiles]

Names == {"html", "json", "zip"} \X Time
File  == [by: Exports, of: {0} \cup Scans, profile: Profiles \cup {"unstated"}, build: Build]
NoFile == [of |-> -1]

TypeOK ==
    /\ open \in BOOLEAN
    /\ view \in {"picker", "progress", "results"}
    /\ filter \in Profiles /\ label \in Profiles
    /\ shown \in {0} \cup Scans
    /\ receipt \subseteq Exports
    /\ given \in Setting /\ env \in Setting
    /\ now \in Time
    /\ scan \in [Scans -> ScanThread]
    /\ export \in [Exports -> ExportThread]
    /\ file \in [Names -> File \cup {NoFile}]
    /\ overtaken \subseteq Scans /\ mixed \subseteq Scans /\ crossed \subseteq Exports

Live    == {s \in Scans : scan[s].pc \notin {"idle", "done", "dropped"}}
Holding == {s \in Scans : scan[s].pc \in {"saved", "set", "built", "broken"}}
Busy    == {e \in Exports : export[e].pc \notin {"idle", "done"}}

\* scanner_build: the variable, else the checkout's HEAD.
ScannerBuild(setting) == IF setting = "unset" THEN "checkout" ELSE setting

\* The presentation's build: the variable, else the engine's identity.
Stamp(setting) == IF setting = "unset" THEN "engine" ELSE setting

\* The profile at first is "standard"; profiles are alike, so any will do.
Init ==
    /\ open = TRUE /\ view = "picker"
    /\ filter \in Profiles /\ label = filter
    /\ shown = 0 /\ receipt = {}
    /\ given \in {"unset", "configured"} /\ env = given
    /\ now = 0
    /\ scan = [s \in Scans |-> [pc |-> "idle", profile |-> filter, saved |-> "unset", raw |-> "none",
                                seen |-> "none", sid |-> 0]]
    /\ export = [e \in Exports |-> [pc |-> "idle", fmt |-> "html", sid |-> 0, of |-> 0, profile |-> filter]]
    /\ file = [n \in Names |-> NoFile]
    /\ overtaken = {} /\ mixed = {} /\ crossed = {}

-----------------------------------------------------------------------------
(* The user.                                                                *)

\* Filters are shown by the picker only; the key bindings that scan are not.
Choose ==
    /\ open /\ view = "picker"
    /\ filter' \in Profiles \ {filter}
    /\ UNCHANGED <<open, view, label, shown, receipt, given, env, now, scan, export, file, history>>

\* Variant: The profile is kept from the first scan on.
BeginKeepsLabel(s) ==
    /\ open
    /\ scan[s].pc = "idle" /\ \A t \in Scans : t < s => scan[t].pc # "idle"
    /\ view' = "progress"
    /\ scan' = [scan EXCEPT ![s].pc = "begun", ![s].profile = filter]
    /\ overtaken' = overtaken \cup Live
    /\ crossed' = crossed \cup Busy
    /\ UNCHANGED <<open, filter, label, shown, receipt, given, env, now, export, file, mixed>>

\* _begin_scan: the new worker cancels those of its group, whose threads go on.
Begin(s) ==
    /\ open
    /\ scan[s].pc = "idle" /\ \A t \in Scans : t < s => scan[t].pc # "idle"
    /\ label' = filter /\ view' = "progress"
    /\ scan' = [scan EXCEPT ![s].pc = "begun", ![s].profile = filter]
    /\ overtaken' = overtaken \cup Live
    /\ crossed' = crossed \cup Busy
    /\ UNCHANGED <<open, filter, shown, receipt, given, env, now, export, file, mixed>>

Back ==
    /\ open /\ view = "results"
    /\ view' = "picker"
    /\ UNCHANGED <<open, filter, label, shown, receipt, given, env, now, scan, export, file, history>>

\* export_current_report; without a report there is no results view.
Ask(e, fmt) ==
    /\ open /\ view = "results"
    /\ export[e].pc = "idle"
    /\ export' = [export EXCEPT ![e].pc = "asked", ![e].fmt = fmt]
    /\ UNCHANGED <<open, screen, given, env, now, scan, file, history>>

\* Threads that run go on to their end before the process does.
Quit ==
    /\ open /\ open' = FALSE
    /\ UNCHANGED <<screen, given, env, now, scan, export, file, history>>

-----------------------------------------------------------------------------
(* A scan thread: scan_installed, _run_engine_scan, display_report.         *)

Moves(s, from, to) == scan[s].pc = from /\ scan' = [scan EXCEPT ![s].pc = to]

\* A cancelled worker whose thread has not started never starts.
Drop(s) ==
    /\ s \in overtaken
    /\ Moves(s, "begun", "dropped")
    /\ UNCHANGED <<open, screen, given, env, now, export, file, history>>

\* Snapshots made and the engine verified; previous = os.environ.get(...).
SaveEnv(s) ==
    /\ scan[s].pc = "begun"
    /\ scan' = [scan EXCEPT ![s].pc = "saved", ![s].saved = env]
    /\ mixed' = IF Holding = {} THEN mixed ELSE mixed \cup Holding \cup {s}
    /\ UNCHANGED <<open, screen, given, env, now, export, file, overtaken, crossed>>

SetEnv(s) ==
    /\ Moves(s, "saved", "set")
    /\ env' = "engine"
    /\ UNCHANGED <<open, screen, given, now, export, file, history>>

\* scan_targets ends: _build_report reads the variable and the clock, which
\* may have advanced.
Report(s) ==
    /\ scan[s].pc = "set"
    /\ now' \in now..MaxTime
    /\ scan' = [scan EXCEPT ![s].pc = "built", ![s].raw = ScannerBuild(env), ![s].sid = now']
    /\ UNCHANGED <<open, screen, given, env, export, file, history>>

ScanRaises(s) ==
    /\ Moves(s, "set", "broken")
    /\ UNCHANGED <<open, screen, given, env, now, export, file, history>>

\* Variant: No finally.
RestoreOnSuccess(s) ==
    /\ Moves(s, "built", "restored") \/ Moves(s, "broken", "failing")
    /\ env' = IF scan[s].pc = "built" THEN scan[s].saved ELSE env
    /\ UNCHANGED <<open, screen, given, now, export, file, history>>

\* The finally of _run_engine_scan.
Restore(s) ==
    /\ Moves(s, "built", "restored") \/ Moves(s, "broken", "failing")
    /\ env' = scan[s].saved
    /\ UNCHANGED <<open, screen, given, now, export, file, history>>

Display(s) ==
    /\ scan[s].pc = "restored"
    /\ scan' = [scan EXCEPT ![s].pc = "ready", ![s].seen = Stamp(env)]
    /\ UNCHANGED <<open, screen, given, env, now, export, file, history>>

\* No snapshot, an engine that does not verify, or an unreadable manifest.
Unable(s) ==
    /\ Moves(s, "begun", "failing") \/ Moves(s, "restored", "failing")
    /\ UNCHANGED <<open, screen, given, env, now, export, file, history>>

\* Variant: The receipt of the report before stays on screen.
DeliverKeepsReceipt(s) ==
    /\ open
    /\ Moves(s, "ready", "done")
    /\ shown' = s /\ view' = "results"
    /\ crossed' = crossed \cup Busy
    /\ UNCHANGED <<open, filter, label, receipt, given, env, now, export, file, overtaken, mixed>>

\* _scan_complete, of whichever scan: nothing asks whether it is the last one.
Deliver(s) ==
    /\ open
    /\ Moves(s, "ready", "done")
    /\ shown' = s /\ view' = "results" /\ receipt' = {}
    /\ crossed' = crossed \cup Busy
    /\ UNCHANGED <<open, filter, label, given, env, now, export, file, overtaken, mixed>>

\* _scan_failed.
Fail(s) ==
    /\ open
    /\ Moves(s, "failing", "done")
    /\ view' = "picker"
    /\ UNCHANGED <<open, filter, label, shown, receipt, given, env, now, export, file, history>>

\* call_from_thread raises when the application has gone.
Unheard(s) ==
    /\ ~open
    /\ Moves(s, "ready", "done") \/ Moves(s, "failing", "done")
    /\ UNCHANGED <<open, screen, given, env, now, export, file, history>>

ScanStep(s) ==
    \/ Drop(s) \/ SaveEnv(s) \/ SetEnv(s) \/ Report(s) \/ ScanRaises(s) \/ Restore(s)
    \/ Display(s) \/ Unable(s) \/ Deliver(s) \/ Fail(s) \/ Unheard(s)

-----------------------------------------------------------------------------
(* An export thread.                                                        *)

\* The file is named after the report that is on show.
Name(e) ==
    /\ export[e].pc = "asked"
    /\ export' = [export EXCEPT ![e].pc = "named", ![e].sid = scan[shown].sid]
    /\ UNCHANGED <<open, screen, given, env, now, scan, file, history>>

\* raw_report, view_report and report_profile are read again for the contents.
Read(e) ==
    /\ export[e].pc = "named"
    /\ export' = [export EXCEPT ![e].pc = "read", ![e].of = shown, ![e].profile = label]
    /\ UNCHANGED <<open, screen, given, env, now, scan, file, history>>

\* HTML shows the view's metadata, JSON is the raw report, write_bundle makes
\* its own: with the profile it is told and the variable as it is now.
Contents(e) ==
    LET s == export[e].of
    IN  [by |-> e, of |-> s,
         profile |-> CASE export[e].fmt = "html" -> scan[s].profile
                       [] export[e].fmt = "json" -> "unstated"
                       [] export[e].fmt = "zip"  -> export[e].profile,
         build   |-> CASE export[e].fmt = "html" -> scan[s].seen
                       [] export[e].fmt = "json" -> scan[s].raw
                       [] export[e].fmt = "zip"  -> Stamp(env)]

\* A temporary file renamed; ZIP files are verified afterwards.
Write(e) ==
    /\ export[e].pc = "read"
    /\ file' = [file EXCEPT ![<<export[e].fmt, export[e].sid>>] = Contents(e)]
    /\ export' = [export EXCEPT ![e].pc = IF export[e].fmt = "zip" THEN "verify" ELSE "saved"]
    /\ UNCHANGED <<open, screen, given, env, now, scan, history>>

WriteRaises(e) ==
    /\ export[e].pc = "read"
    /\ export' = [export EXCEPT ![e].pc = "done"]
    /\ UNCHANGED <<open, screen, given, env, now, scan, file, history>>

\* validate_report of what is at the path now; a file that fails it stays there.
Verify(e) ==
    /\ export[e].pc = "verify"
    /\ \E pc \in {"saved", "done"} : export' = [export EXCEPT ![e].pc = pc]
    /\ UNCHANGED <<open, screen, given, env, now, scan, file, history>>

\* _export_completed.
Complete(e) ==
    /\ export[e].pc = "saved"
    /\ export' = [export EXCEPT ![e].pc = "done"]
    /\ receipt' = IF open THEN {e} ELSE receipt
    /\ UNCHANGED <<open, view, filter, label, shown, given, env, now, scan, file, history>>

ExportStep(e) ==
    Name(e) \/ Read(e) \/ Write(e) \/ WriteRaises(e) \/ Verify(e) \/ Complete(e)

Next ==
    \/ Choose \/ Back \/ Quit
    \/ \E s \in Scans : Begin(s) \/ ScanStep(s)
    \/ \E e \in Exports : (\E fmt \in Formats : Ask(e, fmt)) \/ ExportStep(e)

Spec == Init /\ [][Next]_vars

-----------------------------------------------------------------------------
(* Properties.                                                              *)

\* A file that no scan crossed, of a scan that no later one overtook, is named
\* after the scan whose report it holds and states the profile that scan ran
\* with, though name, contents and profile are read at three moments.
ExportsAreTrue ==
    \A n \in Names :
        (file[n] # NoFile /\ file[n].by \notin crossed /\ file[n].of \notin overtaken)
        => /\ n[2] = scan[file[n].of].sid
           /\ file[n].profile \in {scan[file[n].of].profile, "unstated"}

\* The receipt under a report is that of a file made from this report.
ReceiptIsOfShown == view = "results" => \A e \in receipt \ crossed : export[e].of = shown

\* Whoever waits at the progress view waits for a thread that will end the
\* wait: the last scan begun, which nothing drops.
ProgressHasAnEnd == (open /\ view = "progress") => Live \ overtaken # {}

\* A report made while no other scan held the variable names the engine that
\* made it, whatever earlier scans have left in the environment.
LoneScansNameTheEngine == \A s \in Scans \ mixed : scan[s].raw \in {"none", "engine"}

\* Unless scans held the variable together, the session leaves the environment
\* as it was, also after a scan that raised.
EnvironmentIsRestored == (mixed = {} /\ Holding = {}) => env = given

-----------------------------------------------------------------------------
(* The inductive invariant.                                                 *)

\* What is on show has been delivered; profile and label agree for the last
\* scan begun while it lives and while its report is on show.
ScreenOK ==
    /\ shown # 0 => scan[shown].pc = "done"
    /\ view = "results" => shown # 0
    /\ (view = "results" /\ shown \notin overtaken) => label = scan[shown].profile
    /\ \A s \in Live \ overtaken : label = scan[s].profile
    /\ \A s \in overtaken : scan[s].pc # "idle"

\* An export that nothing crossed still reads what it was asked to export.
ExportOK(e) ==
    LET pc == export[e].pc
    IN  /\ pc # "idle" => shown # 0
        /\ pc \in {"read", "verify", "saved"} => export[e].of # 0 /\ scan[export[e].of].pc = "done"
        /\ (e \in Busy /\ e \notin crossed) =>
               /\ shown \notin overtaken => label = scan[shown].profile
               /\ pc # "asked" => export[e].sid = scan[shown].sid
               /\ pc \in {"read", "verify", "saved"} => export[e].of = shown /\ export[e].profile = label
        /\ e \in receipt => pc = "done" /\ (e \in crossed \/ export[e].of = shown)

FileOK(n) ==
    file[n] # NoFile => /\ file[n].of # 0 /\ scan[file[n].of].pc = "done"
                        /\ export[file[n].by].pc # "idle"

\* Whoever holds the variable alone finds in it what it has put there.
EnvOK ==
    /\ \A s \in Holding \ mixed : Holding = {s}
    /\ \A s \in Scans \ mixed : scan[s].pc = "set" => env = "engine"
    /\ mixed = {} => \A s \in Holding : scan[s].saved = given

IInv ==
    /\ TypeOK
    /\ ScreenOK
    /\ \A e \in Exports : ExportOK(e)
    /\ \A n \in Names : FileOK(n)
    /\ EnvOK
    /\ ExportsAreTrue
    /\ ProgressHasAnEnd
    /\ LoneScansNameTheEngine
    /\ EnvironmentIsRestored
=============================================================================
