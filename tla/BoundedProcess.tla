--------------------------- MODULE BoundedProcess ---------------------------
(***************************************************************************)
(* One call of run_bounded_process (ide_scanner/providers/runtime.py) and  *)
(* what its caller makes of the result: the parent reads both pipes of a   *)
(* child up to a memory ceiling and a deadline while the child and its     *)
(* helpers write, fork, close their pipes and exit.                        *)
(*                                                                         *)
(* Helpers stay in the session that Popen starts (start_new_session).      *)
(* Output is counted in units; its text is what the caller finds in it.    *)
(***************************************************************************)
EXTENDS Integers

CONSTANTS
    Leader,     \* the process that Popen starts
    Helpers,    \* the processes that it and they may fork
    Chunk,      \* PROVIDER_OUTPUT_CHUNK_BYTES
    Limit,      \* PROVIDER_OUTPUT_LIMIT_BYTES
    Capacity,   \* what the operating system buffers in a pipe
    MaxOutput   \* bound: units written to each pipe

ASSUME ProcessOK ==
    /\ Leader \notin Helpers
    /\ {Chunk, Limit, Capacity} \subseteq Nat \ {0}
    /\ MaxOutput \in Nat

VARIABLES
    provider,  \* which of the callers this is
    proc,      \* proc[p]: life of a process
    holds,     \* holds[p]: the pipes whose write end p has open
    pipe,      \* pipe[s]: units in the pipe
    wrote,     \* wrote[s]: units ever written to it
    expired,   \* the deadline has passed
    pc,        \* where the parent is
    open,      \* the pipes registered with the selector
    ready,     \* those that select found readable
    buf,       \* buf[s]: units kept
    limited,   \* output_limited
    timedOut,  \* TimeoutExpired is being raised
    code,      \* exit status of the leader
    status     \* the caller's status of this provider

child  == <<proc, holds, pipe, wrote, code>>
parent == <<pc, open, ready, buf, limited, timedOut, status>>
vars   == <<provider, child, expired, parent>>

Providers == {"semgrep", "yara", "yara_worker", "artifact_worker", "gunzip"}

Procs == {Leader} \cup Helpers
Pipes == {"stdout", "stderr"}
Exits == {"zero", "one", "other"}
Codes == Exits \cup {"none", "killed"}

TypeOK ==
    /\ provider \in Providers
    /\ proc \in [Procs -> {"unborn", "running", "doomed", "gone"}]
    /\ holds \in [Procs -> SUBSET Pipes]
    /\ pipe \in [Pipes -> Nat]
    /\ wrote \in [Pipes -> Nat]
    /\ expired \in BOOLEAN
    /\ pc \in {"start", "loop", "read", "wait", "waitAgain", "judge", "done"}
    /\ open \subseteq Pipes
    /\ ready \subseteq Pipes
    /\ buf \in [Pipes -> 0..Limit]
    /\ limited \in BOOLEAN
    /\ timedOut \in BOOLEAN
    /\ code \in Codes
    /\ status \in {"none", "unavailable", "completed", "failed"}

Init ==
    /\ provider \in Providers
    /\ proc = [p \in Procs |-> "unborn"]
    /\ holds = [p \in Procs |-> {}]
    /\ pipe = [s \in Pipes |-> 0]
    /\ wrote = [s \in Pipes |-> 0]
    /\ code = "none"
    /\ expired = FALSE
    /\ pc = "start"
    /\ open = {} /\ ready = {}
    /\ buf = [s \in Pipes |-> 0]
    /\ limited = FALSE /\ timedOut = FALSE
    /\ status = "none"

-----------------------------------------------------------------------------
(* The child and its helpers.                                               *)

Held(s) == \E p \in Procs : s \in holds[p]

Fork(p, h) ==
    /\ proc[p] = "running" /\ proc[h] = "unborn"
    /\ proc' = [proc EXCEPT ![h] = "running"]
    /\ \E kept \in SUBSET holds[p] : holds' = [holds EXCEPT ![h] = kept]
    /\ UNCHANGED <<provider, pipe, wrote, code, expired, parent>>

ClosePipe(p, s) ==
    /\ proc[p] = "running" /\ s \in holds[p]
    /\ holds' = [holds EXCEPT ![p] = @ \ {s}]
    /\ UNCHANGED <<provider, proc, pipe, wrote, code, expired, parent>>

\* A full pipe blocks the writer.
Write(p, s) ==
    /\ proc[p] = "running" /\ s \in holds[p] \cap open
    /\ pipe[s] < Capacity /\ wrote[s] < MaxOutput
    /\ pipe' = [pipe EXCEPT ![s] = @ + 1]
    /\ wrote' = [wrote EXCEPT ![s] = @ + 1]
    /\ UNCHANGED <<provider, proc, holds, code, expired, parent>>

Gone(p, exit) ==
    /\ proc' = [proc EXCEPT ![p] = "gone"]
    /\ holds' = [holds EXCEPT ![p] = {}]
    /\ code' = IF p = Leader THEN exit ELSE code
    /\ UNCHANGED <<provider, pipe, wrote, expired, parent>>

\* A resource limit ends a process like an exit of its own.
Exit(p) == proc[p] = "running" /\ \E exit \in Exits : Gone(p, exit)

\* SIGKILL takes effect, at once or when a system call returns.
Die(p) == proc[p] = "doomed" /\ Gone(p, "killed")

Expire ==
    /\ pc # "start" /\ ~expired
    /\ expired' = TRUE
    /\ UNCHANGED <<provider, child, parent>>

-----------------------------------------------------------------------------
(* The parent.                                                              *)

\* _terminate_process_tree: nothing when the leader has exited (poll()).
Terminate ==
    proc' = [p \in Procs |-> IF proc[Leader] # "gone" /\ proc[p] = "running" THEN "doomed" ELSE proc[p]]

\* No such executable; no files to look at; Popen raises.
NotRun ==
    /\ pc = "start"
    /\ pc' = "done"
    /\ \/ provider \in {"semgrep", "yara", "yara_worker"} /\ status' = "unavailable"
       \/ provider \in {"semgrep", "yara"} /\ status' = "completed"
       \/ status' = "failed"
    /\ UNCHANGED <<provider, child, expired, open, ready, buf, limited, timedOut>>

Spawn ==
    /\ pc = "start"
    /\ pc' = "loop"
    /\ proc' = [proc EXCEPT ![Leader] = "running"]
    /\ holds' = [holds EXCEPT ![Leader] = Pipes]
    /\ open' = Pipes
    /\ UNCHANGED <<provider, pipe, wrote, code, expired, ready, buf, limited, timedOut, status>>

Readable(s) == pipe[s] > 0 \/ ~Held(s)

Select ==
    /\ pc = "loop" /\ ~expired
    /\ \E s \in open : Readable(s)
    /\ ready' = {s \in open : Readable(s)}
    /\ pc' = "read"
    /\ UNCHANGED <<provider, child, expired, open, buf, limited, timedOut, status>>

\* No time remains, or select returns nothing.
Timeout ==
    /\ pc = "loop" /\ open # {} /\ expired
    /\ Terminate
    /\ timedOut' = TRUE
    /\ open' = {}
    /\ pc' = "wait"
    /\ UNCHANGED <<provider, holds, pipe, wrote, code, expired, ready, buf, limited, status>>

ReadEnd(s) ==
    /\ pc = "read" /\ s \in ready
    /\ pipe[s] = 0
    /\ open' = open \ {s}
    /\ ready' = ready \ {s}
    /\ pc' = IF ready = {s} THEN "loop" ELSE "read"
    /\ UNCHANGED <<provider, child, expired, buf, limited, timedOut, status>>

Size(s) == IF pipe[s] <= Chunk THEN pipe[s] ELSE Chunk

\* Variant: the ceiling is looked at before a chunk is added.
KeepAll(s) == [buf EXCEPT ![s] = @ + Size(s)]

\* What is kept of a chunk: what the ceiling leaves room for.
Keep(s) == [buf EXCEPT ![s] = IF Size(s) > Limit - @ THEN Limit ELSE @ + Size(s)]

ReadChunk(s) ==
    /\ pc = "read" /\ s \in ready
    /\ pipe[s] > 0
    /\ pipe' = [pipe EXCEPT ![s] = @ - Size(s)]
    /\ buf' = Keep(s)
    /\ IF Size(s) > Limit - buf[s]
       THEN limited' = TRUE /\ Terminate /\ pc' = "wait" /\ UNCHANGED ready
       ELSE /\ ready' = ready \ {s}
            /\ pc' = IF ready = {s} THEN "loop" ELSE "read"
            /\ UNCHANGED <<limited, proc>>
    /\ UNCHANGED <<provider, holds, wrote, code, expired, open, timedOut, status>>

LoopEnds ==
    /\ pc = "loop" /\ open = {}
    /\ pc' = "wait"
    /\ UNCHANGED <<provider, child, expired, open, ready, buf, limited, timedOut, status>>

\* finally: process.wait(timeout=1), twice at most.
Reaped ==
    /\ pc \in {"wait", "waitAgain"} /\ proc[Leader] = "gone"
    /\ pc' = "judge"
    /\ open' = {}
    /\ UNCHANGED <<provider, child, expired, ready, buf, limited, timedOut, status>>

\* Variants: the first wait has no timeout; one that kills nothing.
WaitExpiresNever == FALSE /\ UNCHANGED vars
WaitExpiresIdle ==
    /\ pc = "wait" /\ proc[Leader] # "gone"
    /\ pc' = "judge" /\ open' = {}
    /\ UNCHANGED <<provider, child, expired, ready, buf, limited, timedOut, status>>

WaitExpires ==
    /\ pc = "wait" /\ proc[Leader] # "gone"
    /\ Terminate
    /\ pc' = "waitAgain"
    /\ UNCHANGED <<provider, holds, pipe, wrote, code, expired, open, ready, buf, limited, timedOut, status>>

GiveUp ==
    /\ pc = "waitAgain" /\ proc[Leader] # "gone"
    /\ pc' = "judge"
    /\ open' = {}
    /\ UNCHANGED <<provider, child, expired, ready, buf, limited, timedOut, status>>

\* Variant: the status that the child exited with.
ReturnCodeOfChild == code

\* -9 whenever output was dropped; None when the child was not reaped.
ReturnCode == IF limited THEN "killed" ELSE code

\* What json.loads makes of stdout.
Decodings ==
    IF buf["stdout"] = 0 THEN {"empty"}
    ELSE IF limited THEN {"garbled"} ELSE {"garbled", "errors", "clean"}

\* What each caller takes for success.  yara reports matches line by line and
\* may exit with 1; the others print one JSON document.
SemgrepCompletes(decoded)    == ReturnCode = "zero" /\ decoded \in {"empty", "clean"}
YaraCompletes                == ReturnCode \in {"zero", "one"}
YaraWorkerCompletes(decoded) == ReturnCode = "zero" /\ decoded \in {"empty", "clean"}
ArtifactCompletes(decoded)   == ReturnCode = "zero" /\ decoded = "clean"
GunzipCompletes(decoded)     == ReturnCode = "zero" /\ decoded = "clean"

Completes(decoded) ==
    CASE provider = "semgrep" -> SemgrepCompletes(decoded)
      [] provider = "yara" -> YaraCompletes
      [] provider = "yara_worker" -> YaraWorkerCompletes(decoded)
      [] provider = "artifact_worker" -> ArtifactCompletes(decoded)
      [] provider = "gunzip" -> GunzipCompletes(decoded)

Judge ==
    /\ pc = "judge"
    /\ pc' = "done"
    /\ \E decoded \in Decodings :
         status' = IF ~timedOut /\ Completes(decoded) THEN "completed" ELSE "failed"
    /\ UNCHANGED <<provider, child, expired, open, ready, buf, limited, timedOut>>

-----------------------------------------------------------------------------
ChildStep ==
    \/ \E p \in Procs, h \in Helpers : Fork(p, h)
    \/ \E p \in Procs, s \in Pipes : ClosePipe(p, s) \/ Write(p, s)
    \/ \E p \in Procs : Exit(p) \/ Die(p)

ParentStep ==
    \/ NotRun \/ Spawn \/ Select \/ Timeout \/ LoopEnds
    \/ \E s \in Pipes : ReadEnd(s) \/ ReadChunk(s)
    \/ Reaped \/ WaitExpires \/ GiveUp \/ Judge

Next == ChildStep \/ Expire \/ ParentStep

Spec == Init /\ [][Next]_vars

\* The parent runs and time passes; nothing is promised of the child, not
\* even that a killed process goes.
FairSpec == Spec /\ WF_vars(ParentStep) /\ WF_vars(Expire)

-----------------------------------------------------------------------------
(* Properties.                                                              *)

\* "A truncated provider payload is never a successful analysis": a provider
\* that ran counts as completed only if the parent kept every unit that the
\* whole process tree wrote to either pipe and the child exited by itself.
CompletedIsWhole ==
    status = "completed" =>
        /\ buf = wrote
        /\ code \in Exits \/ proc[Leader] = "unborn"

\* Whoever kills the child kills its helpers: once it has been killed none of
\* them is left to run, wherever the fork was.
KillTakesTree ==
    proc[Leader] = "doomed" \/ code = "killed" => \A p \in Procs : proc[p] # "running"

\* No call leaves its child behind to run, whether it returns or raises.
ChildIsSettled == pc = "done" => proc[Leader] # "running"

\* Every call ends, whatever the child and its helpers do.
CallReturns == <>(pc = "done")

=============================================================================
