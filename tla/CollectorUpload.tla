--------------------------- MODULE CollectorUpload ---------------------------
(***************************************************************************)
(* Upload of a collector snapshot:                                         *)
(* src/src/guardrails_cli/collector.py (upload_collector_snapshot), by     *)
(* collect in main.py.  Each run of the command takes one snapshot and     *)
(* sends it up to Retries + 1 times with one Idempotency-Key, the digest   *)
(* of the snapshot.  The network may lose or delay a request and lose an   *)
(* answer.  The server is not part of the repository: it is taken to apply *)
(* a request once for every key.                                           *)
(***************************************************************************)
EXTENDS Naturals, FiniteSets, Sequences

CONSTANTS
    Runs,           \* runs of the command
    Retries         \* retries of upload_collector_snapshot

VARIABLES
    attempt,        \* attempt[r]: requests that run r has made
    upload,         \* upload[r]: where run r is
    sent,           \* requests on the way: [run, attempt, key]
    applied,        \* what the server applied, in order: [run, key]
    answered        \* answers on the way: [run, attempt, code]

uploadVars == <<attempt, upload, sent, applied, answered>>

Codes == {"200", "retry", "final", "garbled"}

\* Variant: the moment of the attempt is part of what is hashed.
IdempotencyKeyOfAttempt(r, n) == <<r, n>>

\* collector_idempotency_key: of the snapshot, not of the attempt.
IdempotencyKey(r, n) == <<r>>

UploadInit ==
    /\ attempt = [r \in Runs |-> 0]
    /\ upload = [r \in Runs |-> "ready"]
    /\ sent = {} /\ applied = <<>> /\ answered = {}

Send(r) ==
    /\ upload[r] = "ready"
    /\ attempt' = [attempt EXCEPT ![r] = @ + 1]
    /\ sent' = sent \cup {[run |-> r, attempt |-> attempt[r] + 1, key |-> IdempotencyKey(r, attempt[r] + 1)]}
    /\ upload' = [upload EXCEPT ![r] = "waiting"]
    /\ UNCHANGED <<applied, answered>>

\* The run's latest request, for which it waits.
Waits(r) == upload[r] = "waiting"

Exhausted(r) == attempt[r] = Retries + 1

\* An error of the kind that is tried again: 408, 429, 5xx and URLError.
Again(r) ==
    upload' = [upload EXCEPT ![r] = IF Exhausted(r) THEN "failed" ELSE "ready"]

Reads(r) ==
    /\ Waits(r)
    /\ \E a \in answered :
         /\ a.run = r /\ a.attempt = attempt[r]
         /\ answered' = answered \ {a}
         /\ \/ a.code = "200" /\ upload' = [upload EXCEPT ![r] = "accepted"]
            \/ a.code = "retry" /\ Again(r)
            \/ a.code \in {"final", "garbled"} /\ upload' = [upload EXCEPT ![r] = "failed"]
    /\ UNCHANGED <<attempt, sent, applied>>

\* The connection fails or times out before the answer begins: URLError.
GivesUp(r) ==
    /\ Waits(r)
    /\ Again(r)
    /\ UNCHANGED <<attempt, sent, applied, answered>>

\* A timeout while the answer is read is no URLError: the upload ends.
ReadTimesOut(r) ==
    /\ Waits(r)
    /\ upload' = [upload EXCEPT ![r] = "failed"]
    /\ UNCHANGED <<attempt, sent, applied, answered>>

\* The server applies a key once; the answer says so, fails after it was
\* applied, or cannot be read.
ServerApplies ==
    \E m \in sent :
      /\ sent' = sent \ {m}
      /\ applied' = IF \E i \in DOMAIN applied : applied[i].key = m.key THEN applied
                    ELSE Append(applied, [run |-> m.run, key |-> m.key])
      /\ \E code \in {"200", "retry", "garbled"} :
           answered' = answered \cup {[run |-> m.run, attempt |-> m.attempt, code |-> code]}
      /\ UNCHANGED <<attempt, upload>>

ServerRefuses ==
    \E m \in sent, code \in {"retry", "final"} :
      /\ sent' = sent \ {m}
      /\ answered' = answered \cup {[run |-> m.run, attempt |-> m.attempt, code |-> code]}
      /\ UNCHANGED <<attempt, upload, applied>>

Lost ==
    \/ \E m \in sent : sent' = sent \ {m} /\ UNCHANGED answered
    \/ \E a \in answered : answered' = answered \ {a} /\ UNCHANGED sent

LoseMessage == Lost /\ UNCHANGED <<attempt, upload, applied>>

UploadNext ==
    \/ \E r \in Runs : Send(r) \/ Reads(r) \/ GivesUp(r) \/ ReadTimesOut(r)
    \/ ServerApplies \/ ServerRefuses \/ LoseMessage

UploadSpec == UploadInit /\ [][UploadNext]_uploadVars

-----------------------------------------------------------------------------
(* Properties.                                                              *)

\* However often a snapshot is sent, and whichever of its requests arrive late
\* or after the command ended, the server applies it at most once, for all its
\* requests have one key; a command that reports success has been applied
\* (collector.py:68-87).
AppliedOnce ==
    /\ \A i, j \in DOMAIN applied : applied[i].run = applied[j].run => i = j
    /\ \A r \in Runs : upload[r] = "accepted" => \E i \in DOMAIN applied : applied[i].run = r
=============================================================================
