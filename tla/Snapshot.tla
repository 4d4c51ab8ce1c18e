------------------------------ MODULE Snapshot ------------------------------
(***************************************************************************)
(* Private copies of an installed extension (guardrails_cli/snapshot.py):  *)
(* a manifest of the tree, a copy of every file in it, a second manifest,  *)
(* and a refusal when the two differ, while the IDE goes on updating the   *)
(* tree.                                                                   *)
(*                                                                         *)
(* Files are the paths below the installation.  A file's contents are the  *)
(* number of the write that made them, 0 when the file is not there, and a *)
(* manifest's (size, mtime_ns) is that number too: no two writes of a path *)
(* are taken to leave the same pair.                                       *)
(***************************************************************************)
EXTENDS Integers

CONSTANTS
    Scans,     \* concurrent runs of snapshot_installations
    Files,
    MaxWrites  \* bound: writes of the IDE

ASSUME SnapshotOK == MaxWrites \in Nat

VARIABLES
    disk,    \* disk[f]: the contents of f
    clock,   \* the number of the last write
    at,      \* at[s]: where scan s is
    todo,    \* todo[s]: paths that its present walk has not come to
    opened,  \* opened[s]: the file being copied
    before,  \* before[s], after[s]: the manifests
    after,
    copy,    \* copy[s]: the private copies
    asOf,    \* asOf[s]: the tree when the first manifest was complete (history)
    hidden   \* hidden[s]: files that a walk passed over unseen (history)

files == <<disk, clock>>
scan  == <<at, todo, opened, before, after, copy, asOf, hidden>>
vars  == <<files, scan>>

Absent == 0
Torn   == -1  \* a copy that mixes writes

Empty == [f \in Files |-> Absent]

TypeOK ==
    /\ clock \in 0..MaxWrites + 1
    /\ disk \in [Files -> 0..clock]
    /\ at \in [Scans -> {"idle", "listing", "copying", "checking", "copied", "refused", "over"}]
    /\ todo \in [Scans -> SUBSET Files]
    /\ opened \in [Scans -> SUBSET Files]
    /\ before \in [Scans -> [Files -> 0..clock]]
    /\ after \in [Scans -> [Files -> 0..clock]]
    /\ asOf \in [Scans -> [Files -> 0..clock]]
    /\ copy \in [Scans -> [Files -> {Torn} \cup 0..clock]]
    /\ hidden \in [Scans -> SUBSET Files]

Init ==
    /\ clock = 1
    /\ disk \in [Files -> 0..1]
    /\ at = [s \in Scans |-> "idle"]
    /\ todo = [s \in Scans |-> {}]
    /\ opened = [s \in Scans |-> {}]
    /\ before = [s \in Scans |-> Empty]
    /\ after = [s \in Scans |-> Empty]
    /\ copy = [s \in Scans |-> Empty]
    /\ asOf = [s \in Scans |-> Empty]
    /\ hidden = [s \in Scans |-> {}]

-----------------------------------------------------------------------------
(* The IDE.                                                                 *)

Write(f) ==
    /\ clock <= MaxWrites
    /\ clock' = clock + 1
    /\ disk' = [disk EXCEPT ![f] = clock + 1]
    /\ UNCHANGED scan

Remove(f) ==
    /\ disk[f] # Absent
    /\ disk' = [disk EXCEPT ![f] = Absent]
    /\ UNCHANGED <<clock, scan>>

-----------------------------------------------------------------------------
(* snapshot_installations.                                                  *)

Begin(s) ==
    /\ at[s] = "idle"
    /\ at' = [at EXCEPT ![s] = "listing"]
    /\ todo' = [todo EXCEPT ![s] = Files]
    /\ UNCHANGED <<files, opened, before, after, copy, asOf, hidden>>

\* The first walk comes to a path, or would have if it were there.  os.walk is
\* given no onerror: what lies in a directory that it cannot list is passed over.
List(s, f) ==
    /\ at[s] = "listing" /\ f \in todo[s]
    /\ \E contents \in {disk[f], Absent} :
          /\ hidden' = [hidden EXCEPT ![s] = IF contents = disk[f] THEN @ ELSE @ \cup {f}]
          /\ before' = [before EXCEPT ![s][f] = contents]
    /\ todo' = [todo EXCEPT ![s] = @ \ {f}]
    /\ UNCHANGED <<files, at, opened, after, copy, asOf>>

ListEnds(s) ==
    /\ at[s] = "listing" /\ todo[s] = {}
    /\ at' = [at EXCEPT ![s] = "copying"]
    /\ todo' = [todo EXCEPT ![s] = {f \in Files : before[s][f] # Absent}]
    /\ asOf' = [asOf EXCEPT ![s] = disk]
    /\ UNCHANGED <<files, opened, before, after, copy, hidden>>

CopyBegins(s, f) ==
    /\ at[s] = "copying" /\ f \in todo[s]
    /\ opened[s] = {} /\ disk[f] # Absent
    /\ opened' = [opened EXCEPT ![s] = {f}]
    /\ copy' = [copy EXCEPT ![s][f] = disk[f]]
    /\ UNCHANGED <<files, at, todo, before, after, asOf, hidden>>

\* A file written to while it is read gives either version, or some of each.
CopyCloses(s, f) ==
    /\ at[s] = "copying" /\ f \in opened[s]
    /\ \E got \in IF disk[f] = copy[s][f] THEN {copy[s][f]} ELSE {copy[s][f], disk[f], Torn} :
           copy' = [copy EXCEPT ![s][f] = got]
    /\ opened' = [opened EXCEPT ![s] = {}]
    /\ todo' = [todo EXCEPT ![s] = @ \ {f}]
    /\ UNCHANGED <<files, at, before, after, asOf, hidden>>

CopyEnds(s) ==
    /\ at[s] = "copying" /\ todo[s] = {}
    /\ at' = [at EXCEPT ![s] = "checking"]
    /\ todo' = [todo EXCEPT ![s] = Files]
    /\ UNCHANGED <<files, opened, before, after, copy, asOf, hidden>>

\* Variant: the second manifest is of the copies.
CheckCopies(s, f) ==
    /\ at[s] = "checking" /\ f \in todo[s]
    /\ after' = [after EXCEPT ![s][f] = copy[s][f]]
    /\ todo' = [todo EXCEPT ![s] = @ \ {f}]
    /\ UNCHANGED <<files, at, opened, before, copy, asOf, hidden>>

Check(s, f) ==
    /\ at[s] = "checking" /\ f \in todo[s]
    /\ \E contents \in {disk[f], Absent} :
          /\ hidden' = [hidden EXCEPT ![s] = IF contents = disk[f] THEN @ ELSE @ \cup {f}]
          /\ after' = [after EXCEPT ![s][f] = contents]
    /\ todo' = [todo EXCEPT ![s] = @ \ {f}]
    /\ UNCHANGED <<files, at, opened, before, copy, asOf>>

\* The temporary directory goes, however the with statement is left.
Discard(s, end) ==
    /\ at' = [at EXCEPT ![s] = end]
    /\ copy' = [copy EXCEPT ![s] = Empty]

\* Variant: the manifests are compared by their paths alone.
SameNames(s) == \A f \in Files : (before[s][f] = Absent) <=> (after[s][f] = Absent)

Same(s) == before[s] = after[s]

Compare(s) ==
    /\ at[s] = "checking" /\ todo[s] = {}
    /\ IF Same(s)
       THEN at' = [at EXCEPT ![s] = "copied"] /\ UNCHANGED copy
       ELSE Discard(s, "refused")
    /\ UNCHANGED <<files, todo, opened, before, after, asOf, hidden>>

\* A symbolic link, a limit, a file that is gone or cannot be read.
Refuse(s) ==
    /\ at[s] \in {"listing", "copying", "checking"}
    /\ Discard(s, "refused")
    /\ UNCHANGED <<files, todo, opened, before, after, asOf, hidden>>

\* The analysis of the copies is over.
Release(s) ==
    /\ at[s] = "copied"
    /\ Discard(s, "over")
    /\ UNCHANGED <<files, todo, opened, before, after, asOf, hidden>>

-----------------------------------------------------------------------------
FileStep == \E f \in Files : Write(f) \/ Remove(f)

ScanStep(s) ==
    \/ Begin(s) \/ ListEnds(s) \/ CopyEnds(s) \/ Compare(s) \/ Refuse(s) \/ Release(s)
    \/ \E f \in Files : List(s, f) \/ CopyBegins(s, f) \/ CopyCloses(s, f) \/ Check(s, f)

Next == FileStep \/ \E s \in Scans : ScanStep(s)

Spec == Init /\ [][Next]_vars

-----------------------------------------------------------------------------
(* Properties.                                                              *)

\* "Create stable, private copies": what an accepted snapshot holds existed at
\* one moment.  Every copy is what its file was when the first manifest was
\* complete; a file that was there then and is not in the copy is one that has
\* gone since, for the manifests miss a file that comes and goes between them,
\* or one that a walk passed over in a directory that it could not list.
SnapshotIsInstant ==
    \A s \in Scans : at[s] = "copied" =>
        \A f \in Files :
            \/ copy[s][f] = asOf[s][f]
            \/ copy[s][f] = Absent /\ (disk[f] # asOf[s][f] \/ f \in hidden[s])
=============================================================================
