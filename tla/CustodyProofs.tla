---------------------------- MODULE CustodyProofs ----------------------------
(***************************************************************************)
(* Theorems about the ways a package is taken into custody, for any number *)
(* of scans, calls, files, packages, versions and chunks, any writes,      *)
(* losses of power and damage.                                             *)
(*                                                                         *)
(* Snapshot: the two manifests and what lies between them give a copy of   *)
(* one moment.  Vault: what the catalog rests on and what a damaged object *)
(* stops.  Market: the file is emptied before each candidate, so that what *)
(* it holds is at every moment the beginning of the response that is being *)
(* read (Reading), or of the one that was read last (Finished), whose      *)
(* registry the label names.  Pinned: what was fetched at each point.  The *)
(* last section puts the four together.                                    *)
(***************************************************************************)
EXTENDS MCCustody, FiniteSetTheorems, TLAPS

-----------------------------------------------------------------------------
(* Snapshot: the inductive invariant, for one scan and one path.            *)

\* A file that is not what it was never is again: contents are not reused.
Lost(f, v) == disk[f] # v

\* What is known of f once the first manifest is complete.
Held(s, f) ==
    before[s][f] # Absent => asOf[s][f] = before[s][f] \/ Lost(f, before[s][f])

Missed(s, f) ==
    before[s][f] = Absent => copy[s][f] = Absent

Copied(s, f) ==
    before[s][f] # Absent => copy[s][f] = before[s][f] \/ Lost(f, before[s][f])

\* What f owes to the second manifest.
Agrees(s, f) ==
    after[s][f] = before[s][f] =>
        \/ copy[s][f] = asOf[s][f]
        \/ copy[s][f] = Absent /\ (asOf[s][f] # Absent => Lost(f, asOf[s][f]) \/ f \in hidden[s])

PathOK(s, f) ==
    /\ at[s] \in {"idle", "listing"} => copy[s][f] = Absent /\ opened[s] = {}
    /\ at[s] \in {"copying", "checking"} => Held(s, f) /\ Missed(s, f)
    /\ at[s] = "copying" =>
          /\ f \in opened[s] => f \in todo[s]
          /\ f \in todo[s] => before[s][f] # Absent
          /\ f \notin todo[s] \/ f \in opened[s] => Copied(s, f)
    /\ at[s] = "checking" => Copied(s, f) /\ (f \notin todo[s] => Agrees(s, f))
    /\ at[s] = "copied" => after[s][f] = before[s][f] /\ Agrees(s, f)

SnapshotInv == \A s \in Scans, f \in Files : PathOK(s, f)

-----------------------------------------------------------------------------
LEMMA SnapshotTypeStep == TypeOK /\ [Next]_vars => TypeOK'
<1> SUFFICES ASSUME TypeOK, [Next]_vars PROVE TypeOK'
    OBVIOUS
<1> USE SnapshotOK DEF TypeOK, files, scan
<1>1. ASSUME NEW f \in Files, Write(f) PROVE TypeOK'
    <2>1. clock' \in 0..MaxWrites + 1 BY <1>1 DEF Write
    <2>2. 0..clock \subseteq 0..clock' BY <1>1 DEF Write
    <2>3. disk' \in [Files -> 0..clock'] BY <1>1, <2>2 DEF Write
    <2> QED BY <1>1, <2>1, <2>2, <2>3 DEF Write
<1>2. ASSUME NEW f \in Files, Remove(f) PROVE TypeOK' BY <1>2 DEF Remove, Absent
<1>3. ASSUME NEW s \in Scans, ScanStep(s) PROVE TypeOK'
    <2> UNCHANGED files BY <1>3 DEF ScanStep, Begin, ListEnds, CopyEnds, Compare, Refuse, Release, List, CopyBegins, CopyCloses, Check
    <2>1. CASE Begin(s) BY <2>1 DEF Begin
    <2>2. CASE ListEnds(s) BY <2>2 DEF ListEnds
    <2>3. CASE CopyEnds(s) BY <2>3 DEF CopyEnds
    <2>4. Empty \in [Files -> {Torn} \cup 0..clock] BY DEF Empty, Absent
    <2>5. CASE Compare(s) BY <2>4, <2>5 DEF Compare, Discard
    <2>6. CASE Refuse(s) BY <2>4, <2>6 DEF Refuse, Discard
    <2>7. CASE Release(s) BY <2>4, <2>7 DEF Release, Discard
    <2>8. ASSUME NEW f \in Files, List(s, f) PROVE TypeOK'
        <3>1. PICK c \in {disk[f], Absent} :
                /\ before' = [before EXCEPT ![s][f] = c]
                /\ hidden' = [hidden EXCEPT ![s] = IF c = disk[f] THEN @ ELSE @ \cup {f}]
            BY <2>8 DEF List
        <3>2. c \in 0..clock BY DEF Absent
        <3>3. before' \in [Scans -> [Files -> 0..clock]] BY <3>1, <3>2
        <3>4. hidden' \in [Scans -> SUBSET Files] BY <3>1
        <3> QED BY <2>8, <3>3, <3>4 DEF List
    <2>9. ASSUME NEW f \in Files, CopyBegins(s, f) PROVE TypeOK' BY <2>9 DEF CopyBegins
    <2>10. ASSUME NEW f \in Files, CopyCloses(s, f) PROVE TypeOK'
        <3>1. PICK got \in {copy[s][f], disk[f], Torn} : copy' = [copy EXCEPT ![s][f] = got]
            BY <2>10 DEF CopyCloses
        <3>2. got \in {Torn} \cup 0..clock OBVIOUS
        <3> QED BY <2>10, <3>1, <3>2 DEF CopyCloses
    <2>11. ASSUME NEW f \in Files, Check(s, f) PROVE TypeOK'
        <3>1. PICK c \in {disk[f], Absent} :
                /\ after' = [after EXCEPT ![s][f] = c]
                /\ hidden' = [hidden EXCEPT ![s] = IF c = disk[f] THEN @ ELSE @ \cup {f}]
            BY <2>11 DEF Check
        <3>2. c \in 0..clock BY DEF Absent
        <3>3. after' \in [Scans -> [Files -> 0..clock]] BY <3>1, <3>2
        <3>4. hidden' \in [Scans -> SUBSET Files] BY <3>1
        <3> QED BY <2>11, <3>3, <3>4 DEF Check
    <2> QED BY <1>3, <2>1, <2>2, <2>3, <2>5, <2>6, <2>7, <2>8, <2>9, <2>10, <2>11 DEF ScanStep
<1>4. CASE UNCHANGED vars BY <1>4 DEF vars
<1> QED BY <1>1, <1>2, <1>3, <1>4 DEF Next, FileStep

LEMMA SnapshotTypeInit == Init => TypeOK
<1> SUFFICES ASSUME Init PROVE TypeOK OBVIOUS
<1> USE SnapshotOK DEF Init, TypeOK
<1>1. Empty \in [Files -> 0..clock] /\ Empty \in [Files -> {Torn} \cup 0..clock]
    BY DEF Empty, Absent
<1> QED BY <1>1

\* Every variable keeps its type; contents are never younger than the last
\* write.
THEOREM SnapshotTypeCorrect == Spec => []TypeOK
<1> QED BY SnapshotTypeInit, SnapshotTypeStep, PTL DEF Spec

-----------------------------------------------------------------------------
\* The IDE's steps: what a scan holds is untouched, and what is lost stays so.
LEMMA FilesStay ==
    ASSUME TypeOK, SnapshotInv, FileStep
    PROVE  SnapshotInv'
<1> SUFFICES ASSUME NEW s \in Scans, NEW g \in Files PROVE PathOK(s, g)'
    BY DEF SnapshotInv
<1> DEFINE Old(v) == v \in 0..clock /\ v # Absent
<1>1. UNCHANGED scan BY DEF FileStep, Write, Remove
<1>2. \A v : Old(v) /\ Lost(g, v) => Lost(g, v)'
    BY SnapshotOK DEF FileStep, Write, Remove, TypeOK, Lost, Absent
<1>3. before[s][g] \in 0..clock /\ asOf[s][g] \in 0..clock BY DEF TypeOK
<1>4. PathOK(s, g) BY DEF SnapshotInv
<1> HIDE DEF Old
<1>5. Held(s, g) => Held(s, g)' BY <1>1, <1>2, <1>3 DEF Held, scan, Old
<1>6. Missed(s, g) => Missed(s, g)' BY <1>1 DEF Missed, scan
<1>7. Copied(s, g) => Copied(s, g)' BY <1>1, <1>2, <1>3 DEF Copied, scan, Old
<1>8. Agrees(s, g) => Agrees(s, g)' BY <1>1, <1>2, <1>3 DEF Agrees, scan, Old
<1> QED BY <1>1, <1>4, <1>5, <1>6, <1>7, <1>8 DEF PathOK, scan

\* The steps of a scan.
LEMMA ScanKeeps ==
    ASSUME TypeOK, SnapshotInv, NEW s \in Scans, ScanStep(s)
    PROVE  SnapshotInv'
<1> SUFFICES ASSUME NEW r \in Scans, NEW g \in Files PROVE PathOK(r, g)'
    BY DEF SnapshotInv
<1>1. PathOK(r, g) BY DEF SnapshotInv
<1> USE DEF TypeOK, files, PathOK, Held, Missed, Copied, Agrees, Lost
<1>2. CASE r # s
    BY <1>1, <1>2 DEF ScanStep, Begin, ListEnds, CopyEnds, Compare, Refuse, Release, List,
                      CopyBegins, CopyCloses, Check, Discard
<1>3. CASE r = s
    <2>1. CASE Begin(s) BY <1>1, <1>3, <2>1 DEF Begin
    <2>2. CASE ListEnds(s) BY <1>1, <1>3, <2>2 DEF ListEnds
    <2>3. CASE CopyEnds(s) BY <1>1, <1>3, <2>3 DEF CopyEnds
    <2>4. CASE Compare(s)
        <3>1. CASE Same(s) BY <1>1, <1>3, <2>4, <3>1 DEF Compare, Same
        <3>2. CASE ~Same(s) BY <1>1, <1>3, <2>4, <3>2 DEF Compare, Discard
        <3> QED BY <3>1, <3>2
    <2>5. CASE Refuse(s) BY <1>1, <1>3, <2>5 DEF Refuse, Discard
    <2>6. CASE Release(s) BY <1>1, <1>3, <2>6 DEF Release, Discard
    <2>7. ASSUME NEW f \in Files, List(s, f) PROVE PathOK(r, g)'
        BY <1>1, <1>3, <2>7 DEF List
    <2>8. ASSUME NEW f \in Files, CopyBegins(s, f) PROVE PathOK(r, g)'
        BY <1>1, <1>3, <2>8 DEF CopyBegins
    <2>9. ASSUME NEW f \in Files, CopyCloses(s, f) PROVE PathOK(r, g)'
        <3>1. PICK got : /\ got \in IF disk[f] = copy[s][f] THEN {copy[s][f]} ELSE {copy[s][f], disk[f], Torn}
                         /\ copy' = [copy EXCEPT ![s][f] = got]
            BY <2>9 DEF CopyCloses
        <3>2. CASE g # f BY <1>1, <1>3, <2>9, <3>1, <3>2 DEF CopyCloses
        <3>3. CASE g = f
            <4>1. copy'[s][f] = got BY <3>1
            <4>2. before[s][f] # Absent /\ Copied(s, f) BY <1>1, <1>3, <2>9, <3>3 DEF CopyCloses
            <4>3. got = before[s][f] \/ disk[f] # before[s][f] BY <3>1, <4>2
            <4> QED BY <1>1, <1>3, <2>9, <3>3, <4>1, <4>2, <4>3 DEF CopyCloses
        <3> QED BY <3>2, <3>3
    <2>10. ASSUME NEW f \in Files, Check(s, f) PROVE PathOK(r, g)'
        BY <1>1, <1>3, <2>10 DEF Check
    <2> QED BY <2>1, <2>2, <2>3, <2>4, <2>5, <2>6, <2>7, <2>8, <2>9, <2>10 DEF ScanStep
<1> QED BY <1>2, <1>3

LEMMA SnapshotStep == TypeOK /\ SnapshotInv /\ [Next]_vars => SnapshotInv'
<1>1. ASSUME TypeOK, SnapshotInv, UNCHANGED vars PROVE SnapshotInv'
    BY <1>1 DEF SnapshotInv, PathOK, Held, Missed, Copied, Agrees, Lost, vars, files, scan
<1> QED BY <1>1, FilesStay, ScanKeeps DEF Next

LEMMA SnapshotStart == Init => SnapshotInv
<1> SUFFICES ASSUME Init, NEW s \in Scans, NEW f \in Files PROVE PathOK(s, f)
    BY DEF SnapshotInv
<1> QED BY DEF Init, PathOK, Empty

\* An accepted snapshot is a copy of one moment, however the IDE's writes fall
\* between the steps of the scan, but for the files that a walk passed over.
THEOREM SnapshotsAreInstant == Spec => []SnapshotIsInstant
<1>1. TypeOK /\ SnapshotInv => SnapshotIsInstant
    <2> SUFFICES ASSUME TypeOK, SnapshotInv, NEW s \in Scans, at[s] = "copied", NEW f \in Files
                 PROVE  \/ copy[s][f] = asOf[s][f]
                        \/ copy[s][f] = Absent /\ (disk[f] # asOf[s][f] \/ f \in hidden[s])
        BY DEF SnapshotIsInstant
    <2>1. PathOK(s, f) BY DEF SnapshotInv
    <2> QED BY <2>1 DEF PathOK, Agrees, Lost
<1> QED BY <1>1, SnapshotTypeInit, SnapshotTypeStep, SnapshotStart, SnapshotStep, PTL DEF Spec

-----------------------------------------------------------------------------
(* The vault: the inductive invariant, in parts.                            *)

Placed == {"flush", "seal", "record"}

\* Whatever is flushed is there, and a call beyond its link has an object, flushed if
\* the call linked it.
Anchored ==
    /\ \A c \in flushed : object[c] # "none"
    /\ \A w \in Calls : pc[w] \in Placed => object[package[w]] # "none"
    /\ \A w \in Calls \ found :
         /\ pc[w] # "compare"
         /\ pc[w] \in {"seal", "record"} => package[w] \in flushed
    /\ catalog \subseteq flushed \cup hasty \cup swept

\* A damaged object stays, until power is lost with every call under way, and
\* stops the calls that began beside it at one of their two comparisons.
Stopped ==
    \A w \in tainted :
        /\ pc[w] # "idle"
        /\ pc[w] \in Active => object[package[w]] = "damaged"
        /\ pc[w] \notin {"record", "return", "returned"}

VaultInv == Anchored /\ Stopped

-----------------------------------------------------------------------------
LEMMA VaultTypeStep == VaultTypeOK /\ [VaultNext]_vaultVars => VaultTypeOK'
<1> SUFFICES ASSUME VaultTypeOK, [VaultNext]_vaultVars PROVE VaultTypeOK'
    OBVIOUS
<1> USE DEF VaultTypeOK, store, Active
<1>1. ASSUME NEW w \in Calls, CallStep(w) PROVE VaultTypeOK'
    <2>1. CASE Call(w) BY <2>1 DEF Call, Goto
    <2>2. CASE Reject(w) \/ Stage(w) \/ Look(w) \/ Raise(w) \/ Die(w)
        BY <2>2 DEF Reject, Stage, Look, Raise, Die, Goto
    <2>3. CASE Link(w) BY <2>3 DEF Link, Goto
    <2>4. CASE Verify(w) BY <2>4 DEF Verify, Goto
    <2>5. CASE Flush(w) \/ Record(w) BY <2>5 DEF Flush, Record, Goto
    <2>6. CASE Unlink(w) \/ UnlinkRaises(w) BY <2>6 DEF Unlink, UnlinkRaises, Goto
    <2> QED BY <1>1, <2>1, <2>2, <2>3, <2>4, <2>5, <2>6 DEF CallStep
<1>2. CASE LosePower
    <2>1. object' \in [Contents -> {"none", "good", "damaged"}] BY <1>2 DEF LosePower
    <2>2. pc' \in [Calls -> Active \cup {"idle", "returned", "raised", "dead"}]
        BY <1>2 DEF LosePower
    <2> QED BY <1>2, <2>1, <2>2 DEF LosePower
<1>3. ASSUME NEW c \in Contents, Damage(c) PROVE VaultTypeOK' BY <1>3 DEF Damage
<1>4. CASE UNCHANGED vaultVars BY <1>4 DEF vaultVars
<1>5. ASSUME NEW d \in Shards, Settle(d) PROVE VaultTypeOK' BY <1>5 DEF Settle
<1> QED BY <1>1, <1>2, <1>3, <1>4, <1>5 DEF VaultNext

LEMMA VaultTypeInit == VaultInit => VaultTypeOK
BY DEF VaultInit, VaultTypeOK

\* Every variable keeps its type.
THEOREM VaultTypeCorrect == VaultSpec => []VaultTypeOK
<1> QED BY VaultTypeInit, VaultTypeStep, PTL DEF VaultSpec

-----------------------------------------------------------------------------
\* The steps of a call; others see only that an object may have come.
LEMMA CallKeeps ==
    ASSUME VaultTypeOK, VaultInv, NEW w \in Calls, CallStep(w)
    PROVE  VaultInv'
<1> USE DEF VaultTypeOK, VaultInv, Anchored, Stopped, Placed, Active, store
<1>1. CASE Call(w) BY <1>1 DEF Call, Goto
<1>2. CASE Reject(w) \/ Stage(w) \/ Raise(w) \/ Die(w)
    BY <1>2 DEF Reject, Stage, Raise, Die, Goto
<1>3. CASE Look(w) BY <1>3 DEF Look, Goto
<1>4. CASE Link(w)
    <2>1. CASE object[package[w]] = "none" BY <1>4, <2>1 DEF Link, Goto
    <2>2. CASE object[package[w]] # "none" BY <1>4, <2>2 DEF Link, Goto
    <2> QED BY <2>1, <2>2
<1>5. CASE Verify(w)
    <2>1. CASE object[package[w]] = "good" BY <1>5, <2>1 DEF Verify, Matches, Goto
    <2>2. CASE object[package[w]] # "good" BY <1>5, <2>2 DEF Verify, Matches, Goto
    <2> QED BY <2>1, <2>2
<1>6. CASE Flush(w) BY <1>6 DEF Flush, Goto
<1>7. CASE Record(w) BY <1>7 DEF Record, Goto
<1>8. CASE Unlink(w) \/ UnlinkRaises(w) BY <1>8 DEF Unlink, UnlinkRaises, Goto
<1> QED BY <1>1, <1>2, <1>3, <1>4, <1>5, <1>6, <1>7, <1>8 DEF CallStep

LEMMA VaultStep == VaultTypeOK /\ VaultInv /\ [VaultNext]_vaultVars => VaultInv'
<1> SUFFICES ASSUME VaultTypeOK, VaultInv, [VaultNext]_vaultVars PROVE VaultInv'
    OBVIOUS
<1>1. ASSUME NEW w \in Calls, CallStep(w) PROVE VaultInv' BY <1>1, CallKeeps
<1> USE DEF VaultTypeOK, VaultInv, Anchored, Stopped, Placed, Active, store
<1>2. CASE LosePower
    <2>1. PICK under \in SUBSET Contents, lost \in SUBSET (Contents \ flushed) :
            /\ flushed' = flushed \ under /\ swept' = swept \cup under
            /\ object' = [c \in Contents |-> IF c \in lost \cup under THEN "none" ELSE object[c]]
        <3>1. PICK gone \in SUBSET {d \in Shards : shard[d] = "made"} :
                LET under == {c \in Contents : ShardOf[c] \in gone} IN
                /\ flushed' = flushed \ under /\ swept' = swept \cup under
                /\ \E lost \in SUBSET (Contents \ flushed) :
                     object' = [c \in Contents |-> IF c \in lost \cup under THEN "none" ELSE object[c]]
            BY <1>2, Zenon DEF LosePower
        <3>2. {c \in Contents : ShardOf[c] \in gone} \in SUBSET Contents OBVIOUS
        <3> QED BY <3>1, <3>2, Zenon
    <2>2. \A w \in Calls : pc'[w] \notin Active /\ (pc'[w] = pc[w] \/ pc'[w] = "dead")
        BY <1>2 DEF LosePower
    <2>3. catalog' = catalog /\ hasty' = hasty /\ tainted' = tainted /\ found' = found
        BY <1>2 DEF LosePower
    <2>4. Anchored' BY <2>1, <2>2, <2>3
    <2>5. Stopped' BY <2>2, <2>3
    <2> QED BY <2>4, <2>5
<1>3. ASSUME NEW c \in Contents, Damage(c) PROVE VaultInv' BY <1>3 DEF Damage
<1>4. CASE UNCHANGED vaultVars BY <1>4 DEF vaultVars
<1>5. ASSUME NEW d \in Shards, Settle(d) PROVE VaultInv' BY <1>5 DEF Settle
<1> QED BY <1>1, <1>2, <1>3, <1>4, <1>5 DEF VaultNext

LEMMA VaultStart == VaultInit => VaultInv
BY DEF VaultInit, VaultInv, Anchored, Stopped, Placed, Active

\* What is recorded is in the vault after any losses of power, but for what a
\* call recorded on the strength of an entry nobody had flushed, and for what
\* went with its whole shard, whose own entry is never flushed.
THEOREM CataloguedIsKept == VaultSpec => []CatalogHasObject
<1>1. VaultInv => CatalogHasObject BY DEF VaultInv, Anchored, CatalogHasObject
<1> QED BY <1>1, VaultTypeInit, VaultTypeStep, VaultStart, VaultStep, PTL DEF VaultSpec

\* No call succeeds, or records anything, beside damage that it began with.
THEOREM DamageStops == VaultSpec => []DamageIsNoticed
<1>1. VaultInv => DamageIsNoticed BY DEF VaultInv, Stopped, DamageIsNoticed
<1> QED BY <1>1, VaultTypeInit, VaultTypeStep, VaultStart, VaultStep, PTL DEF VaultSpec

\* No step puts a good object in the place of a damaged one.
THEOREM EvidenceStays == VaultSpec => NeverReplaced
<1>1. VaultTypeOK /\ [VaultNext]_vaultVars
        => [\A c \in Contents : object[c] = "damaged" => object'[c] \in {"damaged", "none"}]_vaultVars
    <2> SUFFICES ASSUME VaultTypeOK, [VaultNext]_vaultVars, NEW c \in Contents, object[c] = "damaged"
                 PROVE  object'[c] \in {"damaged", "none"}
        OBVIOUS
    <2> USE DEF VaultTypeOK, store
    <2>1. ASSUME NEW w \in Calls, CallStep(w) PROVE object'[c] = "damaged"
        <3>1. CASE Link(w) BY <3>1 DEF Link
        <3> QED BY <2>1, <3>1 DEF CallStep, Call, Reject, Stage, Look, Verify, Flush, Record, Raise,
                                  Unlink, UnlinkRaises, Die
    <2>2. CASE LosePower BY <2>2 DEF LosePower
    <2>3. ASSUME NEW d \in Contents, Damage(d) PROVE object'[c] = "damaged" BY <2>3 DEF Damage
    <2>4. CASE UNCHANGED vaultVars BY <2>4 DEF vaultVars
    <2>5. ASSUME NEW d \in Shards, Settle(d) PROVE object'[c] = "damaged" BY <2>5 DEF Settle
    <2> QED BY <2>1, <2>2, <2>3, <2>4, <2>5 DEF VaultNext
<1> QED BY <1>1, VaultTypeInit, VaultTypeStep, PTL DEF VaultSpec, NeverReplaced

-----------------------------------------------------------------------------
(* A download from the registries.                                          *)

Responses == [registry : Registries, version : Versions \cup {NoVersion}, parts : Nat]
Parts(r) == [of : {r}, part : Nat]

\* b holds the first chunks of the response r.
Beginning(b, r) ==
    /\ r \in Responses
    /\ b \in Seq(Parts(r))
    /\ \A i \in 1..Len(b) : b[i] = [of |-> r, part |-> i]

Candidates ==
    /\ ask \in Asks
    /\ step \in {"open", "read"} =>
         tries \in Seq([registry : Registries, version : Versions \cup {NoVersion}])

Reading ==
    step = "read" =>
        /\ tries # <<>>
        /\ \E r, b : /\ response = {r} /\ file = {b} /\ Beginning(b, r)
                     /\ r.registry = Head(tries).registry

\* After the download: a file of one response, from the registry of the label.
Finished ==
    step \in {"unwrap", "verify", "store", "scan"} =>
        \E r, b : /\ file = {b} /\ b # <<>> /\ Beginning(b, r)
                  /\ r.registry = label.registry

Unreported ==
    /\ step # "done" => result = NoReport
    /\ DOMAIN label = {"registry", "version", "verified", "digest"}

MarketInv == Candidates /\ Reading /\ Finished /\ Unreported /\ MatchedIsPublished

-----------------------------------------------------------------------------
\* A sequence of chunks numbered from 1, and one more, is a beginning again.
LEMMA NextChunk ==
    ASSUME NEW b, NEW r, Beginning(b, r)
    PROVE  Beginning(Append(b, [of |-> r, part |-> Len(b) + 1]), r)
<1> DEFINE S == Parts(r)
           c == [of |-> r, part |-> Len(b) + 1]
           d == Append(b, c)
<1>1. b \in Seq(S) /\ Len(b) \in Nat /\ c \in S
  BY DEF Beginning, Parts
<1>2. d \in Seq(S) /\ Len(d) = Len(b) + 1 /\ d[Len(b) + 1] = c /\ \A i \in 1..Len(b) : d[i] = b[i]
  <2> HIDE DEF S, c
  <2> QED BY <1>1
<1>3. \A i \in 1..Len(d) : d[i] = [of |-> r, part |-> i]
  <2> HIDE DEF d
  <2>1. \A i \in 1..Len(d) : i \in 1..Len(b) \/ i = Len(b) + 1
    BY <1>1, <1>2
  <2> QED BY <2>1, <1>2 DEF Beginning
<1> QED BY <1>2, <1>3 DEF Beginning

\* Every chunk is of that response.
LEMMA ChunkAt ==
    ASSUME NEW b, NEW r, Beginning(b, r)
    PROVE  \A i \in 1..Len(b) : b[i].of = r
<1> TAKE i \in 1..Len(b)
<1>1. b[i] = [of |-> r, part |-> i]
  BY Zenon DEF Beginning
<1>2. [of |-> r, part |-> i].of = r
  OBVIOUS
<1> QED BY <1>1, <1>2, Zenon

\* How many chunks there are.
LEMMA BeginningLen == ASSUME NEW b, NEW r, Beginning(b, r) PROVE Len(b) \in Nat
<1> DEFINE S == Parts(r)
<1>1. b \in Seq(S)
  BY Zenon DEF Beginning
<1> HIDE DEF S
<1> QED BY <1>1

\* While a response is read, Bytes and Source are what the file and the
\* connection hold, and as many chunks were read as there are in the file.
LEMMA ReadAll ==
    ASSUME NEW b, NEW r, response = {r}, file = {b}, Beginning(b, r)
    PROVE  Source = r /\ Bytes = b /\ Read(r) = Len(b)
<1>1. Source = r /\ Bytes = b
  BY DEF Source, Bytes
<1>2. Len(b) \in Nat /\ {i \in 1..Len(b) : b[i].of = r} = 1..Len(b)
  <2>1. Len(b) \in Nat
    BY BeginningLen
  <2>2. \A i \in 1..Len(b) : b[i].of = r
    BY ChunkAt, Zenon
  <2> QED BY <2>1, <2>2, Zenon
<1>3. ASSUME NEW n \in Nat PROVE Cardinality(1..n) = n
  <2>1. Cardinality(1..n) = IF 1 > n THEN 0 ELSE n - 1 + 1
    BY FS_Interval
  <2> QED BY <2>1
<1>4. Cardinality({i \in 1..Len(b) : b[i].of = r}) = Len(b)
  BY <1>2, <1>3, Zenon
<1>5. Read(r) = Cardinality({i \in 1..Len(b) : b[i].of = r})
  BY <1>1, Zenon DEF Read
<1> QED BY <1>1, <1>4, <1>5, Zenon

\* The page of a registry gives one or two candidates.
LEMMA ResolveStep ==
    ASSUME ask \in Asks, NEW p \in MarketPages \cup OpenVsxPages,
           NEW o \in {{}} \cup {{q} : q \in OpenVsxPages}, Resolve(p, o)
    PROVE  tries' \in Seq([registry : Registries, version : Versions \cup {NoVersion}])
<1> DEFINE S == [registry : Registries, version : Versions \cup {NoVersion}]
<1>1. p.registry \in Registries /\ p.version \in Versions \cup {NoVersion}
  BY DEF MarketPages, OpenVsxPages, Registries
<1>2. FirstUrl(p) \in S
  BY <1>1 DEF FirstUrl, Target, Registries, Asks
<1>3. SecondUrl(p, o) \in Seq(S)
  <2>1. CASE o = {}
    BY <2>1 DEF SecondUrl
  <2>2. ASSUME NEW q \in OpenVsxPages, o = {q} PROVE SecondUrl(p, o) \in Seq(S)
    <3>1. (CHOOSE x \in o : TRUE) = q
      BY <2>2
    <3>2. [registry |-> "openvsx", version |-> q.version] \in S
      BY DEF OpenVsxPages, Registries
    <3>3. \/ SecondUrl(p, o) = <<>>
          \/ SecondUrl(p, o) = <<[registry |-> "openvsx", version |-> (CHOOSE x \in o : TRUE).version]>>
      BY Zenon DEF SecondUrl
    <3> DEFINE e == [registry |-> "openvsx", version |-> q.version]
    <3>4. SecondUrl(p, o) = <<>> \/ SecondUrl(p, o) = <<e>>
      BY <3>1, <3>3
    <3> HIDE DEF S, e
    <3>5. <<>> \in Seq(S) /\ <<e>> \in Seq(S)
      BY <3>2 DEF e
    <3> QED BY <3>4, <3>5
  <2> QED BY <2>1, <2>2
<1>4. tries' = <<FirstUrl(p)>> \o SecondUrl(p, o)
  BY DEF Resolve
<1> HIDE DEF S
<1>5. <<FirstUrl(p)>> \in Seq(S)
  BY <1>2
<1> QED BY <1>3, <1>4, <1>5 DEF S

-----------------------------------------------------------------------------
\* One step keeps the invariant.
LEMMA MarketStep == MarketInv /\ [MarketNext]_marketVars => MarketInv'
<1> SUFFICES ASSUME MarketInv, [MarketNext]_marketVars PROVE MarketInv'
  OBVIOUS
<1> USE MarketOK DEF MarketInv
<1>0. NoReport.matched = FALSE
  BY DEF NoReport
\* A step that makes no report and records nothing.
<1>m. ASSUME result' = NoReport, row' = row PROVE MatchedIsPublished'
  <2>1. ~(result'.matched)
    BY <1>0, <1>m
  <2>2. \A r \in {row, NoReport} \ {NoReport} : r.registry = r.bytes[1].of.registry
    BY DEF MatchedIsPublished
  <2>3. \A r \in {row', result'} \ {NoReport} : r.registry = r.bytes[1].of.registry
    BY <1>m, <2>2
  <2> QED BY <2>1, <2>3, Zenon DEF MatchedIsPublished
\* A step that reads nothing and has no file that goes on.
<1>q. ASSUME step' \in {"open", "done", "failed"}, ask' = ask,
             step' = "open" => tries' \in Seq([registry : Registries, version : Versions \cup {NoVersion}]),
             step' # "done" => result' = NoReport, label' = label, MatchedIsPublished'
      PROVE  MarketInv'
  <2>1. Candidates'
    BY <1>q DEF Candidates
  <2>2. Reading' /\ Finished'
    BY <1>q DEF Reading, Finished
  <2>3. Unreported'
    BY <1>q DEF Unreported
  <2> QED BY <2>1, <2>2, <2>3, <1>q
<1>f. ASSUME NEW why, NEW kept, step # "done", Failed(why, kept) PROVE MarketInv'
  <2>1. step' = "failed" /\ ask' = ask /\ label' = label /\ result' = NoReport /\ row' = row
    BY <1>f DEF Failed, Unreported
  <2> QED BY <2>1, <1>m, <1>q
<1>1. ASSUME NEW p \in MarketPages \cup OpenVsxPages,
             NEW o \in {{}} \cup {{q} : q \in OpenVsxPages}, step = "lookup", Resolve(p, o)
      PROVE  MarketInv'
  <2>1. tries' \in Seq([registry : Registries, version : Versions \cup {NoVersion}])
    BY <1>1, ResolveStep DEF Candidates
  <2>2. step' = "open" /\ ask' = ask /\ label' = label /\ result' = NoReport /\ row' = row
    BY <1>1 DEF Resolve, Unreported
  <2> QED BY <2>1, <2>2, <1>m, <1>q
<1>2. CASE Open
  <2>1. PICK n \in 0..MaxParts :
          response' = {[registry |-> Head(tries).registry, version |-> Head(tries).version, parts |-> n]}
    BY <1>2 DEF Open
  <2> DEFINE r == [registry |-> Head(tries).registry, version |-> Head(tries).version, parts |-> n]
             C == [registry : Registries, version : Versions \cup {NoVersion}]
  <2>2. tries \in Seq(C) /\ tries # <<>>
    BY <1>2 DEF Open, Candidates
  <2>3. Head(tries) \in C
    <3> HIDE DEF C
    <3> QED BY <2>2
  <2>4. r \in Responses
    BY <2>3 DEF Responses
  <2>5. Beginning(<<>>, r)
    BY <2>4 DEF Beginning
  <2>6. /\ step' = "read" /\ file' = {<<>>} /\ response' = {r} /\ tries' = tries /\ ask' = ask
        /\ label' = label /\ result' = NoReport /\ row' = row
    BY <1>2, <2>1 DEF Open, Unreported
  <2>7. r.registry = Head(tries).registry
    OBVIOUS
  <2> HIDE DEF r
  <2>8. Reading'
    BY <2>2, <2>5, <2>6, <2>7 DEF Reading
  <2>9. Candidates'
    BY <2>2, <2>6 DEF Candidates
  <2>10. Finished' /\ Unreported'
    BY <2>6 DEF Finished, Unreported
  <2> QED BY <2>6, <2>8, <2>9, <2>10, <1>m
<1>3. CASE ReadChunk
  <2>1. step = "read" /\ step' = "read" /\ tries' = tries /\ ask' = ask /\ response' = response
        /\ label' = label /\ result' = NoReport /\ row' = row
    BY <1>3 DEF ReadChunk, Unreported
  <2>2. PICK r, b : /\ response = {r} /\ file = {b} /\ Beginning(b, r)
                    /\ r.registry = Head(tries).registry
    BY <2>1 DEF Reading
  <2>3. Source = r /\ Bytes = b /\ Read(r) = Len(b)
    BY <2>2, ReadAll
  <2>4. file' = {Append(b, [of |-> r, part |-> Len(b) + 1])}
    BY <1>3, <2>3 DEF ReadChunk
  <2>5. Beginning(Append(b, [of |-> r, part |-> Len(b) + 1]), r)
    BY <2>2, NextChunk
  <2>6. Reading'
    BY <2>1, <2>2, <2>4, <2>5 DEF Reading
  <2>7. Candidates'
    BY <2>1 DEF Candidates
  <2>8. Finished' /\ Unreported'
    BY <2>1 DEF Finished, Unreported
  <2> QED BY <2>1, <2>6, <2>7, <2>8, <1>m
<1>4. CASE NextUrl
  <2> DEFINE C == [registry : Registries, version : Versions \cup {NoVersion}]
  <2>1. tries \in Seq(C) /\ Len(tries) > 1 /\ tries' = Tail(tries)
    BY <1>4 DEF NextUrl, Candidates
  <2>2. tries' \in Seq(C)
    <3> HIDE DEF C
    <3> QED BY <2>1
  <2>3. step' = "open" /\ ask' = ask /\ label' = label /\ result' = NoReport /\ row' = row
    BY <1>4 DEF NextUrl, Unreported
  <2> QED BY <2>2, <2>3, <1>m, <1>q
<1>5. CASE Downloaded
  <2>1. /\ step = "read" /\ step' = "unwrap" /\ file' = file /\ Bytes # <<>>
        /\ ask' = ask /\ result' = NoReport /\ row' = row
        /\ label' = [label EXCEPT !.registry = Head(tries).registry, !.version = Target(page)]
    BY <1>5 DEF Downloaded, Unreported
  <2>2. PICK r, b : /\ response = {r} /\ file = {b} /\ Beginning(b, r)
                    /\ r.registry = Head(tries).registry
    BY <2>1 DEF Reading
  <2>3. Bytes = b
    BY <2>2, ReadAll
  <2>4. label'.registry = r.registry
    BY <2>1, <2>2
  <2>5. Finished'
    BY <2>1, <2>2, <2>3, <2>4 DEF Finished
  <2>6. Candidates' /\ Reading'
    BY <2>1 DEF Candidates, Reading
  <2>7. DOMAIN label' = DOMAIN label
    BY <2>1
  <2>8. Unreported'
    BY <2>1, <2>7 DEF Unreported
  <2> QED BY <2>1, <2>5, <2>6, <2>8, <1>m
<1>6. ASSUME step \in {"unwrap", "verify", "store", "scan"}, step' \in {"unwrap", "verify", "store", "scan"},
             file' = file, ask' = ask, label'.registry = label.registry, DOMAIN label' = DOMAIN label,
             result' = result, MatchedIsPublished'
      PROVE  MarketInv'
  <2>1. Candidates' /\ Reading'
    BY <1>6 DEF Candidates, Reading
  <2>2. Finished'
    BY <1>6 DEF Finished
  <2>3. Unreported'
    BY <1>6 DEF Unreported
  <2> QED BY <2>1, <2>2, <2>3, <1>6
<1>7. CASE Unwrap \/ Unwrapped
  <2>1. result' = NoReport /\ row' = row
    BY <1>7 DEF Unwrap, Unwrapped, Unreported
  <2> QED BY <1>7, <2>1, <1>m, <1>6 DEF Unwrap, Unwrapped, Unreported
<1>8. CASE UnwrapFails
  <2>1. step' = "failed" /\ ask' = ask /\ label' = label /\ result' = NoReport /\ row' = row
    BY <1>8 DEF UnwrapFails, Unreported
  <2> QED BY <2>1, <1>m, <1>q
<1>9. CASE CheckDigest
  <2>1. result' = NoReport /\ row' = row
    BY <1>9 DEF CheckDigest, Unreported
  <2>2. label'.registry = label.registry /\ DOMAIN label' = DOMAIN label
    BY <1>9 DEF CheckDigest, Unreported
  <2> QED BY <1>9, <2>1, <2>2, <1>m, <1>6 DEF CheckDigest, Unreported
<1>b. ASSUME step \in {"store", "scan"}
      PROVE  \E r : /\ r \in Responses /\ r.registry = label.registry
                    /\ Bytes # <<>> /\ Bytes[1].of = r
  <2>1. PICK r, b : /\ file = {b} /\ b # <<>> /\ Beginning(b, r) /\ r.registry = label.registry
    BY <1>b DEF Finished
  <2>2. Bytes = b
    BY <2>1 DEF Bytes
  <2>3. 1 \in 1..Len(b)
    <3> DEFINE S == Parts(r)
    <3>1. b \in Seq(S)
      BY <2>1 DEF Beginning
    <3> HIDE DEF S
    <3> QED BY <2>1, <3>1
  <2>4. b[1].of = r
    BY <2>1, <2>3, ChunkAt, Zenon
  <2>5. r \in Responses
    BY <2>1 DEF Beginning
  <2> QED BY <2>1, <2>2, <2>4, <2>5, Zenon
<1>10. CASE Preserve
  <2>1. /\ step = "store" /\ step' = "scan" /\ result' = NoReport /\ file' = file /\ ask' = ask
        /\ label' = label
        /\ row' = [registry |-> label.registry, version |-> label.version, matched |-> FALSE, bytes |-> Bytes]
    BY <1>10 DEF Preserve, Unreported
  <2>2. row'.registry = row'.bytes[1].of.registry
    BY <2>1, <1>b
  <2>3. \A x \in {row', result'} \ {NoReport} : x.registry = x.bytes[1].of.registry
    BY <2>1, <2>2
  <2>4. ~(result'.matched)
    BY <2>1, <1>0
  <2>5. MatchedIsPublished'
    BY <2>3, <2>4, Zenon DEF MatchedIsPublished
  <2>6. result' = result
    BY <2>1 DEF Unreported
  <2> QED BY <2>1, <2>5, <2>6, <1>6
<1>11. CASE NoVault
  <2>1. result' = NoReport /\ row' = row
    BY <1>11 DEF NoVault, Unreported
  <2> QED BY <1>11, <2>1, <1>m, <1>6 DEF NoVault
<1>12. CASE Accepted
  <2>1. /\ step = "scan" /\ step' = "done" /\ Whole(Bytes)
        /\ UNCHANGED <<ask, page, layers, label, row>>
        /\ result' = [registry |-> label.registry, version |-> Bytes[1].of.version,
                      matched |-> Matched, bytes |-> Bytes]
    BY <1>12 DEF Accepted
  <2>2. PICK r : /\ r \in Responses /\ r.registry = label.registry
                 /\ Bytes # <<>> /\ Bytes[1].of = r
    BY <2>1, <1>b
  <2>3. /\ result'.registry = r.registry /\ result'.version = r.version
        /\ result'.bytes = Bytes /\ result'.matched = Matched
    BY <2>1, <2>2
  <2>4. \A x \in {row', result'} \ {NoReport} : x.registry = x.bytes[1].of.registry
    <3>1. \A x \in {row} \ {NoReport} : x.registry = x.bytes[1].of.registry
      BY DEF MatchedIsPublished
    <3>2. result'.registry = result'.bytes[1].of.registry
      BY <2>2, <2>3
    <3> QED BY <2>1, <3>1, <3>2
  <2>5. ASSUME Matched
        PROVE  /\ r.registry = "vs-marketplace"
               /\ r = [registry |-> "vs-marketplace", version |-> r.version, parts |-> Len(Bytes)]
               /\ DigestOf(Bytes, Scanned)
    <3>1. DigestOf(Bytes, Scanned)
      BY <2>5 DEF Matched
    <3>2. r.registry = "vs-marketplace" /\ r.parts = Len(Bytes)
      BY <3>1, <2>1, <2>2 DEF DigestOf, Whole
    <3>3. r = [registry |-> "vs-marketplace", version |-> r.version, parts |-> Len(Bytes)]
      BY <2>2, <3>2 DEF Responses
    <3> QED BY <3>1, <3>2, <3>3
  <2>6. page' = page /\ Scanned' = Scanned
    BY <2>1 DEF Scanned
  <2>7. ASSUME DigestOf(Bytes, Scanned) PROVE DigestOf(result.bytes, Scanned)'
    <3>1. \A l : DigestOf(Bytes, l) =>
            /\ Whole(result'.bytes) /\ result'.bytes[1].of.registry = "vs-marketplace"
            /\ result'.bytes[1].of.version = page'.version
            /\ page'.digest = (CASE l = 0 -> "package" [] l = 1 -> "wrapped" [] OTHER -> "none")
      BY <2>3, <2>6, Zenon DEF DigestOf
    <3> QED BY <2>6, <2>7, <3>1, Zenon DEF DigestOf
  <2>8. MatchedIsPublished'
    <3>1. ASSUME Matched
          PROVE  /\ Whole(result'.bytes) /\ result'.registry = "vs-marketplace"
                 /\ result'.bytes[1].of = [registry |-> "vs-marketplace", version |-> result'.version,
                                           parts |-> Len(result'.bytes)]
      BY <3>1, <2>1, <2>2, <2>3, <2>5, Zenon
    <3>2. Matched => DigestOf(result.bytes, Scanned)'
      BY <2>5, <2>7
    <3>3. result'.matched = Matched
      BY <2>3
    <3> QED BY <2>4, <3>1, <3>2, <3>3, Zenon DEF MatchedIsPublished
  <2>9. label' = label /\ ask' = ask
    BY <2>1
  <2> QED BY <2>1, <2>8, <2>9, <1>q
<1>13. CASE UNCHANGED marketVars
  BY <1>13 DEF marketVars, Candidates, Reading, Finished, Unreported, MatchedIsPublished,
               DigestOf, Scanned
<1>14. CASE AskMarket \/ AskOpenVsx
  BY <1>14, <1>1 DEF AskMarket, AskOpenVsx
<1>15. CASE \/ NoPage \/ NoMoreUrls \/ ProtocolError \/ EmptyDownload \/ ReplaceFails
            \/ DigestDiffers \/ ScanFails
  BY <1>15, <1>f DEF NoPage, NoMoreUrls, ProtocolError, EmptyDownload, ReplaceFails,
                     DigestDiffers, ScanFails
<1> QED BY <1>2, <1>3, <1>4, <1>5, <1>7, <1>8, <1>9, <1>10, <1>11, <1>12, <1>13, <1>14, <1>15
        DEF MarketNext

\* The invariant holds at all times.
LEMMA MarketInvariance == MarketSpec => []MarketInv
<1>1. MarketInit => MarketInv
  <2> SUFFICES ASSUME MarketInit PROVE MarketInv
    OBVIOUS
  <2>1. Candidates /\ Reading /\ Finished
    BY DEF MarketInit, Candidates, Reading, Finished
  <2>2. Unreported
    BY DEF MarketInit, Unreported, NoLabel
  <2>3. row = NoReport /\ result = NoReport /\ ~(NoReport.matched)
    BY DEF MarketInit, NoReport
  <2>4. MatchedIsPublished
    BY <2>3, Zenon DEF MatchedIsPublished
  <2> QED BY <2>1, <2>2, <2>4 DEF MarketInv
<1> QED BY <1>1, MarketStep, PTL DEF MarketSpec

\* What goes on to the scan is the beginning of one response: no byte of a
\* candidate that broke off is left (registry.py:238-242).
THEOREM OneSourceOnly == MarketSpec => []OneSource
<1>1. MarketInv => OneSource
  <2> SUFFICES ASSUME MarketInv, step \in {"unwrap", "verify", "store", "scan"}
               PROVE  \A i \in 1..Len(Bytes) : Bytes[i] = [of |-> Bytes[1].of, part |-> i]
    BY DEF OneSource
  <2>1. PICK r, b : file = {b} /\ Beginning(b, r)
    BY DEF MarketInv, Finished
  <2>2. Bytes = b
    BY <2>1 DEF Bytes
  <2>3. Len(b) \in Nat
    BY <2>1, BeginningLen
  <2>4. ASSUME NEW i \in 1..Len(b) PROVE b[i] = [of |-> b[1].of, part |-> i]
    <3>1. 1 \in 1..Len(b)
      BY <2>3, <2>4
    <3>2. b[1].of = r
      BY <2>1, <3>1, ChunkAt, Zenon
    <3>3. b[i] = [of |-> r, part |-> i]
      BY <2>1, Zenon DEF Beginning
    <3> QED BY <3>2, <3>3, Zenon
  <2> QED BY <2>2, <2>4
<1> QED BY <1>1, MarketInvariance, PTL

\* A report and the row of the vault name the registry of their bytes, and
\* matched integrity is of exactly the bytes that the Marketplace published for
\* the version of the report (registry.py:245, scanner.py:1594-1601).
THEOREM ProvenanceIsTrue == MarketSpec => []MatchedIsPublished
<1>1. MarketInv => MatchedIsPublished
  BY DEF MarketInv
<1> QED BY <1>1, MarketInvariance, PTL

-----------------------------------------------------------------------------
(* The artifact behind a URL with a pin.                                    *)

\* What has been fetched at each point: a whole response once its digest is the
\* pin, and a directory only while a member is asked for.
Fetched ==
    /\ pinStep = "check" => download = {}
    /\ pinStep = "read" => download = {"part"}
    /\ pinStep = "hash" => download = {"part"} \/ (whole /\ download = {pin.serves})
    /\ pinStep \in {"member", "scan"} => whole /\ download = {pin.digest} /\ pin.serves = pin.digest
    /\ pinStep = "scan" => pin.kind = "plain"
    /\ pinStep = "returned" => download = {}
    /\ member # {} => pinStep = "returned"
    /\ pinStep = "failed" /\ download # {} => pinCause = "protocol"

Directory ==
    folder => pin.kind = "member" /\ pinStep \in {"read", "hash", "member"}

PinInv == PinTypeOK /\ Fetched /\ Directory /\ PinIsOfTheResult

\* A call that fails keeps nothing, or the partial file of a protocol error.
LEMMA PinFailsKeeps ==
    ASSUME PinInv, NEW why, NEW kept, PinFails(why, kept),
           pinStep \in {"check", "read", "hash", "member", "scan"},
           kept = {} \/ (kept = download /\ why = "protocol")
    PROVE  PinInv'
<1> USE DEF PinInv, PinFails
<1>1. PinTypeOK'
  BY DEF PinTypeOK
<1>2. Fetched' /\ Directory'
  BY DEF Fetched, Directory
<1>3. PinIsOfTheResult'
  BY DEF PinIsOfTheResult
<1> QED BY <1>1, <1>2, <1>3

LEMMA PinStepKeeps == PinInv /\ [PinNext]_pinVars => PinInv'
<1> SUFFICES ASSUME PinInv, [PinNext]_pinVars PROVE PinInv'
  OBVIOUS
<1> USE DEF PinInv, Fetched, Directory, PinIsOfTheResult
<1>0. /\ pin.kind \in {"plain", "member"} /\ pin.digest \in Remote /\ pin.serves \in Remote
      /\ pin.inner \in Plain /\ "part" \notin Remote
  BY DEF PinTypeOK, Pins, Remote, Plain
<1>1. CASE \/ PinRefused \/ PinBreaks \/ PinProtocolError \/ PinDiffers
           \/ MemberFails \/ MemberStoreFails \/ PinScanFails
  <2>1. PICK why, kept : /\ PinFails(why, kept) /\ pinStep \in {"check", "read", "hash", "member", "scan"}
                         /\ kept = {} \/ (kept = download /\ why = "protocol")
    BY <1>1 DEF PinRefused, PinBreaks, PinProtocolError, PinDiffers, MemberFails, MemberStoreFails, PinScanFails
  <2> QED BY <2>1, PinFailsKeeps
<1>2. CASE PinOpens
  <2>1. PinTypeOK'
    BY <1>2, <1>0 DEF PinOpens, PinTypeOK
  <2>2. Fetched' /\ Directory' /\ PinIsOfTheResult'
    BY <1>2 DEF PinOpens
  <2> QED BY <2>1, <2>2
<1>3. CASE PinReads
  <2>1. PinTypeOK'
    BY <1>3, <1>0 DEF PinReads, PinTypeOK
  <2>2. Fetched' /\ Directory' /\ PinIsOfTheResult'
    <3>1. CASE download' = {pin.serves} /\ whole' = TRUE
      BY <1>3, <3>1 DEF PinReads
    <3>2. CASE UNCHANGED <<download, whole>>
      BY <1>3, <3>2 DEF PinReads
    <3> QED BY <1>3, <3>1, <3>2 DEF PinReads
  <2> QED BY <2>1, <2>2
<1>4. CASE PinHolds
  BY <1>4, <1>0 DEF PinHolds, PinMatches, PinTypeOK
<1>5. CASE MemberStored
  BY <1>5, <1>0 DEF MemberStored, PinTypeOK
<1>6. CASE PinScanned
  BY <1>6, <1>0 DEF PinScanned, SaysVerified, PinTypeOK
<1>7. CASE UNCHANGED pinVars
  BY <1>7 DEF pinVars, PinTypeOK
<1> QED BY <1>1, <1>2, <1>3, <1>4, <1>5, <1>6, <1>7 DEF PinNext

LEMMA PinInvariance == PinSpec => []PinInv
<1>1. PinInit => PinInv
  BY DEF PinInit, PinInv, PinTypeOK, Fetched, Directory, PinIsOfTheResult, Remote
<1> QED BY <1>1, PinStepKeeps, PTL DEF PinSpec

\* What is handed out or scanned is what was pinned, and a report that says so
\* was made of the pinned bytes (artifact_input.py:57-62, 101-102,
\* scanner.py:1564-1569).
THEOREM PinnedBytesOnly == PinSpec => []PinIsOfTheResult
<1>1. PinInv => PinIsOfTheResult
  BY DEF PinInv
<1> QED BY <1>1, PinInvariance, PTL

-----------------------------------------------------------------------------
(* The types of a download, and what it leaves.                             *)

\* Every candidate names a registry and a version, for a call without either
\* ends at its lookup; what is read is of a candidate and within the limit.
Typed ==
    /\ ask \in Asks /\ page \in Page \cup {Nowhere} /\ layers \in 0..2 /\ scratch \in BOOLEAN
    /\ step \in {"lookup", "open", "read", "unwrap", "verify", "store", "scan", "done", "failed"}
    /\ response = {} \/ \E r \in Served : response = {r}
    /\ file = {} \/ \E b \in Seq(Chunks) : file = {b} /\ Len(b) <= Cap
    /\ step \in {"open", "read"} => tries \in Seq([registry : Registries, version : Versions])

\* The file is there from the first candidate on, and the worker's only while
\* it is run or when it could not take the file's place.
Kept ==
    /\ step = "lookup" => file = {}
    /\ scratch => step = "unwrap" \/ (step = "failed" /\ cause = "replace")
    /\ FilesRemoved

LEMMA TypedIsType == Typed => MarketTypeOK
<1> SUFFICES ASSUME Typed PROVE MarketTypeOK
  OBVIOUS
<1>1. \A S : S = {} \/ (\E x : S = {x}) => Cardinality(S) <= 1
  <2>1. Cardinality({}) = 0 /\ \A x : Cardinality({x}) = 1
    BY FS_EmptySet, FS_Singleton
  <2> QED BY <2>1
<1>2. response \subseteq Served /\ Cardinality(response) <= 1
  BY <1>1 DEF Typed
<1>3. Cardinality(file) <= 1
  BY <1>1 DEF Typed
<1>4. \A b \in file : Len(b) <= Cap /\ \A i \in 1..Len(b) : b[i] \in Chunks
  <2> DEFINE C == Chunks
  <2>1. \A b \in Seq(C) : \A i \in 1..Len(b) : b[i] \in C
    <3> HIDE DEF C
    <3> QED OBVIOUS
  <2>2. ASSUME NEW b \in file PROVE b \in Seq(C) /\ Len(b) <= Cap
    BY <2>2 DEF Typed
  <2> HIDE DEF C
  <2>3. \A b \in file : Len(b) <= Cap /\ \A i \in 1..Len(b) : b[i] \in C
    BY <2>1, <2>2
  <2> QED BY <2>3 DEF C
<1> QED BY <1>2, <1>3, <1>4 DEF Typed, MarketTypeOK

\* Only a version that somebody named is asked for.
LEMMA ResolveNames ==
    ASSUME ask \in Asks, NEW p \in MarketPages \cup OpenVsxPages,
           NEW o \in {{}} \cup {{q} : q \in OpenVsxPages}, Resolve(p, o)
    PROVE  tries' \in Seq([registry : Registries, version : Versions]) /\ p \in Page
<1> DEFINE S == [registry : Registries, version : Versions]
<1>1. /\ p \in Page /\ p.registry \in Registries /\ p.version \in Versions \cup {NoVersion}
      /\ p.url => p.version \in Versions
  BY DEF MarketPages, OpenVsxPages, Registries, Page, Digests
<1>2. FirstUrl(p) \in S
  <2>1. Target(p) \in Versions
    BY <1>1 DEF Resolve, Target, Asks
  <2> QED BY <1>1, <2>1 DEF FirstUrl, Registries
<1>3. SecondUrl(p, o) = <<>> \/ \E e \in S : SecondUrl(p, o) = <<e>>
  <2>1. CASE o = {}
    BY <2>1 DEF SecondUrl
  <2>2. ASSUME NEW q \in OpenVsxPages, o = {q} PROVE <1>3
    <3>1. (CHOOSE x \in o : TRUE) = q
      BY <2>2
    <3>2. q.url => [registry |-> "openvsx", version |-> q.version] \in S
      BY DEF OpenVsxPages, Registries
    <3>3. \/ SecondUrl(p, o) = <<>>
          \/ q.url /\ SecondUrl(p, o) = <<[registry |-> "openvsx", version |-> q.version]>>
      BY <2>2, <3>1 DEF SecondUrl
    <3> QED BY <3>2, <3>3
  <2> QED BY <2>1, <2>2
<1>4. tries' = <<FirstUrl(p)>> \o SecondUrl(p, o)
  BY DEF Resolve
<1> HIDE DEF S
<1>5. tries' \in Seq(S)
  <2>1. CASE SecondUrl(p, o) = <<>>
    <3>1. tries' = <<FirstUrl(p)>> \o <<>>
      BY <1>4, <2>1
    <3> QED BY <1>2, <3>1
  <2>2. ASSUME NEW e \in S, SecondUrl(p, o) = <<e>> PROVE tries' \in Seq(S)
    <3>1. tries' = <<FirstUrl(p)>> \o <<e>>
      BY <1>4, <2>2
    <3> QED BY <1>2, <3>1
  <2> QED BY <1>3, <2>1, <2>2
<1> QED BY <1>1, <1>5 DEF S

LEMMA TypedStep == MarketInv /\ Typed /\ [MarketNext]_marketVars => Typed'
<1> SUFFICES ASSUME MarketInv, Typed, [MarketNext]_marketVars PROVE Typed'
  OBVIOUS
<1> USE MarketOK DEF Typed
<1> DEFINE C == [registry : Registries, version : Versions]
<1>f. ASSUME NEW why, NEW kept, kept = {} \/ kept = file, Failed(why, kept) PROVE Typed'
  BY <1>f DEF Failed
<1>1. ASSUME NEW p \in MarketPages \cup OpenVsxPages,
             NEW o \in {{}} \cup {{q} : q \in OpenVsxPages}, step = "lookup", Resolve(p, o)
      PROVE  Typed'
  <2>1. tries' \in Seq(C) /\ p \in Page
    BY <1>1, ResolveNames
  <2>2. <<>> \in Seq(Chunks) /\ Len(<<>>) <= Cap
    OBVIOUS
  <2> HIDE DEF C
  <2> QED BY <1>1, <2>1, <2>2 DEF Resolve, C
<1>2. CASE Open
  <2>1. PICK n \in 0..MaxParts, l \in 0..2 :
          /\ response' = {[registry |-> Head(tries).registry, version |-> Head(tries).version, parts |-> n]}
          /\ layers' = l
    BY <1>2 DEF Open
  <2>2. tries \in Seq(C) /\ tries # <<>>
    BY <1>2 DEF Open
  <2>3. Head(tries) \in C
    <3> HIDE DEF C
    <3> QED BY <2>2
  <2>4. \E r \in Served : response' = {r}
    BY <2>1, <2>3 DEF Served
  <2>5. <<>> \in Seq(Chunks) /\ Len(<<>>) <= Cap
    OBVIOUS
  <2>6. file' = {<<>>} /\ UNCHANGED <<ask, page, tries, scratch>> /\ step' = "read"
    BY <1>2 DEF Open
  <2> QED BY <2>1, <2>2, <2>4, <2>5, <2>6
<1>3. CASE ReadChunk
  <2>1. /\ step = "read" /\ step' = "read" /\ UNCHANGED <<ask, page, tries, response, layers, scratch>>
    BY <1>3 DEF ReadChunk
  <2>2. PICK r, b : response = {r} /\ file = {b} /\ Beginning(b, r)
    BY <2>1 DEF MarketInv, Reading
  <2>3. Source = r /\ Bytes = b /\ Read(r) = Len(b)
    BY <2>2, ReadAll
  <2>4. r \in Served /\ b \in Seq(Chunks) /\ Len(b) \in Nat
    BY <2>2, BeginningLen
  <2> DEFINE c == [of |-> r, part |-> Len(b) + 1]
             D == Chunks
  <2>5. file' = {Append(b, c)} /\ Len(b) < r.parts /\ Len(b) < Cap
    BY <1>3, <2>3 DEF ReadChunk
  <2>6. c \in D
    BY <2>4, <2>5 DEF Served, Chunks
  <2>7. Append(b, c) \in Seq(D) /\ Len(Append(b, c)) <= Cap
    <3>1. b \in Seq(D)
      BY <2>4
    <3> HIDE DEF c, D
    <3> QED BY <3>1, <2>4, <2>5, <2>6
  <2>8. \E x \in Seq(Chunks) : file' = {x} /\ Len(x) <= Cap
    <3> HIDE DEF c
    <3> QED BY <2>5, <2>7
  <2> QED BY <2>1, <2>8
<1>4. CASE NextUrl
  <2>1. tries \in Seq(C) /\ Len(tries) > 1 /\ tries' = Tail(tries)
    BY <1>4 DEF NextUrl
  <2>2. tries' \in Seq(C)
    <3> HIDE DEF C
    <3> QED BY <2>1
  <2> QED BY <1>4, <2>2 DEF NextUrl
<1>5. CASE Downloaded \/ Unwrap \/ UnwrapFails
  BY <1>5 DEF Downloaded, Unwrap, UnwrapFails
<1>6. CASE Unwrapped
  <2>1. layers' \in 0..2
    BY <1>6 DEF Unwrapped
  <2> QED BY <1>6, <2>1 DEF Unwrapped
<1>7. CASE CheckDigest \/ Preserve \/ NoVault \/ Accepted
  BY <1>7 DEF CheckDigest, Preserve, NoVault, Accepted
<1>8. CASE UNCHANGED marketVars
  BY <1>8 DEF marketVars
<1>9. CASE AskMarket \/ AskOpenVsx
  BY <1>9, <1>1 DEF AskMarket, AskOpenVsx
<1>10. CASE \/ NoPage \/ NoMoreUrls \/ ProtocolError \/ EmptyDownload \/ ReplaceFails
            \/ DigestDiffers \/ ScanFails
  BY <1>10, <1>f DEF NoPage, NoMoreUrls, ProtocolError, EmptyDownload, ReplaceFails,
                     DigestDiffers, ScanFails
<1> QED BY <1>1, <1>2, <1>3, <1>4, <1>5, <1>6, <1>7, <1>8, <1>9, <1>10 DEF MarketNext

LEMMA KeptStep == Typed /\ Kept /\ [MarketNext]_marketVars => Kept'
<1> SUFFICES ASSUME Typed, Kept, [MarketNext]_marketVars PROVE Kept'
  OBVIOUS
<1> USE DEF Kept, FilesRemoved
<1>1. CASE AskMarket \/ AskOpenVsx
  <2>1. step' = "open" /\ scratch' = scratch /\ step = "lookup"
    BY <1>1 DEF AskMarket, AskOpenVsx, Resolve
  <2> QED BY <2>1
<1>2. CASE NoPage \/ NoMoreUrls \/ ProtocolError \/ EmptyDownload
  BY <1>2 DEF NoPage, NoMoreUrls, ProtocolError, EmptyDownload, Failed
<1>3. CASE Open \/ ReadChunk \/ NextUrl \/ Downloaded
  BY <1>3 DEF Open, ReadChunk, NextUrl, Downloaded
<1>4. CASE Unwrap \/ Unwrapped \/ UnwrapFails
  BY <1>4 DEF Unwrap, Unwrapped, UnwrapFails
<1>5. CASE ReplaceFails \/ DigestDiffers \/ ScanFails
  BY <1>5 DEF ReplaceFails, DigestDiffers, ScanFails, Failed
<1>6. CASE CheckDigest \/ Preserve \/ NoVault \/ Accepted
  BY <1>6 DEF CheckDigest, Preserve, NoVault, Accepted
<1>7. CASE UNCHANGED marketVars
  BY <1>7 DEF marketVars
<1> QED BY <1>1, <1>2, <1>3, <1>4, <1>5, <1>6, <1>7 DEF MarketNext

LEMMA MarketKeeps == MarketSpec => [](MarketInv /\ Typed /\ Kept)
<1>1. MarketInit => Typed /\ Kept
  <2> SUFFICES ASSUME MarketInit PROVE Typed /\ Kept
    OBVIOUS
  <2>1. Kept
    BY DEF MarketInit, Kept, FilesRemoved
  <2>2. Typed
    <3>1. ask \in Asks /\ step = "lookup" /\ page = Nowhere /\ response = {} /\ file = {}
      BY DEF MarketInit
    <3>2. layers = 0 /\ scratch \in BOOLEAN
      BY Zenon DEF MarketInit
    <3>3. layers \in 0..2
      BY <3>2
    <3> QED BY <3>1, <3>2, <3>3 DEF Typed
  <2> QED BY <2>1, <2>2
<1> QED BY <1>1, MarketInvariance, TypedStep, KeptStep, PTL DEF MarketSpec

-----------------------------------------------------------------------------
(* The four together.                                                       *)

\* A behaviour of Custody is one of each way of taking custody.
LEMMA CustodyIsEach == Custody => Spec /\ VaultSpec /\ MarketSpec /\ PinSpec
<1>1. CustodyInit => Init /\ VaultInit /\ MarketInit /\ PinInit
  BY DEF CustodyInit
<1>2. [CustodyNext]_<<part, vars, vaultVars, marketVars, pinVars>>
        => [Next]_vars /\ [VaultNext]_vaultVars /\ [MarketNext]_marketVars /\ [PinNext]_pinVars
  BY DEF CustodyNext
<1> QED BY <1>1, <1>2, PTL DEF Custody, Spec, VaultSpec, MarketSpec, PinSpec

\* Every variable of the four keeps its type.
THEOREM CustodyTypes == Custody => []TypesOK
<1>1. Typed => MarketTypeOK
  BY TypedIsType
<1>2. PinInv => PinTypeOK
  BY DEF PinInv
<1>3. TypeOK /\ VaultTypeOK /\ MarketTypeOK /\ PinTypeOK => TypesOK
  BY DEF TypesOK
<1> QED BY <1>1, <1>2, <1>3, CustodyIsEach, SnapshotTypeCorrect, VaultTypeCorrect, MarketKeeps,
           PinInvariance, PTL

\* A call that ends leaves no file, but for the errors that no handler catches
\* (registry.py:259-264, 471-499, scanner.py:1517-1518, artifact_input.py:63-110).
THEOREM CustodyLeavesNothing == Custody => []CallLeavesNothing
<1>1. Kept => FilesRemoved
  BY DEF Kept
<1>2. PinInv => PinLeavesNothing
  BY DEF PinInv, Fetched, Directory, PinLeavesNothing
<1>3. FilesRemoved /\ PinLeavesNothing => CallLeavesNothing
  BY DEF CallLeavesNothing
<1> QED BY <1>1, <1>2, <1>3, CustodyIsEach, MarketKeeps, PinInvariance, PTL
=============================================================================
