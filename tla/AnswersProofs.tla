---------------------------- MODULE AnswersProofs ----------------------------
(***************************************************************************)
(* What the program answers, for any number of releases, extensions, runs  *)
(* and retries.                                                            *)
(*                                                                         *)
(* Policy bundles: the approval that follows one path at a time is that of *)
(* the largest closed set.  The recursion of Approved has a solution, and  *)
(* for any solution a wrong answer would have a longest path: one step     *)
(* further the answers are right, and so they are on the path itself.      *)
(*                                                                         *)
(* Reports: each gate against what the report shows; a job by what its     *)
(* exit code stands for (Coded).                                           *)
(*                                                                         *)
(* Uploads: each request carries the key of its run (Keyed), so that an    *)
(* application of the same run is one of the same key, which the server    *)
(* looks for; a good answer on the way is of a run that was applied        *)
(* (Earned).                                                               *)
(*                                                                         *)
(* Registries: a list of keys is asked for batch by batch, and every key   *)
(* of it is in one of them; a list is what its fold made of it (Folding).  *)
(***************************************************************************)
EXTENDS RegistryIntel, ReleasePolicy, CollectorUpload, Verdicts, FiniteSetTheorems, TLAPS

-----------------------------------------------------------------------------
(* Policy bundles.                                                          *)

\* A nonempty set of sets of releases has one that no other one contains.
LEMMA Maximal ==
    ASSUME NEW B \in SUBSET SUBSET Releases, B # {}
    PROVE  \E v \in B : \A w \in B : v \subseteq w => w = v
<1> DEFINE C == {Releases \ v : v \in B}
<1>1. IsWellFoundedOn(StrictSubsetOrdering(Releases), FiniteSubsetsOf(Releases))
  BY FS_StrictSubsetOrderingWellFounded
<1>0. C # {}
  <2>1. PICK v \in B : TRUE
    OBVIOUS
  <2>2. Releases \ v \in C
    OBVIOUS
  <2> HIDE DEF C
  <2> QED BY <2>2
<1>2. C \subseteq FiniteSubsetsOf(Releases)
  <2> SUFFICES ASSUME NEW v \in B PROVE Releases \ v \in FiniteSubsetsOf(Releases)
    OBVIOUS
  <2>1. IsFiniteSet(Releases \ v)
    BY ReleasesOK, FS_Subset
  <2> QED BY <2>1 DEF FiniteSubsetsOf
<1>3. PICK c \in C : \A d \in C : ~(<<d, c>> \in StrictSubsetOrdering(Releases))
  <2> HIDE DEF C
  <2> QED BY <1>0, <1>1, <1>2, WFMin
<1>4. PICK v \in B : c = Releases \ v
  OBVIOUS
<1>5. ASSUME NEW w \in B, v \subseteq w, w # v PROVE FALSE
  <2>1. Releases \ w \in C /\ Releases \ w \subseteq c /\ Releases \ w # c
    BY <1>4, <1>5
  <2>2. <<Releases \ w, c>> \in StrictSubsetOrdering(Releases)
    BY <2>1, <1>4 DEF StrictSubsetOrdering
  <2> QED BY <2>1, <2>2, <1>3
<1> QED BY <1>5


\* What Approved's table says of a relationship at the end of a path, by what
\* it says of longer ones.
Entry(table, x, v) ==
    /\ x.scanned
    /\ x.to \in Listed
    /\ \/ x.to \in v
       \/ ~Contract(x.to).present
       \/ /\ ~Contract(x.to).review
          /\ Contract(x.to).declared \subseteq table[v \cup {x.to}]

IsTable(table) == table = [v \in SUBSET Releases |-> {x \in Relation : Entry(table, x, v)}]

ApprovedTable == CHOOSE table : IsTable(table)

\* Approved looks the question up.
LEMMA ApprovedIsLookedUp ==
    ASSUME NEW rel, NEW path PROVE Approved(rel, path) <=> rel \in ApprovedTable[path]
BY DEF Approved, ApprovedTable, IsTable, Entry

\* What the type of a bundle says of a release of it.
LEMMA DeclaredAreRelations ==
    ASSUME bundle \in Bundle, NEW r \in Listed
    PROVE  /\ r \in Releases /\ Contract(r).declared \subseteq Relation
           /\ ~Contract(r).present => Contract(r).declared = {} /\ ~Contract(r).review
<1>1. PICK L \in SUBSET Releases : bundle.entries \in [L -> RelationshipContract]
  BY DEF Bundle
<1>2. r \in L /\ bundle.entries[r] \in RelationshipContract
  BY <1>1 DEF Listed
<1>3. \A c \in RelationshipContract : /\ c.declared \subseteq Relation
                                      /\ ~c.present => c.declared = {} /\ ~c.review
  BY DEF RelationshipContract, NoContract
<1> QED BY <1>2, <1>3 DEF Contract

\* There is such a table: the union of all sets of questions each of which is
\* answered by others of the set.
LEMMA TableExists == ASSUME bundle \in Bundle PROVE IsTable(ApprovedTable)
<1> DEFINE Q == Relation \X SUBSET Releases
           T(S) == [v \in SUBSET Releases |-> {x \in Relation : <<x, v>> \in S}]
           Closed(S) == \A x \in Relation, v \in SUBSET Releases : <<x, v>> \in S => Entry(T(S), x, v)
           U == UNION {S \in SUBSET Q : Closed(S)}
<1>1. ASSUME NEW R \in SUBSET Q, NEW S \in SUBSET Q, R \subseteq S,
             NEW x \in Relation, NEW v \in SUBSET Releases, Entry(T(R), x, v)
      PROVE  Entry(T(S), x, v)
  <2>1. x.to \in Releases
    BY DEF Relation
  <2>2. T(R)[v \cup {x.to}] \subseteq T(S)[v \cup {x.to}]
    BY <1>1, <2>1
  <2> HIDE DEF T
  <2> QED BY <1>1, <2>2 DEF Entry
<1>2. Closed(U)
  <2> SUFFICES ASSUME NEW x \in Relation, NEW v \in SUBSET Releases, <<x, v>> \in U
               PROVE  Entry(T(U), x, v)
    OBVIOUS
  <2>1. PICK S \in SUBSET Q : Closed(S) /\ <<x, v>> \in S
    <3> HIDE DEF Closed
    <3> QED OBVIOUS
  <2>2. S \subseteq U /\ U \in SUBSET Q
    <3> HIDE DEF Closed
    <3> QED BY <2>1
  <2>3. Entry(T(S), x, v)
    BY <2>1
  <2> HIDE DEF U, T
  <2> QED BY <1>1, <2>2, <2>3
<1>3. ASSUME NEW x \in Relation, NEW v \in SUBSET Releases, Entry(T(U), x, v) PROVE <<x, v>> \in U
  <2> DEFINE S == U \cup {<<x, v>>}
  <2>1. U \in SUBSET Q /\ U \subseteq S /\ <<x, v>> \in S /\ S \in SUBSET Q
    <3> HIDE DEF Closed
    <3> QED OBVIOUS
  <2>2. Closed(S)
    <3> SUFFICES ASSUME NEW y \in Relation, NEW w \in SUBSET Releases, <<y, w>> \in S
                 PROVE  Entry(T(S), y, w)
      OBVIOUS
    <3>1. Entry(T(U), y, w)
      <4>1. <<y, w>> \in U \/ (y = x /\ w = v)
        OBVIOUS
      <4> HIDE DEF U, T, S
      <4> QED BY <1>2, <1>3, <4>1
    <3> HIDE DEF U, T, S
    <3> QED BY <1>1, <2>1, <3>1
  <2> HIDE DEF Closed, S
  <2> QED BY <2>1, <2>2
<1>4. IsTable(T(U))
  <2> HIDE DEF U
  <2>1. \A v \in SUBSET Releases : {x \in Relation : <<x, v>> \in U} = {x \in Relation : Entry(T(U), x, v)}
    <3> HIDE DEF T
    <3>1. \A x \in Relation, v \in SUBSET Releases : <<x, v>> \in U <=> Entry(T(U), x, v)
      BY <1>2, <1>3
    <3> QED BY <3>1
  <2> QED BY <2>1 DEF IsTable
<1> HIDE DEF T, U
<1> QED BY <1>4 DEF ApprovedTable

-----------------------------------------------------------------------------
\* The largest set of releases that is closed but for those of w.
ClosedBut(w, S) ==
    \A r \in S : ~Contract(r).review /\ \A rel \in Contract(r).declared : rel.scanned /\ rel.to \in S \cup w
Free(w) == UNION {S \in SUBSET Listed : ClosedBut(w, S)}

\* That set is one of them,
LEMMA FreeIsClosed == ASSUME NEW w PROVE Free(w) \subseteq Listed /\ ClosedBut(w, Free(w))
BY DEF Free, ClosedBut

\* and the largest.
LEMMA FreeIsLargest == ASSUME NEW w, NEW S \in SUBSET Listed, ClosedBut(w, S) PROVE S \subseteq Free(w)
BY DEF Free

\* What is approved leads to releases that are free of review, but for those
\* of the path: by the longest path for which it does not.
LEMMA ApprovedIsFree ==
    ASSUME bundle \in Bundle, NEW v \in SUBSET Releases, NEW x \in ApprovedTable[v]
    PROVE  x.scanned /\ x.to \in Free(v) \cup v
<1> DEFINE Wrong(u) == \E y \in ApprovedTable[u] : ~(y.scanned /\ y.to \in Free(u) \cup u)
           B == {u \in SUBSET Releases : Wrong(u)}
<1> SUFFICES ASSUME B # {} PROVE FALSE
  OBVIOUS
<1>1. PICK u \in B : \A w \in B : u \subseteq w => w = u
  <2>1. B \in SUBSET SUBSET Releases
    OBVIOUS
  <2> HIDE DEF B
  <2> QED BY <2>1, Maximal
<1>2. PICK y \in ApprovedTable[u] : ~(y.scanned /\ y.to \in Free(u) \cup u)
  BY <1>1
<1>3. y \in Relation /\ Entry(ApprovedTable, y, u)
  BY <1>1, <1>2, TableExists DEF IsTable
<1> DEFINE t == y.to
<1>4. t \in Listed /\ t \in Releases /\ t \notin u /\ t \notin Free(u)
  BY <1>2, <1>3 DEF Entry, Relation
<1> HIDE DEF B, t
<1>5. CASE Contract(t).declared = {} /\ ~Contract(t).review
  <2>1. ClosedBut(u, {t})
    BY <1>5 DEF ClosedBut
  <2> QED BY <2>1, <1>4, FreeIsLargest
<1>6. CASE ~Contract(t).review /\ Contract(t).declared \subseteq ApprovedTable[u \cup {t}]
  <2>1. u \cup {t} \notin B
    BY <1>1, <1>4
  <2>2. \A z \in ApprovedTable[u \cup {t}] : z.scanned /\ z.to \in Free(u \cup {t}) \cup (u \cup {t})
    BY <1>1, <1>4, <2>1 DEF B
  <2>3. ClosedBut(u, Free(u \cup {t}) \cup {t})
    <3> DEFINE F == Free(u \cup {t})
    <3>1. ClosedBut(u \cup {t}, F)
      BY FreeIsClosed
    <3> HIDE DEF F
    <3> QED BY <1>6, <2>2, <3>1 DEF ClosedBut, F
  <2>4. Free(u \cup {t}) \cup {t} \in SUBSET Listed
    BY <1>4, FreeIsClosed
  <2> QED BY <2>3, <2>4, <1>4, FreeIsLargest
<1> QED BY <1>3, <1>4, <1>5, <1>6, DeclaredAreRelations DEF Entry, t

\* And a scanned relationship to a release of a closed set is approved.
LEMMA ClosedIsApproved ==
    ASSUME bundle \in Bundle, NEW S \in SUBSET Listed, Sound(S), NEW v \in SUBSET Releases,
           NEW x \in Relation, x.scanned, x.to \in S
    PROVE  x \in ApprovedTable[v]
<1> DEFINE Wrong(u) == \E y \in Relation : y.scanned /\ y.to \in S /\ y \notin ApprovedTable[u]
           B == {u \in SUBSET Releases : Wrong(u)}
<1> SUFFICES ASSUME B # {} PROVE FALSE
  OBVIOUS
<1>1. PICK u \in B : \A w \in B : u \subseteq w => w = u
  <2>1. B \in SUBSET SUBSET Releases
    OBVIOUS
  <2> HIDE DEF B
  <2> QED BY <2>1, Maximal
<1>2. PICK y \in Relation : y.scanned /\ y.to \in S /\ y \notin ApprovedTable[u]
  BY <1>1
<1>3. ~Entry(ApprovedTable, y, u)
  BY <1>1, <1>2, TableExists DEF IsTable
<1> DEFINE t == y.to
<1>4. /\ t \in Listed /\ t \in Releases /\ t \notin u
      /\ ~(Contract(t).declared \subseteq ApprovedTable[u \cup {t}])
  BY <1>2, <1>3 DEF Entry, Relation, Sound
<1>5. PICK z \in Contract(t).declared : z \notin ApprovedTable[u \cup {t}]
  BY <1>4
<1>6. z \in Relation /\ z.scanned /\ z.to \in S
  BY <1>2, <1>4, <1>5, DeclaredAreRelations DEF Sound
<1>7. u \cup {t} \in B
  BY <1>1, <1>4, <1>5, <1>6
<1> HIDE DEF B
<1> QED BY <1>1, <1>4, <1>7

\* The two together.
LEMMA ReviewFreeIs ==
    ASSUME bundle \in Bundle PROVE {r \in Listed : ~ReviewRequired(r)} = ReviewFree
<1>1. ASSUME NEW r \in ReviewFree PROVE r \in Listed /\ ~ReviewRequired(r)
  <2>1. PICK S \in SUBSET Listed : Sound(S) /\ r \in S
    BY DEF ReviewFree
  <2>2. \A rel \in Contract(r).declared : rel \in Relation /\ rel.scanned /\ rel.to \in S
    BY <2>1, DeclaredAreRelations DEF Sound
  <2>3. \A rel \in Contract(r).declared : Approved(rel, {})
    BY <2>1, <2>2, ClosedIsApproved, ApprovedIsLookedUp
  <2> QED BY <2>1, <2>3 DEF ReviewRequired, Sound
<1>2. ASSUME NEW r \in Listed, ~ReviewRequired(r) PROVE r \in ReviewFree
  <2>1. ~Contract(r).review /\ \A rel \in Contract(r).declared : rel.scanned /\ rel.to \in Free({})
    <3>1. CASE ~Contract(r).present
      BY <3>1, DeclaredAreRelations
    <3>2. CASE ~Contract(r).review /\ \A rel \in Contract(r).declared : Approved(rel, {})
      <4>1. \A rel \in Contract(r).declared : rel \in ApprovedTable[{}]
        BY <3>2, ApprovedIsLookedUp
      <4>2. \A rel \in Contract(r).declared : rel.scanned /\ rel.to \in Free({}) \cup {}
        BY <4>1, ApprovedIsFree
      <4> QED BY <3>2, <4>2
    <3> QED BY <1>2, <3>1, <3>2 DEF ReviewRequired
  <2> DEFINE S == Free({}) \cup {r}
  <2>2. S \in SUBSET Listed /\ Sound(S)
    BY <2>1, FreeIsClosed DEF ClosedBut, Sound
  <2> QED BY <2>2 DEF ReviewFree
<1> QED BY <1>1, <1>2

\* No review is needed exactly for the largest set of releases that is closed
\* under its relationships (policy.py:101-136), for every bundle of any finite
\* set of releases.
THEOREM ApprovalsAreClosed == bundle \in Bundle => ApprovalIsClosed
BY ReviewFreeIs DEF ApprovalIsClosed

\* Bytes are allowed only if every release they are published as is in that set
\* (policy.py:318-341, main.py:324).
THEOREM AllowedBytesAreClosed == bundle \in Bundle => AllowedIsClosed
<1> SUFFICES ASSUME bundle \in Bundle, NEW b, VerifyExit(b) = 0
             PROVE  /\ Matching(b) # {}
                    /\ Matching(b) \subseteq ReviewFree
                    /\ \A r \in Matching(b) : CheckInstalled(r).review = "not_required"
  BY DEF AllowedIsClosed
<1>1. Matching(b) # {} /\ \A r \in Matching(b) : ~ReviewRequired(r)
  BY DEF VerifyExit, Verify
<1>2. Matching(b) \subseteq Listed
  BY DEF Matching
<1>3. \A r \in Matching(b) : CheckInstalled(r).review = "not_required"
  BY <1>1, <1>2 DEF CheckInstalled
<1> QED BY <1>1, <1>2, <1>3, ReviewFreeIs

-----------------------------------------------------------------------------
(* Reports.                                                                 *)

\* The worst decision is one that the report shows, and the last in the order.
LEMMA WorstIsShown ==
    ASSUME NEW exts \in Seq(Extension), exts # <<>>
    PROVE  WorstDecision(exts) \in Shown(exts)
<1> DEFINE P(i) == /\ DECISION_ORDER[i] \in Shown(exts)
                   /\ \A j \in (i + 1)..4 : DECISION_ORDER[j] \notin Shown(exts)
<1>1. \E i \in 1..4 : DECISION_ORDER[i] \in Shown(exts)
  <2>1. 1 \in DOMAIN exts /\ exts[1] \in Extension
    OBVIOUS
  <2>2. exts[1].decision \in Shown(exts) /\ exts[1].decision \in Decision
    BY <2>1 DEF Shown, Range, Extension
  <2> QED BY <2>2 DEF Decision, DECISION_ORDER
<1>2. \E i \in 1..4 : P(i)
  <2> DEFINE D(i) == DECISION_ORDER[i] \in Shown(exts)
  <2> HIDE DEF D
  <2>1. CASE D(4)
    BY <2>1 DEF D
  <2>2. CASE ~D(4) /\ D(3)
    <3>1. P(3) BY <2>2 DEF D
    <3> QED BY <3>1
  <2>3. CASE ~D(4) /\ ~D(3) /\ D(2)
    <3>1. P(2) BY <2>3 DEF D
    <3> QED BY <3>1
  <2>4. CASE ~D(4) /\ ~D(3) /\ ~D(2) /\ D(1)
    <3>1. P(1) BY <2>4 DEF D
    <3> QED BY <3>1
  <2> QED BY <1>1, <2>1, <2>2, <2>3, <2>4 DEF D
<1> DEFINE k == CHOOSE i \in 1..4 : P(i)
<1>3. WorstDecision(exts) = DECISION_ORDER[k]
  BY DEF WorstDecision
<1>4. k \in 1..4 /\ P(k)
  BY <1>2
<1> QED BY <1>3, <1>4

\* A report shows decisions.
LEMMA ShownAre == ASSUME NEW exts \in Seq(Extension) PROVE Shown(exts) \subseteq Decision
<1>1. Range(exts) \subseteq Extension
  BY DEF Range
<1>2. \A e \in Extension : e.decision \in Decision
  BY DEF Extension
<1> HIDE DEF Extension
<1> QED BY <1>1, <1>2 DEF Shown

\* What a scan lets pass.
LEMMA Passes ==
    ASSUME NEW exts, NEW failOn, ScanExit(exts, failOn) = 0
    PROVE  /\ "incomplete" \notin Shown(exts)
           /\ failOn # "never" => "block" \notin Shown(exts)
           /\ failOn = "review" => "review" \notin Shown(exts)
BY DEF ScanExit

\* Brief, scan and Action never differ in a way that lets a release pass in one
\* of them that another one holds (risk_brief.py:317-378, main.py:855-863), for
\* reports of any number of extensions.
THEOREM ReadersAlwaysAgree == verdict \in Verdict => ReadersAgree
<1> SUFFICES ASSUME verdict \in Verdict PROVE ReadersAgree
  OBVIOUS
<1> DEFINE exts == verdict.extensions
           failOn == verdict.failOn
<1>1. exts \in Seq(Extension) /\ failOn \in {"review", "block", "never"}
  BY DEF Verdict
<1> HIDE DEF exts, failOn
<1>2. Shown(exts) = {e.decision : e \in Range(exts)} /\ Range(exts) \subseteq Extension
  BY <1>1 DEF Shown, Range
<1>3. ASSUME failOn # "block", BriefExit(exts, failOn) = 0 PROVE ScanExit(exts, failOn) = 0
  <2>1. \A e \in Range(exts) : Gate(e) # "insufficient_evidence"
    BY <1>3 DEF BriefExit, Gates
  <2>2. \A e \in Range(exts) : e.decision # "incomplete"
    BY <1>2, <2>1 DEF Gate, Extension
  <2>3. failOn = "review" => \A e \in Range(exts) : Gate(e) \notin {"not_recommended", "needs_human_review"}
    BY <1>3 DEF BriefExit, Gates
  <2>4. failOn = "review" => \A e \in Range(exts) : e.decision \notin {"block", "review"}
    BY <2>1, <2>3 DEF Gate
  <2> QED BY <1>1, <1>2, <1>3, <2>2, <2>4 DEF ScanExit
<1>4. ASSUME ScanExit(exts, failOn) = 0, exts # <<>> PROVE WorstDecision(exts) # "incomplete"
  BY <1>1, <1>4, WorstIsShown, Passes
<1>5. ASSUME RecommendationPermitted(exts)
      PROVE  /\ BriefExit(exts, "review") = 0 /\ ScanExit(exts, "review") = 0
             /\ ReportComplete(exts) /\ exts[1].sha256 /\ exts[1].osv = "completed"
  <2>1. Len(exts) = 1 /\ Gate(exts[1]) = "eligible_for_recommendation"
    BY <1>5 DEF RecommendationPermitted
  <2>2. Range(exts) = {exts[1]} /\ exts # <<>>
    <3>1. DOMAIN exts = {1}
      BY <1>1, <2>1
    <3>2. Len(<<>>) = 0 /\ Len(exts) = 1
      BY <2>1
    <3>3. Range(exts) = {exts[x] : x \in {1}}
      BY <3>1 DEF Range
    <3>4. Range(exts) = {exts[1]}
      BY <3>3
    <3> QED BY <3>2, <3>4
  <2>3. /\ exts[1].decision \notin {"block", "incomplete", "review"}
        /\ exts[1].coverage = "complete" /\ exts[1].sha256 /\ exts[1].osv = "completed"
    BY <2>1 DEF Gate
  <2>4. BriefExit(exts, "review") = 0
    BY <2>1, <2>2 DEF BriefExit, Gates
  <2>5. ScanExit(exts, "review") = 0
    BY <2>2, <2>3 DEF ScanExit, Shown
  <2> QED BY <2>2, <2>3, <2>4, <2>5 DEF ReportComplete
<1> QED BY <1>3, <1>4, <1>5 DEF ReadersAgree, exts, failOn

\* A passing code is of the report that lies at the path, and of what is
\* published.
Coded ==
    /\ verdict \in Verdict
    /\ exit = 0 =>
        /\ ScanExit(verdict.extensions, verdict.failOn) = 0
        /\ reportFile = {verdict.extensions}
    /\ job # "scan" => exit # -1
    /\ job = "passed" => exit = 0
    /\ exit = 0 /\ job \notin {"scan", "publish"} =>
        published.valid /\ published.decision = WorstDecision(verdict.extensions)

\* Every step keeps it so.
LEMMA CodedStep == Coded /\ [VerdictNext]_verdictVars => Coded'
<1> SUFFICES ASSUME Coded, [VerdictNext]_verdictVars PROVE Coded'
  OBVIOUS
<1> USE DEF Coded
<1>1. CASE ScanEnds
  <2>1. exit' # -1
    BY <1>1 DEF ScanEnds, ScanExit
  <2> QED BY <1>1, <2>1 DEF ScanEnds
<1>2. CASE ScanRaises
  BY <1>2 DEF ScanRaises
<1>3. CASE Publish
  <2>1. reportFile = {verdict.extensions} => (CHOOSE r \in reportFile : TRUE) = verdict.extensions
    OBVIOUS
  <2>2. reportFile = {verdict.extensions} =>
          published'.valid /\ published'.decision = WorstDecision(verdict.extensions)
    BY <1>3, <2>1 DEF Publish
  <2> QED BY <1>3, <2>2 DEF Publish
<1>4. CASE Enforce
  BY <1>4 DEF Enforce
<1>5. CASE UNCHANGED verdictVars
  BY <1>5 DEF verdictVars
<1> QED BY <1>1, <1>2, <1>3, <1>4, <1>5 DEF VerdictNext

\* A job that passes is of the report of its own scan (action.yml:69-128), for
\* reports of any number of extensions.
THEOREM PassedJobsAreOfTheirScan == VerdictSpec => []PassedIsOfThisScan
<1>1. verdict \in Verdict /\ VerdictInit => Coded
  BY DEF VerdictInit, Coded
<1>2. Coded => PassedIsOfThisScan
  <2> SUFFICES ASSUME Coded, job = "passed" PROVE PassedIsOfThisScan
    BY DEF PassedIsOfThisScan
  <2> DEFINE exts == verdict.extensions
  <2>1. exts \in Seq(Extension) /\ verdict.failOn \in {"review", "block", "never"}
    BY DEF Coded, Verdict
  <2>2. ScanExit(exts, verdict.failOn) = 0 /\ published.valid /\ published.decision = WorstDecision(exts)
    BY DEF Coded
  <2>3. exts # <<>> => WorstDecision(exts) \in Shown(exts) /\ Shown(exts) \subseteq Decision
    BY <2>1, WorstIsShown, ShownAre
  <2> QED BY <2>1, <2>2, <2>3, Passes DEF PassedIsOfThisScan, Decision
<1> QED BY <1>1, <1>2, CodedStep, PTL DEF VerdictSpec

-----------------------------------------------------------------------------
(* Uploads.                                                                 *)

Applied(r) == \E i \in DOMAIN applied : applied[i].run = r

Keyed ==
    /\ applied \in Seq([run : Runs, key : {<<r>> : r \in Runs}])
    /\ \A m \in sent : m.run \in Runs /\ m.key = <<m.run>>
    /\ \A i \in DOMAIN applied : applied[i].key = <<applied[i].run>>

Earned ==
    /\ upload \in [Runs -> {"ready", "waiting", "accepted", "failed"}]
    /\ \A a \in answered : a.run \in Runs /\ (a.code = "200" => Applied(a.run))

UploadInv == Keyed /\ Earned /\ AppliedOnce

-----------------------------------------------------------------------------
\* The server appends a run that is not applied yet, or changes nothing.
LEMMA ServerStep ==
    ASSUME UploadInv, NEW m \in sent,
           applied' = IF \E i \in DOMAIN applied : applied[i].key = m.key THEN applied
                      ELSE Append(applied, [run |-> m.run, key |-> m.key])
    PROVE  /\ applied' \in Seq([run : Runs, key : {<<r>> : r \in Runs}])
           /\ \A i \in DOMAIN applied' : applied'[i].key = <<applied'[i].run>>
           /\ \A i, j \in DOMAIN applied' : applied'[i].run = applied'[j].run => i = j
           /\ \A r : Applied(r) => Applied(r)'
           /\ Applied(m.run)'
<1> USE DEF UploadInv, Keyed, AppliedOnce, Applied
<1>1. m.run \in Runs /\ m.key = <<m.run>>
  OBVIOUS
<1>2. CASE \E i \in DOMAIN applied : applied[i].key = m.key
  <2>1. applied' = applied
    BY <1>2
  <2>2. PICK i \in DOMAIN applied : applied[i].key = m.key
    BY <1>2
  <2>3. applied[i].run = m.run
    BY <1>1, <2>2
  <2> QED BY <2>1, <2>2, <2>3
<1>3. CASE ~\E i \in DOMAIN applied : applied[i].key = m.key
  <2> DEFINE e == [run |-> m.run, key |-> m.key]
  <2>1. /\ applied' = Append(applied, e)
        /\ e \in [run : Runs, key : {<<r>> : r \in Runs}]
    BY <1>1, <1>3
  <2>2. \A i \in DOMAIN applied : applied[i].run # m.run
    BY <1>1, <1>3
  <2> DEFINE S == [run : Runs, key : {<<r>> : r \in Runs}]
  <2>s. applied \in Seq(S) /\ e \in S /\ applied' = Append(applied, e)
    BY <2>1
  <2>h. applied' \in Seq(S)
    <3> HIDE DEF S, e, UploadInv, Keyed, AppliedOnce, Applied
    <3> QED BY <2>s
  <2>3. /\ applied' \in Seq(S)
        /\ DOMAIN applied' = 1..(Len(applied) + 1)
        /\ DOMAIN applied = 1..Len(applied)
        /\ \A i \in 1..Len(applied) : applied'[i] = applied[i]
        /\ applied'[Len(applied) + 1] = e
        /\ Len(applied) \in Nat
    <3> HIDE DEF S, e, UploadInv, Keyed, AppliedOnce, Applied
    <3> QED BY <2>s, <2>h
  <2>4. e.run = m.run /\ e.key = <<e.run>>
    BY <1>1
  <2> HIDE DEF e
  <2>5. \A i \in DOMAIN applied' : i \in DOMAIN applied \/ i = Len(applied) + 1
    BY <2>3
  <2>6. \A i \in DOMAIN applied' : applied'[i].key = <<applied'[i].run>>
    BY <2>3, <2>4, <2>5
  <2>7. \A i, j \in DOMAIN applied' : applied'[i].run = applied'[j].run => i = j
    BY <2>2, <2>3, <2>4, <2>5
  <2>8. ASSUME NEW r, Applied(r) PROVE Applied(r)'
    <3>1. PICK i \in DOMAIN applied : applied[i].run = r
      BY <2>8
    <3> QED BY <3>1, <2>3
  <2>9. Applied(m.run)'
    BY <2>3, <2>4
  <2> QED BY <2>3, <2>6, <2>7, <2>8, <2>9
<1> QED BY <1>2, <1>3

\* Every step keeps the invariant.
LEMMA UploadStep == UploadInv /\ [UploadNext]_uploadVars => UploadInv'
<1> SUFFICES ASSUME UploadInv, [UploadNext]_uploadVars PROVE UploadInv'
  OBVIOUS
<1>1. ASSUME NEW r \in Runs, Send(r) PROVE UploadInv'
  BY <1>1 DEF UploadInv, Keyed, Earned, AppliedOnce, Applied, Send, IdempotencyKey
<1>2. ASSUME NEW r \in Runs, Reads(r) PROVE UploadInv'
  <2> USE DEF UploadInv, Keyed, Earned, Applied
  <2>1. Keyed'
    BY <1>2 DEF Reads
  <2>2. PICK a \in answered :
          /\ a.run = r
          /\ answered' = answered \ {a}
          /\ \/ a.code = "200" /\ upload' = [upload EXCEPT ![r] = "accepted"]
             \/ upload' = [upload EXCEPT ![r] = "ready"]
             \/ upload' = [upload EXCEPT ![r] = "failed"]
    BY <1>2 DEF Reads, Again
  <2>3. applied' = applied
    BY <1>2 DEF Reads
  <2>4. Earned'
    BY <2>2, <2>3
  <2>5. AppliedOnce'
    BY <2>2, <2>3 DEF AppliedOnce
  <2> QED BY <2>1, <2>4, <2>5
<1>3. ASSUME NEW r \in Runs, GivesUp(r) \/ ReadTimesOut(r) PROVE UploadInv'
  <2>1. /\ \/ upload' = [upload EXCEPT ![r] = "ready"]
           \/ upload' = [upload EXCEPT ![r] = "failed"]
        /\ UNCHANGED <<sent, applied, answered>>
    BY <1>3 DEF GivesUp, ReadTimesOut, Again
  <2> QED BY <2>1 DEF UploadInv, Keyed, Earned, AppliedOnce, Applied
<1>4. ASSUME ServerApplies PROVE UploadInv'
  <2>1. PICK m \in sent :
          /\ sent' = sent \ {m}
          /\ applied' = IF \E i \in DOMAIN applied : applied[i].key = m.key THEN applied
                        ELSE Append(applied, [run |-> m.run, key |-> m.key])
          /\ \E code \in {"200", "retry", "garbled"} :
               answered' = answered \cup {[run |-> m.run, attempt |-> m.attempt, code |-> code]}
          /\ UNCHANGED <<attempt, upload>>
    BY <1>4 DEF ServerApplies
  <2>2. m.run \in Runs
    BY DEF UploadInv, Keyed
  <2>3. /\ applied' \in Seq([run : Runs, key : {<<r>> : r \in Runs}])
        /\ \A i \in DOMAIN applied' : applied'[i].key = <<applied'[i].run>>
        /\ \A i, j \in DOMAIN applied' : applied'[i].run = applied'[j].run => i = j
        /\ \A r : Applied(r) => Applied(r)'
        /\ Applied(m.run)'
    BY <2>1, ServerStep
  <2>4. Keyed'
    BY <2>1, <2>3 DEF UploadInv, Keyed
  <2>5. Earned'
    BY <2>1, <2>2, <2>3 DEF UploadInv, Earned
  <2>6. AppliedOnce'
    BY <2>1, <2>3 DEF UploadInv, AppliedOnce, Applied
  <2> QED BY <2>4, <2>5, <2>6 DEF UploadInv
<1>5. ASSUME ServerRefuses PROVE UploadInv'
  BY <1>5 DEF UploadInv, Keyed, Earned, AppliedOnce, Applied, ServerRefuses
<1>6. ASSUME LoseMessage PROVE UploadInv'
  BY <1>6 DEF UploadInv, Keyed, Earned, AppliedOnce, Applied, LoseMessage, Lost
<1>7. CASE UNCHANGED uploadVars
  BY <1>7 DEF UploadInv, Keyed, Earned, AppliedOnce, Applied, uploadVars
<1> QED BY <1>1, <1>2, <1>3, <1>4, <1>5, <1>6, <1>7 DEF UploadNext

\* However often a snapshot is sent, and whatever the network loses or delays,
\* the server applies it at most once, and a command that reports success was
\* applied (collector.py:68-87), for any number of runs and retries.
THEOREM SnapshotsAreAppliedOnce == UploadSpec => []AppliedOnce
<1>1. UploadInit => UploadInv
  BY DEF UploadInit, UploadInv, Keyed, Earned, AppliedOnce, Applied
<1>2. UploadInv => AppliedOnce
  BY DEF UploadInv
<1> QED BY <1>1, <1>2, UploadStep, PTL DEF UploadSpec

-----------------------------------------------------------------------------
(* Registries.                                                              *)

Naming(deps, d, a, x) == IF x \in deps /\ Named(x) THEN Append(a, x) ELSE a
Namings == INSTANCE Folding WITH Op <- Naming

Seeing(c, d, seen, k) == IF k \in Range(seen) THEN seen ELSE Append(seen, k)
Seen == INSTANCE Folding WITH Op <- Seeing

\* The entries of a manifest are the dependencies that name a version.
LEMMA EntriesAre ==
    ASSUME NEW e
    PROVE  /\ Entries(e) \in Seq(Declared)
           /\ \A d \in Declared : d \in e.deps /\ Named(d) => d \in Range(Entries(e))
           /\ \A d \in Range(Entries(e)) : d \in e.deps /\ Named(d)
<1> DEFINE s == DeclaredOrder
           n == Len(s)
           P == {d \in Declared : d \in e.deps /\ Named(d)}
<1>1. s \in Seq(Declared) /\ Range(s) = Declared
  BY DeclaredOK DEF IsList
<1>2. n \in Nat /\ DOMAIN s = 1..n /\ \A k \in 1..n : s[k] \in Declared
  BY <1>1
<1>3. Entries(e) = Namings!Folded(e.deps, 0, <<>>, s)
  BY DEF Entries, Where, FoldLeft, MapThenFoldSet, Max, Namings!Folded, Namings!Top, Naming
<1> HIDE DEF n, s
<1>4. PICK p : /\ p[0] = <<>>
               /\ \A k \in 0..(n - 1) : p[k + 1] = Naming(e.deps, 0, p[k], s[k + 1])
               /\ p[n] = Entries(e)
  BY <1>2, <1>3, Namings!Steps
<1>5. ASSUME NEW k \in 0..(n - 1)
      PROVE  p[k + 1] = IF s[k + 1] \in P THEN Append(p[k], s[k + 1]) ELSE p[k]
  <2>1. s[k + 1] \in Declared
    BY <1>2
  <2> QED BY <1>4, <2>1 DEF Naming
<1> DEFINE w == Entries(e)
<1>6. p[0] = <<>> /\ p[Len(s)] = w
  BY <1>4 DEF n
<1> HIDE DEF P, w
<1>7. w \in Seq(Declared) /\ Namings!IsSelection(s, P, w)
  <2>1. \A k \in 0..(Len(s) - 1) : p[k + 1] = IF s[k + 1] \in P THEN Append(p[k], s[k + 1]) ELSE p[k]
    BY <1>5 DEF n
  <2> QED BY <1>1, <1>6, <2>1, Namings!Selects
<1>8. ASSUME NEW d \in P PROVE d \in Range(w)
  <2>1. PICK i \in DOMAIN s : s[i] = d
    BY <1>1 DEF Range, P
  <2>2. PICK j \in DOMAIN w : w[j] = s[i]
    BY <1>7, <2>1 DEF Namings!IsSelection
  <2> QED BY <2>1, <2>2 DEF Range
<1>9. ASSUME NEW d \in Range(w) PROVE d \in P
  <2>1. PICK j \in DOMAIN w : w[j] = d
    BY DEF Range
  <2> QED BY <1>7, <2>1 DEF Namings!IsSelection
<1> QED BY <1>7, <1>8, <1>9 DEF P, w

\* The keys that are asked for: a list, of every entry of every manifest.
LEMMA KeysAre ==
    ASSUME NEW exts, InstalledOK(exts)
    PROVE  /\ Len(Keys(exts)) \in Nat /\ DOMAIN Keys(exts) = 1..Len(Keys(exts))
           /\ \A i \in DOMAIN exts : \A d \in exts[i].deps : Named(d) => Key(d) \in Range(Keys(exts))
<1> DEFINE T == {Key(d) : d \in Declared}
           seqs == [i \in DOMAIN exts |-> KeySeq(exts[i])]
           m == Len(exts)
<1>1. m \in Nat /\ DOMAIN exts = 1..m /\ \A i \in 1..m : exts[i].deps \subseteq Declared
  BY DEF InstalledOK, IsList, Range
<1>2. ASSUME NEW e
      PROVE  /\ KeySeq(e) \in Seq(T)
             /\ \A d \in Range(Entries(e)) : \E j \in DOMAIN KeySeq(e) : KeySeq(e)[j] = Key(d)
  <2> DEFINE es == Entries(e)
             l == Len(es)
  <2>1. es \in Seq(Declared)
    BY EntriesAre
  <2> HIDE DEF es
  <2>2. l \in Nat /\ DOMAIN es = 1..l /\ \A j \in 1..l : es[j] \in Declared
    BY <2>1
  <2>3. KeySeq(e) = [j \in 1..l |-> Key(es[j])]
    BY <2>2 DEF KeySeq, es
  <2>4. \A j \in 1..l : Key(es[j]) \in T
    BY <2>2
  <2> HIDE DEF T, l
  <2>5. KeySeq(e) \in [1..l -> T]
    BY <2>3, <2>4
  <2>6. KeySeq(e) \in Seq(T)
    BY <2>2, <2>5
  <2>7. ASSUME NEW d \in Range(es) PROVE \E j \in DOMAIN KeySeq(e) : KeySeq(e)[j] = Key(d)
    <3>1. PICK j \in 1..l : es[j] = d
      BY <2>2 DEF Range
    <3>2. j \in DOMAIN KeySeq(e) /\ KeySeq(e)[j] = Key(d)
      BY <2>3, <3>1
    <3> QED BY <3>2
  <2> QED BY <2>6, <2>7 DEF es
<1>3. seqs \in Seq(Seq(T)) /\ Len(seqs) = m /\ \A i \in 1..m : seqs[i] = KeySeq(exts[i])
  <2>1. \A i \in 1..m : seqs[i] = KeySeq(exts[i])
    BY <1>1
  <2>2. seqs = [i \in 1..m |-> seqs[i]]
    BY <1>1
  <2> HIDE DEF seqs, T
  <2>3. seqs \in [1..m -> Seq(T)]
    BY <1>2, <2>1, <2>2
  <2> HIDE DEF m
  <2>4. seqs \in Seq(Seq(T)) /\ Len(seqs) = m
    BY <1>1, <2>3
  <2> QED BY <2>1, <2>4
<1> DEFINE s == FlattenSeq(seqs)
<1>4. s = Seen!Flattened(seqs)
  BY DEF FlattenSeq, Seen!Flattened
<1> HIDE DEF T, seqs, m, s
<1>5. /\ s \in Seq(T)
      /\ \A k \in 1..m : \A j \in DOMAIN seqs[k] : \E i \in DOMAIN s : s[i] = seqs[k][j]
  <2>1. /\ Seen!Flattened(seqs) \in Seq(T)
        /\ \A k \in 1..Len(seqs) : \A j \in DOMAIN seqs[k] :
              \E i \in DOMAIN Seen!Flattened(seqs) : Seen!Flattened(seqs)[i] = seqs[k][j]
    BY <1>3, Seen!FlatElements
  <2> QED BY <1>3, <1>4, <2>1
<1> DEFINE n == Len(s)
<1>6. n \in Nat /\ DOMAIN s = 1..n /\ \A k \in 1..n : s[k] \in T
  BY <1>5
<1>7. Keys(exts) = Seen!Folded(0, 0, <<>>, s)
  BY DEF Keys, FoldLeft, MapThenFoldSet, Max, Seen!Folded, Seen!Top, Seeing, s, seqs
<1> HIDE DEF n
<1>8. PICK p : /\ p[0] = <<>>
               /\ \A k \in 0..(n - 1) : p[k + 1] = Seeing(0, 0, p[k], s[k + 1])
               /\ p[n] = Keys(exts)
  BY <1>6, <1>7, Seen!Steps
<1> DEFINE Good(k) == p[k] \in Seq(T) /\ \A i \in 1..k : s[i] \in Range(p[k])
           S == {k \in 0..n : Good(k)}
<1>9. 0 \in S
  <2>1. <<>> \in Seq(T) /\ 0 \in 0..n /\ 1..0 = {}
    BY <1>6
  <2> QED BY <1>8, <2>1
<1>10. ASSUME NEW k \in 0..(n - 1), k \in S PROVE k + 1 \in S
  <2> DEFINE a == p[k]
             b == p[k + 1]
             x == s[k + 1]
  <2>1. a \in Seq(T) /\ \A i \in 1..k : s[i] \in Range(a)
    BY <1>10
  <2>2. b = IF x \in Range(a) THEN a ELSE Append(a, x)
    BY <1>8 DEF Seeing
  <2>3. x \in T /\ k + 1 \in 0..n /\ \A i \in 1..(k + 1) : i \in 1..k \/ i = k + 1
    BY <1>6
  <2> HIDE DEF a, b
  <2>4. b \in Seq(T) /\ Range(a) \subseteq Range(b) /\ x \in Range(b)
    <3>1. CASE x \in Range(a)
      BY <2>1, <2>2, <3>1
    <3>2. CASE x \notin Range(a)
      <4> HIDE DEF x
      <4>1. b = Append(a, x)
        BY <2>2, <3>2
      <4>2. /\ b \in Seq(T) /\ Len(a) \in Nat /\ DOMAIN a = 1..Len(a) /\ DOMAIN b = 1..(Len(a) + 1)
            /\ \A j \in 1..Len(a) : b[j] = a[j]
            /\ b[Len(a) + 1] = x
        BY <2>1, <2>3, <4>1
      <4>3. ASSUME NEW y \in Range(a) PROVE y \in Range(b)
        <5>1. PICK j \in 1..Len(a) : a[j] = y
          BY <4>2 DEF Range
        <5>2. j \in DOMAIN b /\ b[j] = y
          BY <4>2, <5>1
        <5> QED BY <5>2 DEF Range
      <4>4. x \in Range(b)
        <5>1. Len(a) + 1 \in DOMAIN b
          BY <4>2
        <5> QED BY <4>2, <5>1 DEF Range
      <4> QED BY <4>2, <4>3, <4>4
    <3> QED BY <3>1, <3>2
  <2>5. Good(k + 1)
    <3>1. \A i \in 1..(k + 1) : s[i] \in Range(b)
      BY <2>1, <2>3, <2>4
    <3> QED BY <2>4, <3>1 DEF b
  <2> HIDE DEF Good
  <2> QED BY <2>3, <2>5
<1>11. n \in S
  <2> HIDE DEF S
  <2> QED BY <1>6, <1>9, <1>10, Seen!Induct
<1>12. Keys(exts) \in Seq(T) /\ \A i \in 1..n : s[i] \in Range(Keys(exts))
  BY <1>8, <1>11
<1>13. ASSUME NEW i \in DOMAIN exts, NEW d \in exts[i].deps, Named(d) PROVE Key(d) \in Range(Keys(exts))
  <2>1. i \in 1..m /\ d \in Range(Entries(exts[i]))
    BY <1>1, <1>13, EntriesAre DEF m
  <2>2. PICK j \in DOMAIN KeySeq(exts[i]) : KeySeq(exts[i])[j] = Key(d)
    BY <1>2, <2>1
  <2>3. PICK h \in DOMAIN s : s[h] = Key(d)
    BY <1>3, <1>5, <2>1, <2>2
  <2> QED BY <1>6, <1>12, <2>3
<1> QED BY <1>12, <1>13

\* Each of n questions is in a batch.
LEMMA InBatch ==
    ASSUME NEW n \in Nat, NEW i \in 1..n
    PROVE  \E b \in Batches(n, OsvBatch) : i \in (b * OsvBatch + 1)..(b * OsvBatch + OsvBatch)
<1> DEFINE B == OsvBatch
           In(b, k) == b * B \in Nat /\ b * B <= k /\ k < b * B + B
           S == {k \in 0..n : \E b \in 0..k : In(b, k)}
<1>0. B \in Nat /\ B > 0
  BY BatchOK
<1> HIDE DEF B
<1>1. 0 \in S
  <2>1. 0 * B = 0
    BY <1>0
  <2>2. In(0, 0)
    BY <1>0, <2>1
  <2> HIDE DEF In
  <2> QED BY <2>2
<1>2. ASSUME NEW k \in 0..(n - 1), k \in S PROVE k + 1 \in S
  <2>1. PICK b \in 0..k : In(b, k)
    BY <1>2
  <2>2. k + 1 \in 0..n /\ b \in 0..(k + 1) /\ b + 1 \in 0..(k + 1)
    OBVIOUS
  <2>3. (b + 1) * B = b * B + B
    BY <1>0
  <2>4. In(b, k + 1) \/ In(b + 1, k + 1)
    <3> DEFINE c == b * B
    <3>1. c \in Nat /\ c <= k /\ k < c + B /\ (b + 1) * B = c + B
      BY <2>1, <2>3
    <3> HIDE DEF c
    <3>2. (k + 1 < c + B /\ c <= k + 1) \/ (c + B <= k + 1 /\ k + 1 < c + B + B /\ c + B \in Nat)
      BY <1>0, <3>1
    <3> QED BY <3>1, <3>2 DEF c
  <2> HIDE DEF In
  <2> QED BY <2>2, <2>4
<1>3. i - 1 \in S
  <2> SUFFICES ASSUME NEW h \in Nat, h = i - 1 PROVE h \in S
    OBVIOUS
  <2>1. \A k \in 0..(h - 1) : k \in 0..(n - 1)
    OBVIOUS
  <2> HIDE DEF S
  <2> QED BY <1>1, <1>2, <2>1, Seen!Induct
<1>4. PICK b \in 0..(i - 1) : In(b, i - 1)
  BY <1>3
<1> DEFINE c == b * B
<1>5. c \in Nat /\ c <= i - 1 /\ i - 1 < c + B
  BY <1>4
<1> HIDE DEF c
<1>6. b \in 0..n /\ c < n /\ i \in (c + 1)..(c + B)
  BY <1>0, <1>5
<1> QED BY <1>6 DEF c, B, Batches

\* The records of a key are found where the batch it is asked in is answered.
LEMMA VulnsOf ==
    ASSUME NEW keys, NEW h \in DOMAIN keys, NEW b \in Answered(keys), AskedIn(b, h), NEW r \in intel.osv[keys[h]]
    PROVE  r \in Vulns(keys, keys[h])
BY DEF Vulns

\* Where records of a key are missing, the batch it is asked in failed, and an
\* error says so, or was empty.
LEMMA MissingVulns ==
    ASSUME NEW exts, NEW k \in Range(Keys(exts)), NEW r \in intel.osv[k], r \notin Vulns(Keys(exts), k)
    PROVE  "osv" \in Errors(exts) \/ \E h \in DOMAIN Keys(exts), b \in intel.empty.osv : AskedIn(b, h) /\ Keys(exts)[h] = k
<1> DEFINE keys == Keys(exts)
<1>1. Len(keys) \in Nat /\ DOMAIN keys = 1..Len(keys)
  BY KeysAre
<1>2. PICK h \in 1..Len(keys) : keys[h] = k
  BY <1>1 DEF Range
<1>3. PICK b \in Batches(Len(keys), OsvBatch) : AskedIn(b, h)
  BY <1>1, InBatch DEF AskedIn
<1> HIDE DEF keys
<1>4. b \notin Answered(keys)
  BY <1>1, <1>2, <1>3, VulnsOf DEF keys
<1>5. CASE b \in intel.fails.osv
  BY <1>3, <1>5 DEF Errors, keys
<1>6. CASE b \in intel.empty.osv
  BY <1>1, <1>2, <1>3, <1>6 DEF keys
<1> QED BY <1>3, <1>4, <1>5, <1>6 DEF Answered

\* What a source holds on an extension is reported, or an error or an error body
\* stands for it (registry.py:86-99, 553-570, 646-652, 717-732, 797-810), for any
\* number of installations, batches and records.
THEOREM FailedSourcesAreNamed == InstalledOK(intel.installed) => FailedSourceIsNamed
<1> SUFFICES ASSUME InstalledOK(intel.installed) PROVE FailedSourceIsNamed
  OBVIOUS
<1> DEFINE exts == intel.installed
           Removal == {"marketplace-removed-malware", "marketplace-removed-package"}
<1>1. ASSUME NEW id \in Ids(exts), NEW f \in FindingsOf(exts, id) PROVE f \in Findings(exts)
  BY <1>1 DEF Findings
<1>2. ASSUME NEW id \in Ids(exts), intel.removed[id] # "none", "removed" \notin Errors(exts) \cup intel.empty.once
      PROVE  \E f \in Findings(exts) : f.id = id /\ f.rule \in Removal
  <2>1. "removed" \notin intel.fails.once \cup intel.empty.once
    BY <1>2 DEF Errors
  <2>2. PICK rule \in Removal, severity \in {"CRITICAL", "HIGH", "MEDIUM"} :
          RemovedFinding(id) = {Finding(id, rule, severity, "")}
    BY <1>2, <2>1 DEF RemovedFinding
  <2> DEFINE f == Finding(id, rule, severity, "")
  <2>3. f.id = id /\ f.rule = rule
    BY DEF Finding
  <2>4. f \in FindingsOf(exts, id)
    BY <2>2 DEF FindingsOf
  <2> HIDE DEF f, exts
  <2> QED BY <1>1, <2>3, <2>4
<1>3. ASSUME NEW id \in Ids(exts), "marketplace" \notin Errors(exts), ~PageEmpty(exts, id)
      PROVE  PageFindings(id, intel.pages[id]) \subseteq Findings(exts)
  <2>1. ~PageUnknown(exts, id)
    BY <1>3 DEF PageUnknown, MarketErrors, Errors
  <2>2. SeenPage(exts, id) = intel.pages[id]
    BY <1>3 DEF SeenPage
  <2>3. PageFindings(id, intel.pages[id]) \subseteq FindingsOf(exts, id)
    BY <2>1, <2>2 DEF FindingsOf
  <2> QED BY <1>1, <2>3
<1>4. ASSUME NEW k \in Range(Keys(exts)), "osv" \notin Errors(exts),
             ~ \E h \in DOMAIN Keys(exts), b \in intel.empty.osv : AskedIn(b, h) /\ Keys(exts)[h] = k
      PROVE  intel.osv[k] \subseteq Vulns(Keys(exts), k)
  <2> SUFFICES ASSUME NEW r \in intel.osv[k] PROVE r \in Vulns(Keys(exts), k)
    OBVIOUS
  <2> QED BY <1>4, MissingVulns
<1>5. ASSUME NEW e \in Range(exts), "repository" \notin Errors(exts), e.repo \notin intel.empty.repos
      PROVE  RepositoryFindings(e.id, e.repo) \subseteq Findings(exts)
  <2>1. e.id \in Ids(exts)
    BY DEF Ids
  <2>2. CASE e.repo = "none"
    BY <2>2 DEF RepositoryFindings
  <2>3. CASE e.repo # "none"
    <3>1. e.repo \notin intel.fails.repos \cup intel.empty.repos
      BY <1>5, <2>3 DEF Errors, AskedRepos
    <3>2. RepositoryFindings(e.id, e.repo) \subseteq FindingsOf(exts, e.id)
      BY <3>1 DEF FindingsOf
    <3> QED BY <1>1, <2>1, <3>2
  <2> QED BY <2>2, <2>3
<1> HIDE DEF exts
<1> QED BY <1>2, <1>3, <1>4, <1>5 DEF FailedSourceIsNamed, exts

\* A dependency that is known to be malware makes its extension CRITICAL
\* (registry.py:618-679, 682-696) unless the batch it is asked in failed or
\* came back empty, whatever else is declared and known beside it and however the other batches end.
THEOREM MaliciousDependenciesAreReported == InstalledOK(intel.installed) => MaliciousDependencyReported
<1> SUFFICES ASSUME InstalledOK(intel.installed),
                    NEW i \in DOMAIN intel.installed,
                    \A j \in DOMAIN intel.installed : intel.installed[j].id = intel.installed[i].id => j <= i,
                    NEW d \in intel.installed[i].deps, Named(d),
                    NEW r \in intel.osv[Key(d)], r \in MalwareIds \/ (r = Excused /\ Key(d) # Security),
                    \A h \in DOMAIN Keys(intel.installed), b \in Batches(Len(Keys(intel.installed)), OsvBatch) :
                       AskedIn(b, h) /\ Keys(intel.installed)[h] = Key(d) => b \in Answered(Keys(intel.installed))
             PROVE  Finding(intel.installed[i].id, "malicious-npm-dependency", "CRITICAL", d.name)
                       \in Findings(intel.installed)
  BY DEF MaliciousDependencyReported
<1> DEFINE exts == intel.installed
           e == exts[i]
           known == Filter(Key(d), Vulns(Keys(exts), Key(d)))
<1>1. DOMAIN exts = 1..Len(exts) /\ Len(exts) \in Nat /\ e \in Range(exts) /\ e.deps \subseteq Declared
  BY DEF InstalledOK, IsList, Range
<1>2. EntriesOf(exts, e.id) = Entries(e)
  <2> DEFINE IsLast(h) == h \in DOMAIN exts /\ exts[h].id = e.id /\ \A j \in DOMAIN exts : exts[j].id = e.id => j <= h
  <2>1. IsLast(i) /\ \A h : IsLast(h) => h = i
    BY <1>1
  <2>2. (CHOOSE h \in DOMAIN exts : exts[h].id = e.id /\ \A j \in DOMAIN exts : exts[j].id = e.id => j <= h) = i
    BY <2>1
  <2> QED BY <2>2 DEF EntriesOf
<1>3. d \in Range(EntriesOf(exts, e.id))
  BY <1>1, <1>2, EntriesAre
<1>4. r \in Vulns(Keys(exts), Key(d))
  <2>1. Len(Keys(exts)) \in Nat /\ DOMAIN Keys(exts) = 1..Len(Keys(exts)) /\ Key(d) \in Range(Keys(exts))
    BY KeysAre
  <2>2. PICK h \in 1..Len(Keys(exts)) : Keys(exts)[h] = Key(d)
    BY <2>1 DEF Range
  <2>3. PICK b \in Batches(Len(Keys(exts)), OsvBatch) : AskedIn(b, h)
    BY <2>1, InBatch DEF AskedIn
  <2>4. b \in Answered(Keys(exts))
    BY <2>1, <2>2, <2>3
  <2> QED BY <2>1, <2>2, <2>3, <2>4, VulnsOf
<1>5. r \in known /\ known \cap (MalwareIds \cup {Excused}) # {}
  BY <1>4, RecordsOK DEF Filter
<1> HIDE DEF known
<1>6. DependencyFinding(e.id, d, known) = Finding(e.id, "malicious-npm-dependency", "CRITICAL", d.name)
  BY <1>5 DEF DependencyFinding
<1>7. DependencyFinding(e.id, d, known) \in OsvFindings(exts, e.id)
  BY <1>3, <1>5 DEF OsvFindings, known
<1>8. DependencyFinding(e.id, d, known) \in FindingsOf(exts, e.id)
  BY <1>7 DEF FindingsOf
<1>9. e.id \in Ids(exts)
  BY <1>1 DEF Ids
<1> QED BY <1>6, <1>8, <1>9 DEF Findings
=============================================================================
