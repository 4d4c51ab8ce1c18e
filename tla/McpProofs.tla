------------------------------ MODULE McpProofs ------------------------------
(***************************************************************************)
(* Assessments of MCP servers, for any servers and worlds.  The invariant: *)
(* an extractor that is done gave what it concludes from the world it was  *)
(* started in (Concluded), a report is of seven such (Answering), and a    *)
(* child process belongs to an extractor that runs (Tidy).  With it the    *)
(* properties of a report are properties of McpMetrics, McpEvidence and    *)
(* ScaPipeline: a veto goes up the tree of metrics whatever the means are, *)
(* and what must raise it is kept by every step of the dependency scan.    *)
(* The scan folds over lists; of each fold Folding says that it is made of *)
(* steps, and the lemmas say what a step keeps.                            *)
(***************************************************************************)
EXTENDS McpAssessment, FiniteSetTheorems, TLAPS

-----------------------------------------------------------------------------
(* The assessment.                                                          *)

\* What an extractor gave is what it concludes from the server and its world,
\* which stay the same once the extractors run.
Concluded ==
    /\ evidence = [x \in Extractors |-> evidence[x]]
    /\ \A x \in Extractors : status[x] = "done" => evidence[x] \in Results(x) /\ evidence[x] # Raises
    /\ phase \in {"received", "cloning"} => \A x \in Extractors : status[x] = "waiting"

\* A report is made of the evidence, when every extractor is done.
Answering ==
    /\ answer = 200 => /\ phase = "over" /\ report = Report(evidence)
                       /\ \A x \in Extractors : status[x] = "done"
    /\ answer # 200 => report = NONE
    /\ phase # "over" => answer = NONE

\* A child runs while its extractor does, but for gitleaks under a cancelled one;
\* the clone is there until the request leaves it.
Tidy ==
    /\ phase \in {"received", "cloning"} => live = {}
    /\ phase = "extracting" => \A x \in live : status[x] = "running"
    /\ "sca" \in live => status["sca"] = "running" /\ phase \in {"extracting", "unwinding"}
    /\ phase \in {"unwinding", "over"} => clone # "there"
    /\ answer = 200 => clone # "torn"
    /\ phase = "received" => clone = "none"

IInv == TypeOK /\ Concluded /\ Answering /\ Tidy

\* A report has a decision.
LEMMA ReportDecides == ASSUME NEW e PROVE Report(e).decision \in {"allow", "review", "block", "incomplete"}
<1> DEFINE m == Metrics(e)
<1> HIDE DEF m
<1>1. (CASE m.veto = Failure                    -> "block"
         [] m.veto = Warning                    -> "review"
         [] m.veto = Pass /\ Scored(m)          ->
                IF m.score[1] >= 60 * m.score[2] THEN "review" ELSE "allow"
         [] OTHER                               -> "incomplete")
       \in {"allow", "review", "block", "incomplete"}
  BY DEF Failure, Warning, Pass
<1> QED BY <1>1 DEF Report, m

\* Every step keeps the invariant.
LEMMA Step == IInv /\ [Next]_vars => IInv'
<1> SUFFICES ASSUME IInv, [Next]_vars PROVE IInv'
  OBVIOUS
<1> USE NoneOK DEF IInv
<1>0. Forks \subseteq Extractors /\ "sca" \in Extractors
  BY DEF Forks, Extractors
\* The parts of the world that the extractors see.
<1>e. env' = env => \A x \in Extractors : Results(x)' = Results(x)
  BY DEF Results
<1>1. CASE Refuse
  <2>1. TypeOK' BY <1>1 DEF Refuse, Answered, TypeOK
  <2>2. Concluded' BY <1>1, <1>e DEF Refuse, Answered, Concluded
  <2>3. Answering' BY <1>1 DEF Refuse, Answered, Answering
  <2>4. Tidy' BY <1>1 DEF Refuse, Answered, Tidy
  <2> QED BY <2>1, <2>2, <2>3, <2>4
<1>2. CASE Start
  <2>1. TypeOK' BY <1>2 DEF Start, Gather, TypeOK, Statuses
  <2>2. Concluded' BY <1>2 DEF Start, Gather, Concluded
  <2>3. Answering' BY <1>2 DEF Start, Gather, Answering
  <2>4. Tidy' BY <1>2 DEF Start, Gather, Tidy
  <2> QED BY <2>1, <2>2, <2>3, <2>4
<1>3. CASE CloneBegins
  <2>1. TypeOK' BY <1>3 DEF CloneBegins, TypeOK
  <2>2. Concluded' BY <1>3, <1>e DEF CloneBegins, Concluded
  <2>3. Answering' BY <1>3 DEF CloneBegins, Answering
  <2>4. Tidy' BY <1>3 DEF CloneBegins, Tidy
  <2> QED BY <2>1, <2>2, <2>3, <2>4
<1>4. CASE CloneSucceeds
  <2>1. TypeOK' BY <1>4 DEF CloneSucceeds, Gather, TypeOK, Statuses
  <2>2. Concluded' BY <1>4 DEF CloneSucceeds, Gather, Concluded
  <2>3. Answering' BY <1>4 DEF CloneSucceeds, Gather, Answering
  <2>4. Tidy' BY <1>4 DEF CloneSucceeds, Gather, Tidy
  <2> QED BY <2>1, <2>2, <2>3, <2>4
<1>5. CASE CloneFails
  <2>1. TypeOK' BY <1>5 DEF CloneFails, RemoveClone, Answered, TypeOK
  <2>2. Concluded' BY <1>5, <1>e DEF CloneFails, Answered, Concluded
  <2>3. Answering' BY <1>5 DEF CloneFails, Answered, Answering
  <2>4. Tidy' BY <1>5 DEF CloneFails, RemoveClone, Answered, Tidy
  <2> QED BY <2>1, <2>2, <2>3, <2>4
<1>6. ASSUME NEW x \in Extractors, Fork(x) PROVE IInv'
  <2>1. TypeOK' BY <1>6 DEF Fork, TypeOK
  <2>2. Concluded' BY <1>6, <1>e DEF Fork, Concluded
  <2>3. Answering' BY <1>6 DEF Fork, Answering
  <2>4. Tidy' BY <1>6 DEF Fork, Running, Tidy
  <2> QED BY <2>1, <2>2, <2>3, <2>4
<1>7. ASSUME NEW x \in Extractors, ChildEnds(x) PROVE IInv'
  <2>1. TypeOK' BY <1>7 DEF ChildEnds, TypeOK
  <2>2. Concluded' BY <1>7, <1>e DEF ChildEnds, Concluded
  <2>3. Answering' BY <1>7 DEF ChildEnds, Answering
  <2>4. Tidy' BY <1>7 DEF ChildEnds, Tidy
  <2> QED BY <2>1, <2>2, <2>3, <2>4
<1>8. ASSUME NEW x \in Extractors, Finish(x) PROVE IInv'
  <2>0. PICK result \in Results(x) : result # Raises /\ evidence' = [evidence EXCEPT ![x] = result]
    BY <1>8 DEF Finish
  <2>1. TypeOK' BY <1>8 DEF Finish, TypeOK, Statuses
  <2>2. Concluded'
    <3>1. evidence'[x] = result /\ \A y \in Extractors \ {x} : evidence'[y] = evidence[y]
      BY <2>0 DEF Concluded
    <3>2. evidence' = [y \in Extractors |-> evidence'[y]]
      BY <2>0 DEF Concluded
    <3>3. \A y \in Extractors \ {x} : status'[y] = status[y]
      BY <1>8 DEF Finish, TypeOK
    <3>4. phase' \notin {"received", "cloning"} /\ env' = env
      BY <1>8 DEF Finish, Running
    <3> QED BY <2>0, <3>1, <3>2, <3>3, <3>4, <1>e DEF Concluded
  <2>3. Answering' BY <1>8 DEF Finish, Running, Answering
  <2>4. Tidy' BY <1>8, <1>0 DEF Finish, Running, Tidy, TypeOK
  <2> QED BY <2>1, <2>2, <2>3, <2>4
<1>9. ASSUME NEW x \in Extractors, Break(x) \/ BreakLate(x) PROVE IInv'
  <2>1. TypeOK' BY <1>9 DEF Break, BreakLate, RemoveClone, TypeOK, Statuses
  <2>2. Concluded' BY <1>9, <1>e DEF Break, BreakLate, Concluded, TypeOK
  <2>3. Answering' BY <1>9 DEF Break, BreakLate, Answering
  <2>4. Tidy' BY <1>9, <1>0 DEF Break, BreakLate, RemoveClone, Tidy, TypeOK, Answering
  <2> QED BY <2>1, <2>2, <2>3, <2>4
<1>10. ASSUME NEW x \in Extractors, Cancel(x) PROVE IInv'
  <2>1. TypeOK' BY <1>10 DEF Cancel, TypeOK, Statuses
  <2>2. Concluded' BY <1>10, <1>e DEF Cancel, Concluded, TypeOK
  <2>3. Answering' BY <1>10 DEF Cancel, Answering
  <2>4. Tidy'
    <3>1. "sca" \in live' => x # "sca" /\ "sca" \in live
      BY <1>10 DEF Cancel
    <3>2. x # "sca" => status'["sca"] = status["sca"]
      BY <1>10 DEF Cancel, TypeOK
    <3>3. phase = "unwinding" /\ phase' = phase /\ clone' = clone /\ answer' = answer
      BY <1>10 DEF Cancel
    <3> QED BY <3>1, <3>2, <3>3 DEF Tidy
  <2> QED BY <2>1, <2>2, <2>3, <2>4
<1>11. CASE Unwound
  <2>1. TypeOK' BY <1>11 DEF Unwound, Answered, TypeOK
  <2>2. Concluded' BY <1>11, <1>e DEF Unwound, Answered, Concluded
  <2>3. Answering' BY <1>11 DEF Unwound, Answered, Answering
  <2>4. Tidy' BY <1>11, <1>0 DEF Unwound, Answered, Tidy
  <2> QED BY <2>1, <2>2, <2>3, <2>4
<1>12. CASE Assess
  <2>1. TypeOK' BY <1>12, ReportDecides DEF Assess, RemoveClone, Answered, TypeOK
  <2>2. Concluded' BY <1>12, <1>e DEF Assess, Answered, Concluded
  <2>3. Answering' BY <1>12 DEF Assess, Answered, Answering
  <2>4. Tidy'
    <3>1. live = {}
      BY <1>12, <1>0 DEF Assess, Tidy, TypeOK
    <3> QED BY <1>12, <3>1 DEF Assess, RemoveClone, Answered, Tidy
  <2> QED BY <2>1, <2>2, <2>3, <2>4
<1>13. CASE UNCHANGED vars
  <2>1. TypeOK' BY <1>13 DEF vars, TypeOK
  <2>2. Concluded' BY <1>13, <1>e DEF vars, Concluded
  <2>3. Answering' /\ Tidy' BY <1>13 DEF vars, Answering, Tidy
  <2> QED BY <2>1, <2>2, <2>3
<1> QED BY <1>1, <1>2, <1>3, <1>4, <1>5, <1>6, <1>7, <1>8, <1>9, <1>10, <1>11, <1>12, <1>13 DEF Next

\* And so it always holds.
LEMMA Invariance == Spec => []IInv
<1>1. Init => IInv
  BY NoneOK DEF Init, IInv, TypeOK, Concluded, Answering, Tidy, Statuses
<1> QED BY <1>1, Step, PTL DEF Spec

\* Every variable keeps its type, and a report has one of the four decisions
\* (orchestrator.py:155-182), for any servers and worlds.
THEOREM TypeCorrect == Spec => []TypeOK
<1> QED BY Invariance, PTL DEF IInv

\* An answered request leaves no clone whole, and no dependency scanner behind
\* (_repository_context, sca_support.py), whichever extractors end, fail or are
\* cancelled, in any order.
THEOREM CleansUp == Spec => []NothingLeftBehind
<1>1. IInv => NothingLeftBehind
  BY DEF IInv, Tidy, NothingLeftBehind
<1> QED BY <1>1, Invariance, PTL

-----------------------------------------------------------------------------
(* The vetoes and the decision.                                             *)

\* A module passes on the worst veto of its metrics.
LEMMA VetoOfModule ==
    ASSUME NEW weight, NEW out, NEW c \in DOMAIN out
    PROVE  /\ out[c].veto = Failure => Module(weight, out).veto = Failure
           /\ Module(weight, out).veto \notin {Failure, Warning} => out[c].veto \notin {Failure, Warning}
<1>1. out[c].veto \in Vetoes(out)
  BY Zenon DEF Vetoes
<1>2. Module(weight, out).veto = HigherVeto(Vetoes(out))
  BY DEF Module
<1> QED BY <1>1, <1>2 DEF HigherVeto, Failure, Warning, Pass

\* The metrics of the root, by name.
Root(e) ==
    [hosting |-> OwnLeaves(e).hosting, transport |-> OwnLeaves(e).transport, secrets |-> OwnLeaves(e).secrets,
     auth    |-> Module(AuthWeight, AuthLeaves(e)),
     code    |-> Module(CodeWeight, CodeLeaves(e)),
     tools   |-> Module(ToolWeight, ToolLeaves(e))]

LEMMA RootOf ==
    ASSUME NEW e
    PROVE  /\ Metrics(e) = Module(RootWeight, Root(e))
           /\ Root(e).hosting = Hosting(e.classification)
           /\ Root(e).transport = Transport(e.fingerprint)
           /\ Root(e).secrets = Secrets(e.secrets)
           /\ Root(e).auth = Module(AuthWeight, AuthLeaves(e))
           /\ Root(e).code = Module(CodeWeight, CodeLeaves(e))
           /\ DOMAIN Root(e) = {"hosting", "transport", "secrets", "auth", "code", "tools"}
<1>1. Metrics(e) = Module(RootWeight, Root(e))
  BY DEF Metrics, Root
<1> QED BY <1>1 DEF Root, OwnLeaves

\* Any veto of a metric that fails blocks, through the module it is in.
LEMMA FailureBlocks ==
    ASSUME NEW e, \/ Secrets(e.secrets).veto = Failure
                  \/ Malicious(e.sca).veto = Failure
                  \/ Vulnerability(e.sca).veto = Failure
    PROVE  Report(e).decision = "block"
<1> DEFINE code == CodeLeaves(e)
           root == Root(e)
<1>1. /\ DOMAIN code = {"opacity", "malicious", "vulnerability", "cve"}
      /\ code["malicious"] = Malicious(e.sca) /\ code["vulnerability"] = Vulnerability(e.sca)
  BY DEF CodeLeaves
<1>2. /\ DOMAIN root = {"hosting", "transport", "secrets", "auth", "code", "tools"}
      /\ root["secrets"] = Secrets(e.secrets) /\ root["code"] = Module(CodeWeight, code)
  BY RootOf
<1> HIDE DEF code, root
<1>3. code["malicious"].veto = Failure \/ code["vulnerability"].veto = Failure => root["code"].veto = Failure
  BY <1>1, <1>2, VetoOfModule
<1>4. root["secrets"].veto = Failure \/ root["code"].veto = Failure
  BY <1>1, <1>2, <1>3
<1>5. Module(RootWeight, root).veto = Failure
  BY <1>2, <1>4, VetoOfModule
<1>6. Metrics(e).veto = Failure
  BY <1>5, RootOf DEF root
<1> DEFINE m == Metrics(e)
<1>7. m.veto = Failure
  BY <1>6
<1> HIDE DEF m
<1>8. (CASE m.veto = Failure                    -> "block"
         [] m.veto = Warning                    -> "review"
         [] m.veto = Pass /\ Scored(m)          ->
                IF m.score[1] >= 60 * m.score[2] THEN "review" ELSE "allow"
         [] OTHER                               -> "incomplete") = "block"
  BY <1>7 DEF Failure, Warning, Pass
<1> QED BY <1>8 DEF Report, m

\* What is allowed has no veto anywhere.
LEMMA AllowedHasNoVeto ==
    ASSUME NEW e, Report(e).decision = "allow"
    PROVE  /\ Hosting(e.classification).veto \notin {Failure, Warning}
           /\ Transport(e.fingerprint).veto \notin {Failure, Warning}
           /\ AuthStrength(e.auth).veto \notin {Failure, Warning}
<1> DEFINE leaves == AuthLeaves(e)
           root == Root(e)
           m == Metrics(e)
<1>1. m.veto \notin {Failure, Warning}
  <2> HIDE DEF m
  <2>1. (CASE m.veto = Failure                    -> "block"
           [] m.veto = Warning                    -> "review"
           [] m.veto = Pass /\ Scored(m)          ->
                  IF m.score[1] >= 60 * m.score[2] THEN "review" ELSE "allow"
           [] OTHER                               -> "incomplete") = "allow"
    BY DEF Report, m
  <2> QED BY <2>1 DEF Failure, Warning, Pass
<1>2. /\ DOMAIN root = {"hosting", "transport", "secrets", "auth", "code", "tools"}
      /\ root["hosting"] = Hosting(e.classification) /\ root["transport"] = Transport(e.fingerprint)
      /\ root["auth"] = Module(AuthWeight, leaves) /\ m = Module(RootWeight, root)
  BY RootOf
<1>3. DOMAIN leaves = {"strength", "pkce", "registration"} /\ leaves["strength"] = AuthStrength(e.auth)
  BY DEF AuthLeaves
<1> HIDE DEF leaves, root, m
<1>4. \A c \in DOMAIN root : root[c].veto \notin {Failure, Warning}
  BY <1>1, <1>2, VetoOfModule
<1>5. \A c \in DOMAIN leaves : leaves[c].veto \notin {Failure, Warning}
  BY <1>2, <1>4, VetoOfModule
<1> QED BY <1>2, <1>3, <1>4, <1>5

\* What was reported is about what each extractor concluded.
LEMMA ReportedIs ==
    ASSUME IInv, Reported
    PROVE  /\ report = Report(evidence)
           /\ \A x \in Extractors : evidence[x] \in Results(x) /\ evidence[x] # Raises
BY DEF IInv, Reported, Answering, Concluded

\* All but authentication pick nothing at random.
LEMMA OneResult ==
    ASSUME NEW x \in Extractors \ {"auth"}
    PROVE  Results(x) = {Extracted(x, env, {})}
BY DEF Results

-----------------------------------------------------------------------------
(* Lists.                                                                   *)

\* A list has a length, and its indices go up to it.
LEMMA Listing == ASSUME NEW s, IsList(s) PROVE Len(s) \in Nat /\ DOMAIN s = 1..Len(s)
BY DEF IsList

\* A sequence over any set is a list.
LEMMA ListOf == ASSUME NEW S, NEW s \in Seq(S) PROVE IsList(s)
BY DEF IsList, Range

\* Lists are concatenated to lists.
LEMMA Joined == ASSUME NEW s, NEW t, IsList(s), IsList(t) PROVE IsList(s \o t)
<1>1. s \in Seq(Range(s) \cup Range(t)) /\ t \in Seq(Range(s) \cup Range(t))
  BY DEF IsList
<1>2. s \o t \in Seq(Range(s) \cup Range(t))
  BY <1>1
<1> QED BY <1>2, ListOf

\* Append adds one element to a list.
LEMMA Appended ==
  ASSUME NEW s, IsList(s), NEW v
  PROVE  IsList(Append(s, v)) /\ ToSet(Append(s, v)) = ToSet(s) \cup {v}
<1>1. s \in Seq(Range(s) \cup {v}) /\ v \in Range(s) \cup {v}
  BY DEF IsList
<1>2. Append(s, v) \in Seq(Range(s) \cup {v})
  BY <1>1
<1>3. /\ Len(s) \in Nat /\ DOMAIN s = 1..Len(s) /\ DOMAIN Append(s, v) = 1..(Len(s) + 1)
      /\ Append(s, v)[Len(s) + 1] = v /\ \A i \in 1..Len(s) : Append(s, v)[i] = s[i]
  BY <1>1
<1>4. ASSUME NEW x \in ToSet(s) PROVE x \in ToSet(Append(s, v))
  <2>1. PICK i \in 1..Len(s) : x = s[i]
    BY <1>3 DEF ToSet
  <2>2. i \in DOMAIN Append(s, v) /\ Append(s, v)[i] = x
    BY <1>3, <2>1
  <2> QED BY <2>2 DEF ToSet
<1>5. v \in ToSet(Append(s, v))
  <2>1. Len(s) + 1 \in DOMAIN Append(s, v) /\ Append(s, v)[Len(s) + 1] = v
    BY <1>3
  <2> QED BY <2>1 DEF ToSet
<1>6. ASSUME NEW x \in ToSet(Append(s, v)), x # v PROVE x \in ToSet(s)
  <2>1. PICK i \in 1..(Len(s) + 1) : x = Append(s, v)[i]
    BY <1>3 DEF ToSet
  <2>2. i \in 1..Len(s) /\ x = s[i]
    BY <1>3, <1>6, <2>1
  <2> QED BY <1>3, <2>2 DEF ToSet
<1> QED BY <1>2, <1>4, <1>5, <1>6, ListOf

-----------------------------------------------------------------------------
(* Dependencies (lockfiles, _upsert).                                       *)

Selecting(found, d, a, kind) == IF kind \in found THEN Append(a, kind) ELSE a
Selected == INSTANCE Folding WITH Op <- Selecting

\* The lockfiles are a list of kinds (lockfiles/__init__.py).
LEMMA LockfilesAre ==
  ASSUME NEW r, RepositoryOK(r)
  PROVE  IsList(Lockfiles(r)) /\ ToSet(Lockfiles(r)) \subseteq Kinds
<1> DEFINE found == r.locks \cup {Target(r, m) : m \in r.manifests \cap r.made}
           n == Len(r.order)
<1>1. IsList(r.order) /\ n \in Nat /\ DOMAIN r.order = 1..n /\ \A k \in 1..n : r.order[k] \in Kinds
  BY Listing DEF RepositoryOK, ToSet
<1>2. Lockfiles(r) = Selected!Folded(found, 0, <<>>, r.order)
  BY DEF Lockfiles, Where, FoldLeft, MapThenFoldSet, Max, Selected!Folded, Selected!Top, Selecting
<1> HIDE DEF found
<1>3. PICK p : /\ p[0] = <<>>
               /\ \A k \in 0..(n - 1) : p[k + 1] = Selecting(found, 0, p[k], r.order[k + 1])
               /\ p[n] = Lockfiles(r)
  BY <1>1, <1>2, Selected!Steps
<1> DEFINE S == {k \in 0..n : p[k] \in Seq(Kinds)}
<1>4. 0 \in S
  <2>1. <<>> \in Seq(Kinds)
    OBVIOUS
  <2>2. p[0] \in Seq(Kinds)
    <3> HIDE DEF n
    <3> QED BY <1>3, <2>1
  <2>3. 0 \in 0..n
    <3> HIDE DEF n
    <3> QED BY <1>1
  <2> QED BY <2>2, <2>3
<1>5. ASSUME NEW k \in 0..(n - 1), k \in S PROVE k + 1 \in S
  <2>1. p[k] \in Seq(Kinds) /\ r.order[k + 1] \in Kinds /\ k + 1 \in 0..n
    BY <1>1, <1>5
  <2>2. p[k + 1] = IF r.order[k + 1] \in found THEN Append(p[k], r.order[k + 1]) ELSE p[k]
    BY <1>3 DEF Selecting
  <2> HIDE DEF n
  <2>3. p[k + 1] \in Seq(Kinds)
    BY <2>1, <2>2
  <2> QED BY <2>1, <2>3
<1>6. n \in S
  <2> HIDE DEF S, n
  <2> QED BY <1>1, <1>4, <1>5, Selected!Induct
<1>7. Lockfiles(r) \in Seq(Kinds)
  BY <1>3, <1>6
<1> QED BY <1>7, ListOf DEF ToSet

NamesOf(d) == {<<x.key[1], x.key[2]>> : x \in d.deps}

Orderly(d) ==
    /\ d = [deps |-> d.deps, by |-> d.by, exact |-> d.exact]
    /\ \A x \in d.deps : x = [key |-> x.key, type |-> x.type]
    /\ \A b \in d.by : b[1][1] = b[2][1] /\ b[1][2] = b[2][2]
    /\ \A kind \in d.exact : \E x \in d.deps : x.key[1] = kind[1] /\ x.key[2] = kind[2] /\ x.key[3] \notin Ranges

\* _upsert keeps every name it has, and enters the one it is given: what it
\* drops is a range of a name that an exact version of the name replaces.
LEMMA UpsertKeeps ==
  ASSUME NEW d, Orderly(d), NEW eco, NEW name, NEW version, NEW type
  PROVE  /\ Orderly(Upsert(d, <<eco, name, version>>, type))
         /\ NamesOf(d) \cup {<<eco, name>>} \subseteq NamesOf(Upsert(d, <<eco, name, version>>, type))
<1> DEFINE key == <<eco, name, version>>
           kind == <<eco, name, type>>
           range == version \in Ranges
           stale == IF range THEN {} ELSE {b \in d.by : b[1] = kind /\ b[2][3] \in Ranges}
           kept == {x \in d.deps : \A b \in stale : b[2] # x.key}
           known == \E x \in kept : x.key = key
           mine == [key |-> key, type |-> type]
           u == Upsert(d, key, type)
<1> SUFFICES Orderly(u) /\ NamesOf(d) \cup {<<eco, name>>} \subseteq NamesOf(u)
  OBVIOUS
<1>1. ASSUME NEW x \in d.deps, x \notin kept
      PROVE  x.key[1] = eco /\ x.key[2] = name /\ x.key[3] \in Ranges
  BY <1>1 DEF Orderly
<1>2. ASSUME NEW e, NEW x \in d.deps, x.key[1] = e[1], x.key[2] = e[2], x.key[3] \notin Ranges PROVE x \in kept
  BY <1>1, <1>2
<1>3. CASE range /\ kind \in d.exact
  <2>1. u = d
    BY <1>3 DEF Upsert
  <2>2. PICK x \in d.deps : x.key[1] = eco /\ x.key[2] = name
    BY <1>3 DEF Orderly
  <2> QED BY <2>1, <2>2 DEF NamesOf
<1>4. CASE known /\ ~(range /\ kind \in d.exact)
  <2> DEFINE deps == {x \in kept : x.key # key}
                       \cup {[x EXCEPT !.type = IF type = "direct" THEN type ELSE @] : x \in {y \in kept : y.key = key}}
  <2>1. u = [d EXCEPT !.deps = deps, !.by = @ \ stale]
    BY <1>4 DEF Upsert
  <2>2. u.deps = deps /\ u.by = d.by \ stale /\ u.exact = d.exact /\ u = [deps |-> u.deps, by |-> u.by, exact |-> u.exact]
    <3> HIDE DEF deps, stale, u
    <3> QED BY <2>1 DEF Orderly
  <2>3. \A x \in deps : x = [key |-> x.key, type |-> x.type]
    BY DEF Orderly
  <2>4. ASSUME NEW x \in kept PROVE \E y \in deps : y.key = x.key
    <3>1. CASE x.key # key
      <4>1. x \in deps
        BY <3>1
      <4> HIDE DEF deps
      <4> QED BY <4>1
    <3>2. CASE x.key = key
      <4> DEFINE y == [x EXCEPT !.type = IF type = "direct" THEN type ELSE @]
      <4>1. y \in deps
        BY <3>2
      <4>2. x = [key |-> x.key, type |-> x.type]
        BY DEF Orderly
      <4>3. y.key = x.key
        BY <4>2
      <4> HIDE DEF deps, y
      <4> QED BY <4>1, <4>3
    <3> QED BY <3>1, <3>2
  <2>5. \E y \in deps : y.key = key
    BY <1>4, <2>4
  <2>6. Orderly(u)
    <3> HIDE DEF deps, u, kept, stale
    <3>1. \A e \in u.exact : \E x \in u.deps : x.key[1] = e[1] /\ x.key[2] = e[2] /\ x.key[3] \notin Ranges
      BY <1>2, <2>2, <2>4 DEF Orderly
    <3>2. \A b \in u.by : b[1][1] = b[2][1] /\ b[1][2] = b[2][2]
      BY <2>2 DEF Orderly
    <3> QED BY <2>2, <2>3, <3>1, <3>2 DEF Orderly
  <2>7. \A x \in d.deps : \E y \in deps : y.key[1] = x.key[1] /\ y.key[2] = x.key[2]
    <3> HIDE DEF deps, kept, u
    <3> QED BY <1>1, <2>4, <2>5
  <2> HIDE DEF deps, u, kept, stale
  <2> QED BY <2>2, <2>5, <2>6, <2>7 DEF NamesOf
<1>5. CASE ~known /\ ~(range /\ kind \in d.exact)
  <2>1. u = [deps |-> kept \cup {mine}, by |-> (d.by \ stale) \cup {<<kind, key>>},
             exact |-> IF range THEN d.exact ELSE d.exact \cup {kind}]
    BY <1>5 DEF Upsert
  <2>2. /\ u.deps = kept \cup {mine} /\ u.by = (d.by \ stale) \cup {<<kind, key>>}
        /\ u.exact = IF range THEN d.exact ELSE d.exact \cup {kind}
        /\ u = [deps |-> u.deps, by |-> u.by, exact |-> u.exact]
    <3> HIDE DEF kept, mine, stale, u, range, kind, key
    <3> QED BY <2>1
  <2>3. mine.key = key /\ mine = [key |-> mine.key, type |-> mine.type]
    OBVIOUS
  <2>4. \A e \in u.exact : \E x \in u.deps : x.key[1] = e[1] /\ x.key[2] = e[2] /\ x.key[3] \notin Ranges
    <3> SUFFICES ASSUME NEW e \in u.exact
                 PROVE  \E x \in u.deps : x.key[1] = e[1] /\ x.key[2] = e[2] /\ x.key[3] \notin Ranges
      OBVIOUS
    <3>1. CASE e \in d.exact
      <4>1. PICK x \in d.deps : x.key[1] = e[1] /\ x.key[2] = e[2] /\ x.key[3] \notin Ranges
        BY <3>1 DEF Orderly
      <4> HIDE DEF kept, mine, u
      <4> QED BY <1>2, <2>2, <4>1
    <3>2. CASE ~range /\ e = kind
      <4>1. key[1] = e[1] /\ key[2] = e[2] /\ key[3] \notin Ranges
        BY <3>2
      <4> HIDE DEF kept, mine, u, key
      <4> QED BY <2>2, <2>3, <4>1
    <3> HIDE DEF range, u, kind
    <3> QED BY <2>2, <3>1, <3>2
  <2>5. \A x \in u.deps : x = [key |-> x.key, type |-> x.type]
    <3>1. \A x \in kept : x = [key |-> x.key, type |-> x.type]
      BY DEF Orderly
    <3> HIDE DEF kept, mine, u
    <3> QED BY <2>2, <2>3, <3>1
  <2>6. \A b \in u.by : b[1][1] = b[2][1] /\ b[1][2] = b[2][2]
    <3>1. <<kind, key>>[1][1] = <<kind, key>>[2][1] /\ <<kind, key>>[1][2] = <<kind, key>>[2][2]
      OBVIOUS
    <3> HIDE DEF kind, key, u, stale
    <3> QED BY <2>2, <3>1 DEF Orderly
  <2>7. Orderly(u)
    <3> HIDE DEF u
    <3> QED BY <2>2, <2>4, <2>5, <2>6 DEF Orderly
  <2>8. <<eco, name>> \in NamesOf(u)
    <3>1. mine \in u.deps /\ mine.key[1] = eco /\ mine.key[2] = name
      BY <2>2
    <3> HIDE DEF mine, u
    <3> QED BY <3>1 DEF NamesOf
  <2>9. ASSUME NEW x \in d.deps PROVE <<x.key[1], x.key[2]>> \in NamesOf(u)
    <3>1. CASE x \in kept
      <4> HIDE DEF kept, u, mine
      <4> QED BY <2>2, <3>1 DEF NamesOf
    <3>2. CASE x \notin kept
      <4> HIDE DEF kept, u
      <4> QED BY <1>1, <2>8, <3>2
    <3> QED BY <3>1, <3>2
  <2> HIDE DEF u
  <2> QED BY <2>7, <2>8, <2>9 DEF NamesOf
<1> HIDE DEF u, known, range
<1> QED BY <1>3, <1>4, <1>5

Entering(eco, direct, a, e) ==
    Upsert(a, <<eco, e[1], e[2]>>, IF <<eco, e[1]>> \in direct THEN "direct" ELSE "transitive")
Files == INSTANCE Folding WITH Op <- Entering

\* The packages of one lockfile are entered, and no name is lost.
LEMMA EnterKeeps ==
  ASSUME NEW d, Orderly(d), NEW eco, NEW direct, NEW entries, IsList(entries)
  PROVE  /\ Orderly(Enter(d, eco, entries, direct))
         /\ NamesOf(d) \cup {<<eco, name>> : name \in Names(entries)} \subseteq NamesOf(Enter(d, eco, entries, direct))
<1> DEFINE n == Len(entries)
<1>1. n \in Nat /\ DOMAIN entries = 1..n
  BY Listing
<1>2. Enter(d, eco, entries, direct) = Files!Folded(eco, direct, d, entries)
  BY DEF Enter, FoldLeft, MapThenFoldSet, Max, Files!Folded, Files!Top, Entering
<1> HIDE DEF n
<1>3. PICK p : /\ p[0] = d
               /\ \A k \in 0..(n - 1) : p[k + 1] = Entering(eco, direct, p[k], entries[k + 1])
               /\ p[n] = Enter(d, eco, entries, direct)
  BY <1>1, <1>2, Files!Steps
<1> DEFINE Good(k) == /\ Orderly(p[k])
                      /\ NamesOf(d) \cup {<<eco, entries[i][1]>> : i \in 1..k} \subseteq NamesOf(p[k])
           S == {k \in 0..n : Good(k)}
<1>4. 0 \in S
  BY <1>1, <1>3
<1>5. ASSUME NEW k \in 0..(n - 1), k \in S PROVE k + 1 \in S
  <2> DEFINE e == entries[k + 1]
             type == IF <<eco, e[1]>> \in direct THEN "direct" ELSE "transitive"
  <2>1. p[k + 1] = Upsert(p[k], <<eco, e[1], e[2]>>, type)
    BY <1>3 DEF Entering
  <2>2. Orderly(p[k])
    BY <1>5
  <2>3. Orderly(p[k + 1]) /\ NamesOf(p[k]) \cup {<<eco, e[1]>>} \subseteq NamesOf(p[k + 1])
    <3> HIDE DEF e, type
    <3> QED BY <2>1, <2>2, UpsertKeeps
  <2>4. \A i \in 1..(k + 1) : i \in 1..k \/ i = k + 1
    OBVIOUS
  <2>5. NamesOf(d) \cup {<<eco, entries[i][1]>> : i \in 1..k} \subseteq NamesOf(p[k])
    BY <1>5
  <2>6. Good(k + 1)
    BY <2>3, <2>4, <2>5
  <2>7. k + 1 \in 0..n
    BY <1>1
  <2> HIDE DEF Good
  <2> QED BY <2>6, <2>7
<1>6. n \in S
  <2> HIDE DEF S
  <2> QED BY <1>1, <1>4, <1>5, Files!Induct
<1>7. Good(n)
  BY <1>6
<1> QED BY <1>1, <1>3, <1>7 DEF Names

\* Every parser gives lists.
LEMMA ParsedAre ==
  ASSUME NEW r, RepositoryOK(r), NEW k \in Kinds
  PROVE  IsList(Parse(k, r.file[k]).all) /\ IsList(Parse(k, r.file[k]).direct)
<1> DEFINE f == r.file[k]
<1>1. IsList(f.listed) /\ IsList(f.roots) /\ IsList(f.beside)
  BY DEF RepositoryOK
<1> HIDE DEF f
<1>2. IsList(<<>>)
  <2>1. <<>> \in Seq({})
    OBVIOUS
  <2> QED BY <2>1, ListOf
<1>3. ASSUME NEW s, IsList(s) PROVE IsList(Pinned(s))
  <2>1. Len(s) \in Nat /\ DOMAIN s = 1..Len(s)
    BY <1>3, Listing
  <2>2. Pinned(s) = [i \in 1..Len(s) |-> Pinned(s)[i]]
    BY <2>1 DEF Pinned
  <2>3. \A i \in 1..Len(s) : Pinned(s)[i] \in {Pinned(s)[j] : j \in 1..Len(s)}
    OBVIOUS
  <2>4. Pinned(s) \in [1..Len(s) -> {Pinned(s)[j] : j \in 1..Len(s)}]
    <3> HIDE DEF Pinned
    <3> QED BY <2>2, <2>3
  <2>5. Pinned(s) \in Seq({Pinned(s)[j] : j \in 1..Len(s)})
    BY <2>1, <2>4
  <2> QED BY <2>5, ListOf
<1> DEFINE Lists(p) == IsList(p.all) /\ IsList(p.direct)
<1>4. ASSUME NEW s, NEW t, IsList(s), IsList(t) PROVE Lists(Parsed(s, t))
  BY <1>4 DEF Parsed
<1> HIDE DEF Lists
<1>5. Lists(PackageLock(f))
  BY <1>1, <1>2, <1>4, Joined DEF PackageLock, Nothing
<1>6. Lists(YarnLock(f)) /\ Lists(BunLock(f)) /\ Lists(CargoLock(f)) /\ Lists(GoMod(f))
  BY <1>1, <1>2, <1>4, Joined DEF YarnLock, BunLock, CargoLock, GoMod, Nothing
<1>7. Lists(PnpmLock(f))
  BY <1>1, <1>2, <1>4, Joined DEF PnpmLock, Nothing
<1>8. Lists(UvLock(f))
  BY <1>1, <1>2, <1>3, <1>4, Joined DEF UvLock
<1>9. Lists(RequirementsTxt(f))
  BY <1>1, <1>2, <1>3, <1>4 DEF RequirementsTxt, Nothing
<1>10. Lists(Parse(k, f))
  BY <1>5, <1>6, <1>7, <1>8, <1>9 DEF Parse
<1> QED BY <1>10 DEF Lists, f

Reading(r, d, a, k) ==
    Enter(Enter(a, Ecosystem(k), Parse(k, r.file[k]).all, DirectNames(r)),
          Ecosystem(k), Parse(k, r.file[k]).direct, DirectNames(r))
Locks == INSTANCE Folding WITH Op <- Reading

Upserting(c, d, a, key) == Upsert(a, key, "direct")
Requests == INSTANCE Folding WITH Op <- Upserting

Locked(r) == Locks!Folded(r, 0, NoDeps, Lockfiles(r))

\* All that the lockfiles list is among what they are entered into.
LEMMA LockedKeeps ==
  ASSUME NEW r, RepositoryOK(r)
  PROVE  Orderly(Locked(r)) /\ DirectNames(r) \cup TransitiveNames(r) \subseteq NamesOf(Locked(r))
<1> DEFINE s == Lockfiles(r)
           n == Len(s)
           Of(k) == {<<Ecosystem(k), name>> : name \in Names(Parse(k, r.file[k]).all)}
                      \cup {<<Ecosystem(k), name>> : name \in Names(Parse(k, r.file[k]).direct)}
<1>1. n \in Nat /\ DOMAIN s = 1..n /\ \A k \in 1..n : s[k] \in Kinds
  BY LockfilesAre, Listing DEF ToSet
<1> HIDE DEF n, Of
<1>3. PICK p : /\ p[0] = NoDeps
               /\ \A k \in 0..(n - 1) : p[k + 1] = Reading(r, 0, p[k], s[k + 1])
               /\ p[n] = Locked(r)
  <2> HIDE DEF s
  <2> QED BY <1>1, Locks!Steps DEF Locked, s
<1> HIDE DEF s
<1> DEFINE Good(k) == Orderly(p[k]) /\ \A i \in 1..k : Of(s[i]) \subseteq NamesOf(p[k])
           S == {k \in 0..n : Good(k)}
<1>4. 0 \in S
  <2>1. Orderly(NoDeps)
    BY DEF Orderly, NoDeps
  <2> QED BY <1>1, <1>3, <2>1
<1>5. ASSUME NEW k \in 0..(n - 1), k \in S PROVE k + 1 \in S
  <2> DEFINE f == Parse(s[k + 1], r.file[s[k + 1]])
             eco == Ecosystem(s[k + 1])
             half == Enter(p[k], eco, f.all, DirectNames(r))
  <2>0. k + 1 \in 1..n /\ k + 1 \in 0..n
    BY <1>1
  <2>1. IsList(f.all) /\ IsList(f.direct)
    BY <1>1, <2>0, ParsedAre
  <2>2. Orderly(p[k]) /\ \A i \in 1..k : Of(s[i]) \subseteq NamesOf(p[k])
    BY <1>5
  <2>3. p[k + 1] = Enter(half, eco, f.direct, DirectNames(r))
    BY <1>3 DEF Reading
  <2>4. Of(s[k + 1]) = {<<eco, name>> : name \in Names(f.all)} \cup {<<eco, name>> : name \in Names(f.direct)}
    BY DEF Of
  <2> HIDE DEF f, eco
  <2>5. Orderly(half) /\ NamesOf(p[k]) \cup {<<eco, name>> : name \in Names(f.all)} \subseteq NamesOf(half)
    BY <2>1, <2>2, EnterKeeps
  <2> HIDE DEF half
  <2>6. Orderly(p[k + 1]) /\ NamesOf(half) \cup {<<eco, name>> : name \in Names(f.direct)} \subseteq NamesOf(p[k + 1])
    BY <2>1, <2>3, <2>5, EnterKeeps
  <2>7. \A i \in 1..(k + 1) : i \in 1..k \/ i = k + 1
    OBVIOUS
  <2>8. Of(s[k + 1]) \subseteq NamesOf(p[k + 1]) /\ NamesOf(p[k]) \subseteq NamesOf(p[k + 1])
    BY <2>4, <2>5, <2>6
  <2>9. Good(k + 1)
    BY <2>2, <2>6, <2>7, <2>8
  <2> HIDE DEF Good
  <2> QED BY <2>0, <2>9
<1>6. n \in S
  <2> HIDE DEF S
  <2> QED BY <1>1, <1>4, <1>5, Locks!Induct
<1>7. Good(n)
  BY <1>6
<1>8. ASSUME NEW k \in ToSet(Lockfiles(r)) PROVE Of(k) \subseteq NamesOf(Locked(r))
  <2>1. PICK i \in 1..n : k = s[i]
    BY <1>1 DEF ToSet, s
  <2> QED BY <1>3, <1>7, <2>1
<1>9. DirectNames(r) \cup TransitiveNames(r) \subseteq UNION {Of(k) : k \in ToSet(Lockfiles(r))}
  BY DEF DirectNames, TransitiveNames, Of
<1> HIDE DEF Good
<1>10. DirectNames(r) \cup TransitiveNames(r) \subseteq NamesOf(Locked(r))
  BY <1>8, <1>9
<1> QED BY <1>3, <1>7, <1>10 DEF Good

\* Every package listed or asked for is among the dependencies.
LEMMA DependenciesAre ==
  ASSUME NEW r, RepositoryOK(r)
  PROVE  LET kept == {<<x.key[1], x.key[2]>> : x \in Dependencies(r)}
         IN  /\ DirectNames(r) \cup TransitiveNames(r) \subseteq kept
             /\ {<<r.asked[i][1], r.asked[i][2]>> : i \in DOMAIN r.asked} \subseteq kept
<1> DEFINE asked == Asked(r)
           n == Len(r.asked)
           kept == {<<x.key[1], x.key[2]>> : x \in Dependencies(r)}
<1>1. n \in Nat /\ DOMAIN r.asked = 1..n
  BY Listing DEF RepositoryOK
<1>2. DOMAIN asked = 1..n /\ \A i \in 1..n : asked[i] = <<r.asked[i][1], r.asked[i][2], Bare[r.asked[i][3]]>>
  BY <1>1 DEF Asked
<1>3. CASE Lockfiles(r) = <<>>
  <2>1. ToSet(Lockfiles(r)) = {}
    <3>1. DOMAIN Lockfiles(r) = 1..0
      BY <1>3
    <3> QED BY <3>1 DEF ToSet
  <2>2. DirectNames(r) = {} /\ TransitiveNames(r) = {}
    BY <2>1 DEF DirectNames, TransitiveNames
  <2>3. Dependencies(r) = {[key |-> asked[i], type |-> "direct"] : i \in DOMAIN asked}
    BY <1>3 DEF Dependencies
  <2>4. ASSUME NEW i \in DOMAIN r.asked PROVE <<r.asked[i][1], r.asked[i][2]>> \in kept
    <3> DEFINE x == [key |-> asked[i], type |-> "direct"]
    <3>1. x \in Dependencies(r)
      BY <1>1, <1>2, <2>3
    <3>2. x.key[1] = r.asked[i][1] /\ x.key[2] = r.asked[i][2]
      BY <1>1, <1>2
    <3> HIDE DEF x
    <3> QED BY <3>1, <3>2
  <2> QED BY <2>2, <2>4
<1>4. CASE Lockfiles(r) # <<>>
  <2> DEFINE all == Requests!Folded(0, 0, Locked(r), asked)
  <2>1. Dependencies(r) = all.deps
    BY <1>4 DEF Dependencies, FoldLeft, MapThenFoldSet, Max, Requests!Folded, Requests!Top, Upserting,
                Locked, Locks!Folded, Locks!Top, Reading
  <2> HIDE DEF asked, n
  <2>2. PICK p : /\ p[0] = Locked(r)
                 /\ \A k \in 0..(n - 1) : p[k + 1] = Upserting(0, 0, p[k], asked[k + 1])
                 /\ p[n] = all
    BY <1>1, <1>2, Requests!Steps
  <2> HIDE DEF all
  <2> DEFINE Name(i) == <<r.asked[i][1], r.asked[i][2]>>
             Good(k) == /\ Orderly(p[k]) /\ NamesOf(Locked(r)) \subseteq NamesOf(p[k])
                        /\ \A i \in 1..k : Name(i) \in NamesOf(p[k])
             S == {k \in 0..n : Good(k)}
  <2>3. 0 \in S
    BY <1>1, <2>2, LockedKeeps
  <2>4. ASSUME NEW k \in 0..(n - 1), k \in S PROVE k + 1 \in S
    <3>0. k + 1 \in 1..n /\ k + 1 \in 0..n
      BY <1>1
    <3>1. Good(k)
      BY <2>4
    <3>2. p[k + 1] = Upsert(p[k], <<r.asked[k + 1][1], r.asked[k + 1][2], Bare[r.asked[k + 1][3]]>>, "direct")
      BY <1>2, <2>2, <3>0 DEF Upserting
    <3>3. Orderly(p[k + 1]) /\ NamesOf(p[k]) \cup {Name(k + 1)} \subseteq NamesOf(p[k + 1])
      BY <3>1, <3>2, UpsertKeeps
    <3>4. \A i \in 1..(k + 1) : i \in 1..k \/ i = k + 1
      OBVIOUS
    <3>5. Good(k + 1)
      <4> HIDE DEF Name
      <4> QED BY <3>1, <3>3, <3>4
    <3> HIDE DEF Good
    <3> QED BY <3>0, <3>5
  <2>5. n \in S
    <3> HIDE DEF S
    <3> QED BY <1>1, <2>3, <2>4, Requests!Induct
  <2>6. Good(n) /\ kept = NamesOf(p[n])
    BY <2>1, <2>2, <2>5 DEF NamesOf
  <2> QED BY <1>1, <2>6, LockedKeeps
<1> QED BY <1>3, <1>4

-----------------------------------------------------------------------------
(* Buckets of records.                                                      *)

Kept(b) == ToSet(b.cve) \cup ToSet(b.mal)

IsBucket(b, s) ==
    /\ b = [ids |-> b.ids, cve |-> b.cve, mal |-> b.mal]
    /\ IsList(b.cve) /\ IsList(b.mal)
    /\ \A x \in Kept(b) : IsRecord(x) /\ x.slot = s /\ x.ids \subseteq b.ids
    /\ \A x, y \in Kept(b) : x = y \/ x.ids \cap y.ids = {}

\* An empty bucket holds nothing.
LEMMA NothingKept ==
  /\ \A s : IsBucket(NoBucket, s)
  /\ Kept(NoBucket) = {} /\ NoBucket.ids = {}
<1>1. <<>> \in Seq({}) /\ DOMAIN <<>> = {}
  OBVIOUS
<1>2. IsList(<<>>) /\ ToSet(<<>>) = {}
  BY <1>1, ListOf DEF ToSet
<1>3. NoBucket.ids = {} /\ NoBucket.cve = <<>> /\ NoBucket.mal = <<>>
  BY DEF NoBucket
<1>4. Kept(NoBucket) = {}
  BY <1>2, <1>3 DEF Kept
<1>5. NoBucket = [ids |-> NoBucket.ids, cve |-> NoBucket.cve, mal |-> NoBucket.mal]
  BY DEF NoBucket
<1> QED BY <1>2, <1>3, <1>4, <1>5 DEF IsBucket

\* A bucket takes a record whose identifiers are new to it, and loses none.
LEMMA AddKeeps ==
  ASSUME NEW b, NEW s, IsBucket(b, s), NEW v, IsRecord(v), v.slot = s
  PROVE  /\ IsBucket(Add(b, v), s)
         /\ Kept(b) \subseteq Kept(Add(b, v))
         /\ Kept(Add(b, v)) \subseteq Kept(b) \cup {v}
         /\ Add(b, v).ids \subseteq b.ids \cup v.ids
         /\ v.ids \cap b.ids = {} => v \in Kept(Add(b, v))
<1>1. CASE v.ids \cap b.ids # {}
  BY <1>1 DEF Add
<1>2. CASE v.ids \cap b.ids = {}
  <2> DEFINE n == Add(b, v)
  <2>0. /\ b = [ids |-> b.ids, cve |-> b.cve, mal |-> b.mal]
        /\ IsList(b.cve) /\ IsList(b.mal)
    BY DEF IsBucket
  <2>1. n = Entered([b EXCEPT !.ids = @ \cup v.ids], v)
    BY <1>2 DEF Add
  <2> HIDE DEF n
  <2>2. /\ n.ids = b.ids \cup v.ids
        /\ \/ n.mal = Append(b.mal, v) /\ n.cve = b.cve
           \/ n.cve = Append(b.cve, v) /\ n.mal = b.mal
        /\ n = [ids |-> n.ids, cve |-> n.cve, mal |-> n.mal]
    BY <2>0, <2>1 DEF Entered
  <2>3. IsList(n.cve) /\ IsList(n.mal) /\ Kept(n) = Kept(b) \cup {v}
    <3>1. CASE n.mal = Append(b.mal, v) /\ n.cve = b.cve
      <4>1. IsList(n.mal) /\ ToSet(n.mal) = ToSet(b.mal) \cup {v}
        BY <2>0, <3>1, Appended
      <4> QED BY <2>0, <3>1, <4>1 DEF Kept
    <3>2. CASE n.cve = Append(b.cve, v) /\ n.mal = b.mal
      <4>1. IsList(n.cve) /\ ToSet(n.cve) = ToSet(b.cve) \cup {v}
        BY <2>0, <3>2, Appended
      <4> QED BY <2>0, <3>2, <4>1 DEF Kept
    <3> QED BY <2>2, <3>1, <3>2
  <2>4. \A x \in Kept(n) : IsRecord(x) /\ x.slot = s /\ x.ids \subseteq n.ids
    BY <2>2, <2>3 DEF IsBucket
  <2>5. \A x, y \in Kept(n) : x = y \/ x.ids \cap y.ids = {}
    BY <1>2, <2>3 DEF IsBucket
  <2>6. IsBucket(n, s)
    BY <2>2, <2>3, <2>4, <2>5 DEF IsBucket
  <2> QED BY <2>2, <2>3, <2>6 DEF n
<1> QED BY <1>1, <1>2
-----------------------------------------------------------------------------
(* Maps of records by slot.                                                 *)

IsMap(m) ==
    /\ m = [slots |-> m.slots, at |-> m.at]
    /\ IsList(m.slots) /\ ToSet(m.slots) = DOMAIN m.at
    /\ \A s \in DOMAIN m.at : IsBucket(m.at[s], s)

All(m) == UNION {Kept(m.at[s]) : s \in DOMAIN m.at}
Ids(m) == UNION {m.at[s].ids : s \in DOMAIN m.at}

\* An empty map holds nothing.
LEMMA NoMapIs == IsMap(NoMap) /\ All(NoMap) = {} /\ Ids(NoMap) = {}
<1>1. IsList(<<>>) /\ ToSet(<<>>) = {}
  <2>1. <<>> \in Seq({}) /\ DOMAIN <<>> = {}
    OBVIOUS
  <2> QED BY <2>1, ListOf DEF ToSet
<1>2. NoMap.slots = <<>> /\ DOMAIN NoMap.at = {} /\ NoMap = [slots |-> NoMap.slots, at |-> NoMap.at]
  BY DEF NoMap
<1> QED BY <1>1, <1>2 DEF IsMap, All, Ids

\* What a slot has after a record was put, and the other slots.
LEMMA PutIs ==
  ASSUME NEW m, IsMap(m), NEW v
  PROVE  LET n == Put(m, v)
         IN  /\ DOMAIN n.at = DOMAIN m.at \cup {v.slot}
             /\ n.at[v.slot] = Add(IF v.slot \in DOMAIN m.at THEN m.at[v.slot] ELSE NoBucket, v)
             /\ \A s \in DOMAIN m.at \ {v.slot} : n.at[s] = m.at[s]
             /\ n = [slots |-> n.slots, at |-> n.at]
             /\ n.slots = IF v.slot \in DOMAIN m.at THEN m.slots ELSE Append(m.slots, v.slot)
<1> DEFINE n == Put(m, v)
           s == v.slot
<1>0. m = [slots |-> m.slots, at |-> m.at]
  BY DEF IsMap
<1>1. CASE v.slot \in DOMAIN m.at
  <2>1. n = [m EXCEPT !.at[v.slot] = Add(@, v)]
    BY <1>1 DEF Put
  <2>2. n.slots = m.slots /\ n.at = [m.at EXCEPT ![v.slot] = Add(@, v)] /\ n = [slots |-> n.slots, at |-> n.at]
    <3> HIDE DEF n
    <3> QED BY <1>0, <2>1
  <2> HIDE DEF n
  <2> QED BY <1>1, <2>2 DEF n
<1>2. CASE v.slot \notin DOMAIN m.at
  <2>1. n = [slots |-> Append(m.slots, v.slot), at |-> With(m.at, v.slot, Add(NoBucket, v))]
    BY <1>2 DEF Put
  <2>2. n.slots = Append(m.slots, v.slot) /\ n.at = With(m.at, v.slot, Add(NoBucket, v))
        /\ n = [slots |-> n.slots, at |-> n.at]
    <3> HIDE DEF n
    <3> QED BY <2>1
  <2> HIDE DEF n
  <2>3. n.at = [x \in DOMAIN m.at \cup {s} |-> IF x = s THEN Add(NoBucket, v) ELSE m.at[x]]
    BY <2>2 DEF With
  <2> QED BY <1>2, <2>2, <2>3 DEF n
<1> QED BY <1>1, <1>2

\* Putting a record keeps a map a map, loses no record and brings in no other.
LEMMA PutKeeps ==
  ASSUME NEW m, IsMap(m), NEW v, IsRecord(v)
  PROVE  /\ IsMap(Put(m, v))
         /\ All(m) \subseteq All(Put(m, v)) /\ All(Put(m, v)) \subseteq All(m) \cup {v}
         /\ Ids(Put(m, v)) \subseteq Ids(m) \cup v.ids
<1> DEFINE n == Put(m, v)
           s == v.slot
           old == IF s \in DOMAIN m.at THEN m.at[s] ELSE NoBucket
<1>1. /\ DOMAIN n.at = DOMAIN m.at \cup {s}
      /\ n.at[s] = Add(old, v)
      /\ \A x \in DOMAIN m.at \ {s} : n.at[x] = m.at[x]
      /\ n = [slots |-> n.slots, at |-> n.at]
      /\ n.slots = IF s \in DOMAIN m.at THEN m.slots ELSE Append(m.slots, s)
  BY PutIs
<1>2. IsBucket(old, s) /\ Kept(old) \subseteq All(m) /\ old.ids \subseteq Ids(m)
  BY NothingKept DEF IsMap, All, Ids
<1>3. s \in DOMAIN m.at => old = m.at[s]
  OBVIOUS
<1> HIDE DEF n, old, s
<1>4. /\ IsBucket(n.at[s], s) /\ Kept(old) \subseteq Kept(n.at[s]) /\ Kept(n.at[s]) \subseteq Kept(old) \cup {v}
      /\ n.at[s].ids \subseteq old.ids \cup v.ids
  BY <1>1, <1>2, AddKeeps DEF s
<1>5. IsList(n.slots) /\ ToSet(n.slots) = DOMAIN n.at
  BY <1>1, Appended DEF IsMap
<1>6. \A x \in DOMAIN n.at : IsBucket(n.at[x], x)
  BY <1>1, <1>4 DEF IsMap
<1>7. IsMap(n)
  BY <1>1, <1>5, <1>6 DEF IsMap
<1>8. All(m) \subseteq All(n)
  <2> SUFFICES ASSUME NEW x \in DOMAIN m.at PROVE Kept(m.at[x]) \subseteq Kept(n.at[x]) /\ x \in DOMAIN n.at
    BY DEF All
  <2> QED BY <1>1, <1>3, <1>4
<1>9. All(n) \subseteq All(m) \cup {v}
  <2> SUFFICES ASSUME NEW x \in DOMAIN n.at PROVE Kept(n.at[x]) \subseteq All(m) \cup {v}
    BY DEF All
  <2>1. CASE x = s
    BY <1>2, <1>4, <2>1
  <2>2. CASE x # s
    BY <1>1, <2>2 DEF All
  <2> QED BY <2>1, <2>2
<1>10. Ids(n) \subseteq Ids(m) \cup v.ids
  <2> SUFFICES ASSUME NEW x \in DOMAIN n.at PROVE n.at[x].ids \subseteq Ids(m) \cup v.ids
    BY DEF Ids
  <2>1. CASE x = s
    BY <1>2, <1>4, <2>1
  <2>2. CASE x # s
    BY <1>1, <2>2 DEF Ids
  <2> QED BY <2>1, <2>2
<1> QED BY <1>7, <1>8, <1>9, <1>10 DEF n

Putting(c, d, m, v) == Put(m, v)
Puts == INSTANCE Folding WITH Op <- Putting

AllRecords(vs) == IsList(vs) /\ \A v \in ToSet(vs) : IsRecord(v)
IdsOf(vs) == UNION {v.ids : v \in ToSet(vs)}

\* PutAll goes record by record.
LEMMA PutSteps ==
  ASSUME NEW m, NEW vs, AllRecords(vs)
  PROVE  /\ Len(vs) \in Nat /\ DOMAIN vs = 1..Len(vs)
         /\ \A i \in 1..Len(vs) : vs[i] \in ToSet(vs) /\ IsRecord(vs[i])
         /\ \E p : /\ p[0] = m
                   /\ \A k \in 0..(Len(vs) - 1) : p[k + 1] = Put(p[k], vs[k + 1])
                   /\ p[Len(vs)] = PutAll(m, vs)
<1>1. Len(vs) \in Nat /\ DOMAIN vs = 1..Len(vs)
  BY Listing DEF AllRecords
<1>2. \A i \in 1..Len(vs) : vs[i] \in ToSet(vs) /\ IsRecord(vs[i])
  BY <1>1 DEF AllRecords, ToSet
<1>3. PutAll(m, vs) = Puts!Folded(0, 0, m, vs)
  BY DEF PutAll, FoldLeft, MapThenFoldSet, Max, Puts!Folded, Puts!Top, Putting
<1> DEFINE n == Len(vs)
<1>4. n \in Nat /\ DOMAIN vs = 1..n
  BY <1>1
<1> HIDE DEF n
<1>5. PICK p : /\ p[0] = m
               /\ \A k \in 0..(n - 1) : p[k + 1] = Putting(0, 0, p[k], vs[k + 1])
               /\ p[n] = PutAll(m, vs)
  BY <1>3, <1>4, Puts!Steps
<1> QED BY <1>1, <1>2, <1>5 DEF Putting, n

\* Putting records loses none and brings in no other.
LEMMA PutAllKeeps ==
  ASSUME NEW m, IsMap(m), NEW vs, AllRecords(vs)
  PROVE  /\ IsMap(PutAll(m, vs))
         /\ All(m) \subseteq All(PutAll(m, vs)) /\ All(PutAll(m, vs)) \subseteq All(m) \cup ToSet(vs)
         /\ Ids(PutAll(m, vs)) \subseteq Ids(m) \cup IdsOf(vs)
<1> DEFINE n == Len(vs)
<1>1. n \in Nat /\ \A i \in 1..n : vs[i] \in ToSet(vs) /\ IsRecord(vs[i])
  BY PutSteps
<1>2. PICK p : /\ p[0] = m
               /\ \A k \in 0..(n - 1) : p[k + 1] = Put(p[k], vs[k + 1])
               /\ p[n] = PutAll(m, vs)
  BY PutSteps
<1> HIDE DEF n
<1> DEFINE Good(k) == /\ IsMap(p[k]) /\ All(m) \subseteq All(p[k]) /\ All(p[k]) \subseteq All(m) \cup ToSet(vs)
                      /\ Ids(p[k]) \subseteq Ids(m) \cup IdsOf(vs)
           S == {k \in 0..n : Good(k)}
<1>3. 0 \in S
  BY <1>1, <1>2
<1>4. ASSUME NEW k \in 0..(n - 1), k \in S PROVE k + 1 \in S
  <2>0. k + 1 \in 1..n /\ k + 1 \in 0..n
    BY <1>1
  <2>1. Good(k)
    BY <1>4
  <2>2. IsRecord(vs[k + 1]) /\ vs[k + 1] \in ToSet(vs) /\ vs[k + 1].ids \subseteq IdsOf(vs)
    BY <1>1, <2>0 DEF IdsOf
  <2>3. p[k + 1] = Put(p[k], vs[k + 1])
    BY <1>2
  <2>4. Good(k + 1)
    BY <2>1, <2>2, <2>3, PutKeeps
  <2> HIDE DEF Good
  <2> QED BY <2>0, <2>4
<1>5. n \in S
  <2> HIDE DEF S
  <2> QED BY <1>1, <1>3, <1>4, Puts!Induct
<1> QED BY <1>2, <1>5

\* A record enters a map when its identifiers are new to it and no other
\* record that is put before it into its slot shares one.
LEMMA PutAllEnters ==
  ASSUME NEW m, IsMap(m), NEW vs, AllRecords(vs), NEW i \in DOMAIN vs,
         vs[i].ids \cap Ids(m) = {},
         \A j \in 1..(i - 1) : vs[j].slot = vs[i].slot => vs[j] = vs[i] \/ vs[j].ids \cap vs[i].ids = {}
  PROVE  vs[i] \in All(PutAll(m, vs))
<1> DEFINE n == Len(vs)
           v == vs[i]
<1>1. n \in Nat /\ DOMAIN vs = 1..n /\ \A j \in 1..n : vs[j] \in ToSet(vs) /\ IsRecord(vs[j])
  BY PutSteps
<1>2. PICK p : /\ p[0] = m
               /\ \A k \in 0..(n - 1) : p[k + 1] = Put(p[k], vs[k + 1])
               /\ p[n] = PutAll(m, vs)
  BY PutSteps
<1> HIDE DEF n, v
<1> DEFINE Free(q) == v.slot \in DOMAIN q.at => v.ids \cap q.at[v.slot].ids = {}
           Good(k) == IsMap(p[k]) /\ (v \in All(p[k]) \/ (k < i /\ Free(p[k])))
           S == {k \in 0..n : Good(k)}
<1>3. 0 \in S
  <2>1. Free(m)
    BY DEF Ids, v
  <2> QED BY <1>1, <1>2, <2>1
<1>4. ASSUME NEW k \in 0..(n - 1), k \in S PROVE k + 1 \in S
  <2> DEFINE x == vs[k + 1]
             a == p[k]
             b == p[k + 1]
  <2>0. k + 1 \in 1..n /\ k + 1 \in 0..n /\ IsRecord(x)
    BY <1>1
  <2>1. Good(k)
    BY <1>4
  <2>2. b = Put(a, x)
    BY <1>2
  <2> HIDE DEF a, b, x
  <2>3. IsMap(a) /\ IsMap(b) /\ All(a) \subseteq All(b)
    BY <2>0, <2>1, <2>2, PutKeeps DEF a
  <2>4. CASE v \in All(a)
    BY <2>0, <2>3, <2>4 DEF b
  <2>5. CASE v \notin All(a)
    <3>1. k < i /\ Free(a)
      BY <2>1, <2>5 DEF a
    <3> DEFINE old == IF x.slot \in DOMAIN a.at THEN a.at[x.slot] ELSE NoBucket
    <3>2. /\ DOMAIN b.at = DOMAIN a.at \cup {x.slot} /\ b.at[x.slot] = Add(old, x)
          /\ \A s \in DOMAIN a.at \ {x.slot} : b.at[s] = a.at[s]
      BY <2>2, <2>3, PutIs
    <3>3. CASE x.slot # v.slot
      <4>1. Free(b)
        BY <3>1, <3>2, <3>3
      <4>2. k + 1 # i
        BY <3>3 DEF x, v
      <4> QED BY <2>0, <2>3, <3>1, <4>1, <4>2, <1>1 DEF b
    <3>4. CASE x.slot = v.slot
      <4>1. v.ids \cap old.ids = {}
        BY <3>1, <3>4, NothingKept
      <4>2. IsBucket(old, v.slot)
        BY <2>3, <3>4, NothingKept DEF IsMap
      <4> HIDE DEF old, Free
      <4>3. x = v => v \in All(b)
        <5>1. x = v => v \in Kept(b.at[v.slot]) /\ v.slot \in DOMAIN b.at
          BY <2>0, <3>2, <3>4, <4>1, <4>2, AddKeeps
        <5> QED BY <5>1 DEF All
      <4>4. ASSUME x # v PROVE k + 1 < i /\ Free(b)
        <5>1. k + 1 # i
          BY <4>4 DEF x, v
        <5>2. k + 1 < i /\ k + 1 \in 1..(i - 1)
          BY <1>1, <3>1, <5>1
        <5>3. x.ids \cap v.ids = {}
          BY <3>4, <4>4, <5>2 DEF x, v
        <5>4. Add(old, x).ids \subseteq old.ids \cup x.ids
          BY <2>0, <3>4, <4>2, AddKeeps
        <5>5. v.ids \cap b.at[v.slot].ids = {}
          BY <3>2, <3>4, <4>1, <5>3, <5>4
        <5> QED BY <5>2, <5>5 DEF Free
      <4> QED BY <2>0, <2>3, <4>3, <4>4 DEF b
    <3> QED BY <3>3, <3>4
  <2> QED BY <2>4, <2>5
<1>5. n \in S
  <2> HIDE DEF S
  <2> QED BY <1>1, <1>3, <1>4, Puts!Induct
<1>6. ~(n < i)
  BY <1>1
<1> QED BY <1>2, <1>5, <1>6 DEF v

Flat == INSTANCE Folding WITH Op <- Putting

\* The records of a map, in order, are all it holds.
LEMMA RecordsAre ==
  ASSUME NEW m, IsMap(m)
  PROVE  IsList(Records(m)) /\ ToSet(Records(m)) = All(m)
<1> DEFINE seqs == [i \in DOMAIN m.slots |-> m.at[m.slots[i]].cve \o m.at[m.slots[i]].mal]
           n == Len(m.slots)
<1>1. n \in Nat /\ DOMAIN m.slots = 1..n /\ \A i \in 1..n : m.slots[i] \in DOMAIN m.at
  BY Listing DEF IsMap, ToSet
<1>2. ASSUME NEW s \in DOMAIN m.at
      PROVE  /\ m.at[s].cve \o m.at[s].mal \in Seq(All(m))
             /\ ToSet(m.at[s].cve \o m.at[s].mal) = Kept(m.at[s])
  <2> DEFINE a == m.at[s].cve
             b == m.at[s].mal
  <2>1. IsList(a) /\ IsList(b) /\ ToSet(a) \cup ToSet(b) = Kept(m.at[s]) /\ Kept(m.at[s]) \subseteq All(m)
    BY DEF IsMap, IsBucket, Kept, All
  <2> HIDE DEF a, b
  <2>2. a \in Seq(All(m)) /\ b \in Seq(All(m))
    <3>1. ToSet(a) = Range(a) /\ ToSet(b) = Range(b)
      BY DEF ToSet, Range
    <3>2. a \in Seq(Range(a)) /\ b \in Seq(Range(b)) /\ Range(a) \subseteq All(m) /\ Range(b) \subseteq All(m)
      BY <2>1, <3>1 DEF IsList
    <3> QED BY <3>2
  <2>3. /\ a \o b \in Seq(All(m)) /\ Len(a) \in Nat /\ Len(b) \in Nat
        /\ DOMAIN a = 1..Len(a) /\ DOMAIN b = 1..Len(b) /\ DOMAIN (a \o b) = 1..(Len(a) + Len(b))
        /\ \A i \in 1..Len(a) : (a \o b)[i] = a[i]
        /\ \A i \in 1..Len(b) : (a \o b)[Len(a) + i] = b[i]
    BY <2>2
  <2>4. ASSUME NEW x \in ToSet(a) \cup ToSet(b) PROVE x \in ToSet(a \o b)
    <3>1. CASE x \in ToSet(a)
      <4>1. PICK i \in 1..Len(a) : x = a[i]
        BY <2>3, <3>1 DEF ToSet
      <4>2. i \in DOMAIN (a \o b) /\ (a \o b)[i] = x
        BY <2>3, <4>1
      <4> QED BY <4>2 DEF ToSet
    <3>2. CASE x \in ToSet(b)
      <4>1. PICK i \in 1..Len(b) : x = b[i]
        BY <2>3, <3>2 DEF ToSet
      <4>2. Len(a) + i \in DOMAIN (a \o b) /\ (a \o b)[Len(a) + i] = x
        BY <2>3, <4>1
      <4> QED BY <4>2 DEF ToSet
    <3> QED BY <3>1, <3>2
  <2>5. ASSUME NEW x \in ToSet(a \o b) PROVE x \in ToSet(a) \cup ToSet(b)
    <3>1. PICK i \in 1..(Len(a) + Len(b)) : x = (a \o b)[i]
      BY <2>3 DEF ToSet
    <3>2. CASE i \in 1..Len(a)
      <4>1. x = a[i]
        BY <2>3, <3>1, <3>2
      <4> QED BY <2>3, <3>2, <4>1 DEF ToSet
    <3>3. CASE i \notin 1..Len(a)
      <4>1. i - Len(a) \in 1..Len(b) /\ i = Len(a) + (i - Len(a))
        BY <2>3, <3>3
      <4>2. x = b[i - Len(a)]
        BY <2>3, <3>1, <4>1
      <4> QED BY <2>3, <4>1, <4>2 DEF ToSet
    <3> QED BY <3>2, <3>3
  <2>6. ToSet(a \o b) = Kept(m.at[s])
    BY <2>1, <2>4, <2>5
  <2> QED BY <2>3, <2>6 DEF a, b
<1>3. /\ seqs \in Seq(Seq(All(m))) /\ Len(seqs) = n
      /\ \A i \in 1..n : seqs[i] = m.at[m.slots[i]].cve \o m.at[m.slots[i]].mal
      /\ \A i \in 1..n : ToSet(seqs[i]) = Kept(m.at[m.slots[i]])
  <2>1. \A i \in 1..n : seqs[i] = m.at[m.slots[i]].cve \o m.at[m.slots[i]].mal
    BY <1>1
  <2>2. \A i \in 1..n : seqs[i] \in Seq(All(m)) /\ ToSet(seqs[i]) = Kept(m.at[m.slots[i]])
    <3> HIDE DEF seqs
    <3> QED BY <1>1, <1>2, <2>1
  <2>3. seqs = [i \in 1..n |-> seqs[i]]
    BY <1>1
  <2>4. seqs \in [1..n -> Seq(All(m))]
    <3> HIDE DEF seqs
    <3> QED BY <2>2, <2>3
  <2> HIDE DEF seqs, n
  <2>5. seqs \in Seq(Seq(All(m))) /\ Len(seqs) = n
    BY <1>1, <2>4
  <2> QED BY <2>1, <2>2, <2>5
<1>4. Records(m) = Flat!Flattened(seqs)
  BY DEF Records, FlattenSeq, Flat!Flattened
<1> HIDE DEF seqs, n
<1>5. /\ Records(m) \in Seq(All(m))
      /\ \A i \in DOMAIN Records(m) : \E k \in 1..n : \E j \in DOMAIN seqs[k] : Records(m)[i] = seqs[k][j]
      /\ \A k \in 1..n : \A j \in DOMAIN seqs[k] : \E i \in DOMAIN Records(m) : Records(m)[i] = seqs[k][j]
  <2>1. /\ seqs \in Seq(Seq(All(m))) /\ Len(seqs) = n
    BY <1>3
  <2> DEFINE T == All(m)
  <2>2. seqs \in Seq(Seq(T))
    BY <2>1
  <2> HIDE DEF T
  <2>3. /\ Flat!Flattened(seqs) \in Seq(T)
        /\ \A i \in DOMAIN Flat!Flattened(seqs) : \E k \in 1..Len(seqs) : \E j \in DOMAIN seqs[k] : Flat!Flattened(seqs)[i] = seqs[k][j]
        /\ \A k \in 1..Len(seqs) : \A j \in DOMAIN seqs[k] : \E i \in DOMAIN Flat!Flattened(seqs) : Flat!Flattened(seqs)[i] = seqs[k][j]
    BY <2>2, Flat!FlatElements
  <2> QED BY <1>4, <2>1, <2>3 DEF T
<1>6. ASSUME NEW x \in All(m) PROVE x \in ToSet(Records(m))
  <2>1. PICK s \in DOMAIN m.at : x \in Kept(m.at[s])
    BY DEF All
  <2>2. PICK k \in 1..n : m.slots[k] = s
    BY <1>1 DEF IsMap, ToSet
  <2>3. x \in ToSet(seqs[k])
    BY <1>3, <2>1, <2>2
  <2>4. PICK j \in DOMAIN seqs[k] : x = seqs[k][j]
    BY <2>3 DEF ToSet
  <2>5. PICK i \in DOMAIN Records(m) : Records(m)[i] = x
    BY <1>5, <2>4
  <2> QED BY <2>5 DEF ToSet
<1>7. ASSUME NEW x \in ToSet(Records(m)) PROVE x \in All(m)
  BY <1>5 DEF ToSet
<1> QED BY <1>5, <1>6, <1>7, ListOf

Merging(c, d, m, vdr) == PutAll(m, Records(PutAll(NoMap, vdr)))
Merges == INSTANCE Folding WITH Op <- Merging

\* What a VDR is read to: records of its own, apart in each slot, the first of
\* its identifiers among them.
LEMMA ReadIs ==
  ASSUME NEW vdr, AllRecords(vdr)
  PROVE  LET rs == Records(PutAll(NoMap, vdr))
         IN  /\ AllRecords(rs) /\ ToSet(rs) \subseteq ToSet(vdr)
             /\ \A x, y \in ToSet(rs) : x.slot = y.slot => x = y \/ x.ids \cap y.ids = {}
             /\ \A i \in DOMAIN vdr : NewIn(vdr, i) => vdr[i] \in ToSet(rs)
<1> DEFINE m == PutAll(NoMap, vdr)
           rs == Records(m)
<1>1. IsMap(m) /\ All(m) \subseteq ToSet(vdr)
  BY NoMapIs, PutAllKeeps
<1> HIDE DEF m
<1>2. IsList(rs) /\ ToSet(rs) = All(m)
  BY <1>1, RecordsAre
<1> HIDE DEF rs
<1>3. AllRecords(rs)
  BY <1>1, <1>2 DEF AllRecords
<1>4. ASSUME NEW x \in ToSet(rs), NEW y \in ToSet(rs), x.slot = y.slot
      PROVE  x = y \/ x.ids \cap y.ids = {}
  <2>1. PICK s \in DOMAIN m.at : x \in Kept(m.at[s])
    BY <1>2 DEF All
  <2>2. PICK t \in DOMAIN m.at : y \in Kept(m.at[t])
    BY <1>2 DEF All
  <2>3. s = x.slot /\ t = y.slot
    BY <1>1, <2>1, <2>2 DEF IsMap, IsBucket
  <2> QED BY <1>1, <1>4, <2>1, <2>2, <2>3 DEF IsMap, IsBucket
<1>5. ASSUME NEW i \in DOMAIN vdr, NewIn(vdr, i) PROVE vdr[i] \in ToSet(rs)
  <2>1. vdr[i] \in All(m)
    BY <1>5, NoMapIs, PutAllEnters DEF NewIn, m
  <2> QED BY <1>2, <2>1
<1> QED BY <1>1, <1>2, <1>3, <1>4, <1>5 DEF rs, m

\* Merging a VDR loses nothing and takes a record whose identifiers are new.
LEMMA MergeKeeps ==
  ASSUME NEW m, IsMap(m), NEW vdr, AllRecords(vdr)
  PROVE  LET n == PutAll(m, Records(PutAll(NoMap, vdr)))
         IN  /\ IsMap(n) /\ All(m) \subseteq All(n) /\ Ids(n) \subseteq Ids(m) \cup IdsOf(vdr)
             /\ \A i \in DOMAIN vdr : NewIn(vdr, i) /\ vdr[i].ids \cap Ids(m) = {} => vdr[i] \in All(n)
<1> DEFINE rs == Records(PutAll(NoMap, vdr))
           n == PutAll(m, rs)
<1>1. /\ AllRecords(rs) /\ ToSet(rs) \subseteq ToSet(vdr)
      /\ \A x, y \in ToSet(rs) : x.slot = y.slot => x = y \/ x.ids \cap y.ids = {}
      /\ \A i \in DOMAIN vdr : NewIn(vdr, i) => vdr[i] \in ToSet(rs)
  BY ReadIs
<1> HIDE DEF rs
<1>2. IsMap(n) /\ All(m) \subseteq All(n) /\ Ids(n) \subseteq Ids(m) \cup IdsOf(rs)
  BY <1>1, PutAllKeeps
<1>3. IdsOf(rs) \subseteq IdsOf(vdr)
  BY <1>1 DEF IdsOf
<1>4. ASSUME NEW i \in DOMAIN vdr, NewIn(vdr, i), vdr[i].ids \cap Ids(m) = {}
      PROVE  vdr[i] \in All(n)
  <2>1. PICK j \in DOMAIN rs : rs[j] = vdr[i]
    BY <1>1, <1>4 DEF ToSet
  <2>2. DOMAIN rs = 1..Len(rs) /\ Len(rs) \in Nat
    BY <1>1, Listing DEF AllRecords
  <2>3. \A l \in 1..(j - 1) : rs[l].slot = rs[j].slot => rs[l] = rs[j] \/ rs[l].ids \cap rs[j].ids = {}
    BY <1>1, <2>2 DEF ToSet
  <2>4. rs[j] \in All(n)
    BY <1>1, <1>4, <2>1, <2>3, PutAllEnters
  <2> QED BY <2>1, <2>4
<1> QED BY <1>2, <1>3, <1>4 DEF rs

\* The first record of its identifiers is in the map of depscan.
LEMMA DepscanIs ==
  ASSUME NEW r, RepositoryOK(r)
  PROVE  /\ IsMap(DepscanMap(r))
         /\ Ids(DepscanMap(r)) \subseteq UNION {IdsOf(r.vdrs[k]) : k \in DOMAIN r.vdrs}
         /\ \A k \in DOMAIN r.vdrs : \A i \in DOMAIN r.vdrs[k] :
               NewIn(r.vdrs[k], i) /\ (\A l \in 1..(k - 1) : Apart(r.vdrs[l], r.vdrs[k][i]))
                  => r.vdrs[k][i] \in All(DepscanMap(r))
<1> DEFINE n == Len(r.vdrs)
           IdsTo(k) == UNION {IdsOf(r.vdrs[l]) : l \in 1..k}
<1>1. n \in Nat /\ DOMAIN r.vdrs = 1..n
  BY Listing DEF RepositoryOK
<1>2. \A k \in 1..n : AllRecords(r.vdrs[k])
  BY <1>1 DEF RepositoryOK, AllRecords, ToSet
<1>3. DepscanMap(r) = Merges!Folded(0, 0, NoMap, r.vdrs)
  BY DEF DepscanMap, FoldLeft, MapThenFoldSet, Max, Merges!Folded, Merges!Top, Merging
<1> HIDE DEF n
<1>4. PICK p : /\ p[0] = NoMap
               /\ \A k \in 0..(n - 1) : p[k + 1] = Merging(0, 0, p[k], r.vdrs[k + 1])
               /\ p[n] = DepscanMap(r)
  BY <1>1, <1>3, Merges!Steps
<1> DEFINE Early(k, i) == NewIn(r.vdrs[k], i) /\ \A l \in 1..(k - 1) : Apart(r.vdrs[l], r.vdrs[k][i])
           Good(k) == /\ IsMap(p[k]) /\ Ids(p[k]) \subseteq IdsTo(k)
                      /\ \A l \in 1..k : \A i \in DOMAIN r.vdrs[l] : Early(l, i) => r.vdrs[l][i] \in All(p[k])
           S == {k \in 0..n : Good(k)}
<1>5. 0 \in S
  BY <1>1, <1>4, NoMapIs
<1>6. ASSUME NEW k \in 0..(n - 1), k \in S PROVE k + 1 \in S
  <2> DEFINE vdr == r.vdrs[k + 1]
             a == p[k]
             b == p[k + 1]
  <2>0. k + 1 \in 1..n /\ k + 1 \in 0..n /\ AllRecords(vdr) /\ \A l \in 1..(k + 1) : l \in 1..k \/ l = k + 1
    BY <1>1, <1>2
  <2>1. /\ IsMap(a) /\ Ids(a) \subseteq IdsTo(k)
        /\ \A l \in 1..k : \A i \in DOMAIN r.vdrs[l] : Early(l, i) => r.vdrs[l][i] \in All(a)
    BY <1>6
  <2>2. b = PutAll(a, Records(PutAll(NoMap, vdr)))
    BY <1>4 DEF Merging
  <2> HIDE DEF a, b
  <2>3. /\ IsMap(b) /\ All(a) \subseteq All(b) /\ Ids(b) \subseteq Ids(a) \cup IdsOf(vdr)
        /\ \A i \in DOMAIN vdr : NewIn(vdr, i) /\ vdr[i].ids \cap Ids(a) = {} => vdr[i] \in All(b)
    <3> HIDE DEF vdr
    <3> QED BY <2>0, <2>1, <2>2, MergeKeeps
  <2>4. Ids(b) \subseteq IdsTo(k + 1)
    <3>1. IdsTo(k) \subseteq IdsTo(k + 1) /\ IdsOf(vdr) \subseteq IdsTo(k + 1)
      BY <2>0
    <3> HIDE DEF IdsTo
    <3> QED BY <2>1, <2>3, <3>1
  <2>5. ASSUME NEW l \in 1..(k + 1), NEW i \in DOMAIN r.vdrs[l], Early(l, i) PROVE r.vdrs[l][i] \in All(b)
    <3>1. CASE l \in 1..k
      <4> HIDE DEF Early
      <4> QED BY <2>1, <2>3, <2>5, <3>1
    <3>2. CASE l = k + 1
      <4>1. \A j \in 1..k : Apart(r.vdrs[j], vdr[i])
        BY <2>5, <3>2
      <4>2. \A j \in 1..k : \A x \in ToSet(r.vdrs[j]) : x.ids \cap vdr[i].ids = {}
        BY <4>1 DEF Apart, ToSet
      <4>3. vdr[i].ids \cap IdsTo(k) = {}
        BY <4>2 DEF IdsOf
      <4>4. NewIn(vdr, i)
        BY <2>5, <3>2
      <4> HIDE DEF IdsTo
      <4> QED BY <2>1, <2>3, <3>2, <4>3, <4>4
    <3> QED BY <2>0, <3>1, <3>2
  <2>6. Good(k + 1)
    <3> HIDE DEF Early, IdsTo
    <3> QED BY <2>3, <2>4, <2>5 DEF b
  <2> HIDE DEF Good
  <2> QED BY <2>0, <2>6
<1>7. n \in S
  <2> HIDE DEF S
  <2> QED BY <1>1, <1>5, <1>6, Merges!Induct
<1>8. Good(n)
  BY <1>7
<1> HIDE DEF IdsTo
<1>9. IdsTo(n) = UNION {IdsOf(r.vdrs[k]) : k \in DOMAIN r.vdrs}
  BY <1>1 DEF IdsTo
<1> QED BY <1>1, <1>4, <1>8, <1>9

-----------------------------------------------------------------------------
(* The records of osv-scanner.                                              *)

Sifting(c, d, a, v) ==
    [seen |-> a.seen \cup v.ids, out |-> IF v.ids \cap a.seen # {} THEN a.out ELSE Append(a.out, v)]
Sifted == INSTANCE Folding WITH Op <- Sifting

\* OsvOnce keeps the first record of its identifiers and no two that share one.
LEMMA OnceIs ==
  ASSUME NEW vs, IsList(vs)
  PROVE  /\ IsList(OsvOnce(vs)) /\ ToSet(OsvOnce(vs)) \subseteq ToSet(vs)
         /\ \A x, y \in ToSet(OsvOnce(vs)) : x = y \/ x.ids \cap y.ids = {}
         /\ \A i \in DOMAIN vs : NewIn(vs, i) => vs[i] \in ToSet(OsvOnce(vs))
<1> DEFINE n == Len(vs)
           zero == [seen |-> {}, out |-> <<>>]
<1>1. n \in Nat /\ DOMAIN vs = 1..n
  BY Listing
<1>2. OsvOnce(vs) = Sifted!Folded(0, 0, zero, vs).out
  BY DEF OsvOnce, FoldLeft, MapThenFoldSet, Max, Sifted!Folded, Sifted!Top, Sifting
<1> DEFINE final == Sifted!Folded(0, 0, zero, vs)
<1>2a. final = Sifted!Folded(0, 0, zero, vs) /\ OsvOnce(vs) = final.out
  BY <1>2
<1> HIDE DEF n, final, zero
<1>3. PICK p : /\ p[0] = zero
               /\ \A k \in 0..(n - 1) : p[k + 1] = Sifting(0, 0, p[k], vs[k + 1])
               /\ p[n] = final
  BY <1>1, <1>2a, Sifted!Steps
<1> DEFINE Seen(k) == UNION {vs[j].ids : j \in 1..k}
           Good(k) == /\ p[k].seen = Seen(k) /\ IsList(p[k].out)
                      /\ ToSet(p[k].out) \subseteq {vs[j] : j \in 1..k}
                      /\ \A x, y \in ToSet(p[k].out) : x = y \/ x.ids \cap y.ids = {}
                      /\ \A i \in 1..k : NewIn(vs, i) => vs[i] \in ToSet(p[k].out)
           S == {k \in 0..n : Good(k)}
<1>4. 0 \in S
  <2>1. <<>> \in Seq({}) /\ DOMAIN <<>> = {}
    OBVIOUS
  <2>2. IsList(<<>>) /\ ToSet(<<>>) = {}
    BY <2>1, ListOf DEF ToSet
  <2>3. p[0].seen = {} /\ p[0].out = <<>>
    BY <1>3 DEF zero
  <2>4. 0 \in 0..n /\ 1..0 = {}
    BY <1>1
  <2>5. Good(0)
    BY <2>2, <2>3, <2>4
  <2> QED BY <2>4, <2>5
<1>5. ASSUME NEW k \in 0..(n - 1), k \in S PROVE k + 1 \in S
  <2> DEFINE v == vs[k + 1]
             a == p[k]
             b == p[k + 1]
  <2>0. k + 1 \in 1..n /\ k + 1 \in 0..n /\ \A l \in 1..(k + 1) : l \in 1..k \/ l = k + 1
    BY <1>1
  <2>1. /\ a.seen = Seen(k) /\ IsList(a.out)
        /\ ToSet(a.out) \subseteq {vs[j] : j \in 1..k}
        /\ \A x, y \in ToSet(a.out) : x = y \/ x.ids \cap y.ids = {}
        /\ \A i \in 1..k : NewIn(vs, i) => vs[i] \in ToSet(a.out)
    BY <1>5
  <2>2a. b = [seen |-> a.seen \cup v.ids, out |-> IF v.ids \cap a.seen # {} THEN a.out ELSE Append(a.out, v)]
    BY <1>3 DEF Sifting
  <2> HIDE DEF a, b
  <2>2. b.seen = a.seen \cup v.ids /\ b.out = IF v.ids \cap a.seen # {} THEN a.out ELSE Append(a.out, v)
    <3> HIDE DEF v
    <3> QED BY <2>2a
  <2>3. \A x \in ToSet(a.out) : x.ids \subseteq a.seen
    BY <2>1
  <2>4. b.seen = Seen(k + 1)
    BY <2>0, <2>1, <2>2
  <2>5. NewIn(vs, k + 1) => v.ids \cap a.seen = {}
    <3>1. ASSUME NewIn(vs, k + 1), NEW j \in 1..k PROVE vs[j].ids \cap v.ids = {}
      BY <3>1 DEF NewIn
    <3> QED BY <2>1, <3>1
  <2> HIDE DEF v
  <2>6. /\ IsList(b.out) /\ ToSet(a.out) \subseteq ToSet(b.out) /\ ToSet(b.out) \subseteq ToSet(a.out) \cup {v}
        /\ v.ids \cap a.seen # {} => ToSet(b.out) = ToSet(a.out)
        /\ v.ids \cap a.seen = {} => v \in ToSet(b.out)
    BY <2>1, <2>2, Appended
  <2>7. \A x, y \in ToSet(b.out) : x = y \/ x.ids \cap y.ids = {}
    BY <2>1, <2>3, <2>6
  <2>8. ToSet(b.out) \subseteq {vs[j] : j \in 1..(k + 1)}
    BY <2>0, <2>1, <2>6 DEF v
  <2>9. \A i \in 1..(k + 1) : NewIn(vs, i) => vs[i] \in ToSet(b.out)
    BY <2>0, <2>1, <2>5, <2>6 DEF v
  <2>10. Good(k + 1)
    <3> HIDE DEF Seen
    <3> QED BY <2>4, <2>6, <2>7, <2>8, <2>9 DEF b
  <2> HIDE DEF Good
  <2> QED BY <2>0, <2>10
<1>6. n \in S
  <2> HIDE DEF S
  <2> QED BY <1>1, <1>4, <1>5, Sifted!Induct
<1>7. Good(n)
  BY <1>6
<1>8. \A j \in 1..n : vs[j] \in ToSet(vs)
  BY <1>1 DEF ToSet
<1> HIDE DEF Seen
<1> QED BY <1>1, <1>2a, <1>3, <1>7, <1>8

Slotting(c, d, a, v) == IF Contains(a, v.slot) THEN a ELSE Append(a, v.slot)
Slotted == INSTANCE Folding WITH Op <- Slotting

SlotsOf(vs) == FoldLeft(LAMBDA a, v : IF Contains(a, v.slot) THEN a ELSE Append(a, v.slot), <<>>, vs)

\* The slots of records, each once or more.
LEMMA SlotsAre ==
  ASSUME NEW vs, IsList(vs)
  PROVE  IsList(SlotsOf(vs)) /\ ToSet(SlotsOf(vs)) = {v.slot : v \in ToSet(vs)}
<1> DEFINE n == Len(vs)
<1>1. n \in Nat /\ DOMAIN vs = 1..n
  BY Listing
<1>2. SlotsOf(vs) = Slotted!Folded(0, 0, <<>>, vs)
  BY DEF SlotsOf, FoldLeft, MapThenFoldSet, Max, Slotted!Folded, Slotted!Top, Slotting
<1> HIDE DEF n
<1>3. PICK p : /\ p[0] = <<>>
               /\ \A k \in 0..(n - 1) : p[k + 1] = Slotting(0, 0, p[k], vs[k + 1])
               /\ p[n] = SlotsOf(vs)
  BY <1>1, <1>2, Slotted!Steps
<1> DEFINE Good(k) == IsList(p[k]) /\ ToSet(p[k]) = {vs[j].slot : j \in 1..k}
           S == {k \in 0..n : Good(k)}
<1>4. 0 \in S
  <2>1. <<>> \in Seq({}) /\ DOMAIN <<>> = {} /\ 0 \in 0..n /\ 1..0 = {}
    BY <1>1
  <2>2. IsList(<<>>) /\ ToSet(<<>>) = {}
    BY <2>1, ListOf DEF ToSet
  <2> QED BY <1>3, <2>1, <2>2
<1>5. ASSUME NEW k \in 0..(n - 1), k \in S PROVE k + 1 \in S
  <2> DEFINE s == vs[k + 1].slot
             a == p[k]
             b == p[k + 1]
  <2>0. k + 1 \in 0..n /\ \A l \in 1..(k + 1) : l \in 1..k \/ l = k + 1
    BY <1>1
  <2>1. IsList(a) /\ ToSet(a) = {vs[j].slot : j \in 1..k}
    BY <1>5
  <2>2. b = IF Contains(a, s) THEN a ELSE Append(a, s)
    BY <1>3 DEF Slotting
  <2> HIDE DEF a, b
  <2>3. Contains(a, s) => s \in ToSet(a)
    BY <2>1, Listing DEF Contains, ToSet
  <2> HIDE DEF s
  <2>4. IsList(b) /\ ToSet(b) = ToSet(a) \cup {s}
    BY <2>1, <2>2, <2>3, Appended
  <2>5. {vs[j].slot : j \in 1..(k + 1)} = {vs[j].slot : j \in 1..k} \cup {s}
    BY <2>0 DEF s
  <2>6. Good(k + 1)
    BY <2>1, <2>4, <2>5 DEF b
  <2> HIDE DEF Good
  <2> QED BY <2>0, <2>6
<1>6. n \in S
  <2> HIDE DEF S
  <2> QED BY <1>1, <1>4, <1>5, Slotted!Induct
<1>7. {vs[j].slot : j \in 1..n} = {v.slot : v \in ToSet(vs)}
  BY <1>1 DEF ToSet
<1> QED BY <1>3, <1>6, <1>7

OfSlot(s, d, a, v) == IF v.slot = s THEN Append(a, v) ELSE a
AtSlot == INSTANCE Folding WITH Op <- OfSlot

AboutSlot(vs, s) == Where(vs, LAMBDA v : v.slot = s)

\* The records of one slot: the first of its identifiers remains the first.
LEMMA WhereSlot ==
  ASSUME NEW vs, IsList(vs), NEW s
  PROVE  LET w == AboutSlot(vs, s)
         IN  /\ IsList(w) /\ \A x \in ToSet(w) : x \in ToSet(vs) /\ x.slot = s
             /\ \A i \in DOMAIN vs : vs[i].slot = s /\ NewIn(vs, i) =>
                   \E j \in DOMAIN w : w[j] = vs[i] /\ NewIn(w, j)
<1> DEFINE n == Len(vs)
           w == AboutSlot(vs, s)
           T == ToSet(vs)
           P == {x \in T : x.slot = s}
<1>1. n \in Nat /\ DOMAIN vs = 1..n
  BY Listing
<1>2. w = AtSlot!Folded(s, 0, <<>>, vs)
  BY DEF AboutSlot, Where, FoldLeft, MapThenFoldSet, Max, AtSlot!Folded, AtSlot!Top, OfSlot
<1>3. vs \in Seq(T) /\ \A i \in 1..n : vs[i] \in T
  BY <1>1 DEF IsList, ToSet, Range
<1>4. n = Len(vs)
  OBVIOUS
<1> HIDE DEF n, w, T
<1>5. PICK p : /\ p[0] = <<>>
               /\ \A k \in 0..(n - 1) : p[k + 1] = OfSlot(s, 0, p[k], vs[k + 1])
               /\ p[n] = w
  BY <1>1, <1>2, AtSlot!Steps
<1>6. \A k \in 0..(n - 1) : p[k + 1] = IF vs[k + 1] \in P THEN Append(p[k], vs[k + 1]) ELSE p[k]
  <2> SUFFICES ASSUME NEW k \in 0..(n - 1)
               PROVE  p[k + 1] = IF vs[k + 1] \in P THEN Append(p[k], vs[k + 1]) ELSE p[k]
    OBVIOUS
  <2>1. vs[k + 1] \in T
    BY <1>1, <1>3
  <2> QED BY <1>5, <2>1 DEF OfSlot
<1> HIDE DEF P
<1>7. /\ w \in Seq(T)
      /\ \A j \in DOMAIN w : w[j] \in P
      /\ \A i \in DOMAIN vs : vs[i] \in P =>
            \E j \in DOMAIN w : w[j] = vs[i] /\ \A l \in 1..(j - 1) : \E h \in 1..(i - 1) : w[l] = vs[h]
  <2>1. /\ p[0] = <<>> /\ p[Len(vs)] = w
        /\ \A k \in 0..(Len(vs) - 1) : p[k + 1] = IF vs[k + 1] \in P THEN Append(p[k], vs[k + 1]) ELSE p[k]
    BY <1>4, <1>5, <1>6
  <2>2. w \in Seq(T) /\ AtSlot!IsSelection(vs, P, w)
    BY <1>3, <2>1, AtSlot!Selects
  <2> QED BY <2>2 DEF AtSlot!IsSelection
<1>8. ASSUME NEW i \in DOMAIN vs, vs[i].slot = s, NewIn(vs, i)
      PROVE  \E j \in DOMAIN w : w[j] = vs[i] /\ NewIn(w, j)
  <2>1. vs[i] \in P
    BY <1>1, <1>3, <1>8 DEF P
  <2>2. PICK j \in DOMAIN w : w[j] = vs[i] /\ \A l \in 1..(j - 1) : \E h \in 1..(i - 1) : w[l] = vs[h]
    BY <1>7, <2>1
  <2>3. NewIn(w, j)
    BY <1>8, <2>2 DEF NewIn
  <2> QED BY <2>2, <2>3
<1>9. IsList(w)
  BY <1>7, ListOf
<1>10. \A x \in ToSet(w) : x \in T /\ x.slot = s
  BY <1>7 DEF ToSet, P
<1> QED BY <1>8, <1>9, <1>10 DEF w, T

\* The records of osv-scanner, rated: apart in each slot, the first of its
\* identifiers among them.
LEMMA OsvIs ==
  ASSUME NEW r, AllRecords(r.found)
  PROVE  LET rs == OsvRecords(r)
         IN  /\ AllRecords(rs)
             /\ \A x, y \in ToSet(rs) : x.slot = y.slot => x = y \/ x.ids \cap y.ids = {}
             /\ \A i \in DOMAIN r.found : NewIn(r.found, i) =>
                   \E x \in ToSet(rs) : x.ids = r.found[i].ids
<1> DEFINE vs == r.found
           slots == SlotsOf(vs)
           Of(s) == OsvOnce(Where(vs, LAMBDA v : v.slot = s))
           seqs == [i \in DOMAIN slots |-> Of(slots[i])]
           all == FlattenSeq(seqs)
           rated(v) == [v EXCEPT !.transitive = v.slot[1] \in TransitiveNames(r),
                                 !.high = @ \/ v.id \in MalwareIds,
                                 !.reachable = FALSE, !.used = FALSE]
           rs == OsvRecords(r)
           n == Len(slots)
<1>1. rs = [i \in DOMAIN all |-> rated(all[i])]
  BY DEF OsvRecords, SlotsOf
<1>2. IsList(vs) /\ \A v \in ToSet(vs) : IsRecord(v)
  BY DEF AllRecords
<1> HIDE DEF vs
<1>3. n \in Nat /\ DOMAIN slots = 1..n /\ ToSet(slots) = {v.slot : v \in ToSet(vs)}
  <2>1. IsList(slots) /\ ToSet(slots) = {v.slot : v \in ToSet(vs)}
    BY <1>2, SlotsAre
  <2> HIDE DEF slots
  <2> QED BY <2>1, Listing
<1> HIDE DEF slots, rs
<1>4. ASSUME NEW s
      PROVE  /\ IsList(Of(s)) /\ \A x \in ToSet(Of(s)) : x \in ToSet(vs) /\ x.slot = s
             /\ \A x, y \in ToSet(Of(s)) : x = y \/ x.ids \cap y.ids = {}
             /\ \A i \in DOMAIN vs : vs[i].slot = s /\ NewIn(vs, i) => vs[i] \in ToSet(Of(s))
  <2> DEFINE w == AboutSlot(vs, s)
  <2>1. IsList(w) /\ \A x \in ToSet(w) : x \in ToSet(vs) /\ x.slot = s
    BY <1>2, WhereSlot
  <2>2. \A i \in DOMAIN vs : vs[i].slot = s /\ NewIn(vs, i) =>
                   \E j \in DOMAIN w : w[j] = vs[i] /\ NewIn(w, j)
    BY <1>2, WhereSlot
  <2> HIDE DEF w
  <2>3. /\ IsList(OsvOnce(w)) /\ ToSet(OsvOnce(w)) \subseteq ToSet(w)
        /\ \A x, y \in ToSet(OsvOnce(w)) : x = y \/ x.ids \cap y.ids = {}
        /\ \A i \in DOMAIN w : NewIn(w, i) => w[i] \in ToSet(OsvOnce(w))
    BY <2>1, OnceIs
  <2>4. Of(s) = OsvOnce(w)
    BY DEF w, AboutSlot
  <2> HIDE DEF Of
  <2> QED BY <2>1, <2>2, <2>3, <2>4
<1> DEFINE T == ToSet(vs)
<1> HIDE DEF Of, T
<1>5. seqs \in Seq(Seq(T)) /\ Len(seqs) = n /\ \A i \in 1..n : seqs[i] = Of(slots[i])
  <2>1. \A i \in 1..n : seqs[i] = Of(slots[i])
    BY <1>3
  <2>2. ASSUME NEW i \in 1..n PROVE seqs[i] \in Seq(T)
    <3>1. Of(slots[i]) \in Seq(Range(Of(slots[i]))) /\ Range(Of(slots[i])) = ToSet(Of(slots[i]))
      BY <1>4 DEF IsList, Range, ToSet
    <3>2. Range(Of(slots[i])) \subseteq T
      BY <1>4, <3>1 DEF T
    <3> HIDE DEF seqs
    <3> QED BY <2>1, <3>1, <3>2
  <2>3. seqs = [i \in 1..n |-> seqs[i]]
    BY <1>3
  <2> HIDE DEF seqs
  <2>4. seqs \in [1..n -> Seq(T)]
    BY <2>2, <2>3
  <2> HIDE DEF n
  <2> QED BY <1>3, <2>1, <2>4
<1>6. all = Flat!Flattened(seqs)
  BY DEF FlattenSeq, Flat!Flattened
<1> HIDE DEF seqs, all, n
<1>7. /\ all \in Seq(T)
      /\ \A i \in DOMAIN all : \E k \in 1..n : \E j \in DOMAIN seqs[k] : all[i] = seqs[k][j]
      /\ \A k \in 1..n : \A j \in DOMAIN seqs[k] : \E i \in DOMAIN all : all[i] = seqs[k][j]
  <2>1. seqs \in Seq(Seq(T)) /\ Len(seqs) = n
    BY <1>5
  <2>2. /\ Flat!Flattened(seqs) \in Seq(T)
        /\ \A i \in DOMAIN Flat!Flattened(seqs) : \E k \in 1..Len(seqs) : \E j \in DOMAIN seqs[k] : Flat!Flattened(seqs)[i] = seqs[k][j]
        /\ \A k \in 1..Len(seqs) : \A j \in DOMAIN seqs[k] : \E i \in DOMAIN Flat!Flattened(seqs) : Flat!Flattened(seqs)[i] = seqs[k][j]
    BY <2>1, Flat!FlatElements
  <2> QED BY <1>6, <2>1, <2>2
<1>8. Len(all) \in Nat /\ DOMAIN all = 1..Len(all) /\ \A i \in DOMAIN all : all[i] \in T
  BY <1>7
<1>9. ASSUME NEW v \in T
      PROVE  IsRecord(rated(v)) /\ rated(v).slot = v.slot /\ rated(v).ids = v.ids
  <2>1. v = [id |-> v.id, ids |-> v.ids, slot |-> v.slot, transitive |-> v.transitive,
             reachable |-> v.reachable, used |-> v.used, high |-> v.high] /\ v.high \in BOOLEAN
    BY <1>2 DEF T, IsRecord
  <2> DEFINE x == rated(v)
             h == v.high \/ v.id \in MalwareIds
             t == v.slot[1] \in TransitiveNames(r)
  <2>2. x = [v EXCEPT !.transitive = t, !.high = h, !.reachable = FALSE, !.used = FALSE]
    OBVIOUS
  <2>3. h \in BOOLEAN
    BY <2>1
  <2> HIDE DEF h, t, x
  <2>4. /\ x.slot = v.slot /\ x.ids = v.ids /\ x.high = h /\ x.reachable = FALSE
        /\ x = [id |-> x.id, ids |-> x.ids, slot |-> x.slot, transitive |-> x.transitive,
                reachable |-> x.reachable, used |-> x.used, high |-> x.high]
    BY <2>1, <2>2
  <2>5. IsRecord(x)
    BY <2>3, <2>4 DEF IsRecord
  <2> QED BY <2>4, <2>5 DEF x
<1> HIDE DEF rated
<1>10. /\ Len(rs) \in Nat /\ DOMAIN rs = DOMAIN all /\ \A i \in DOMAIN all : rs[i] = rated(all[i])
       /\ IsList(rs)
  <2>1. DOMAIN rs = DOMAIN all /\ \A i \in DOMAIN all : rs[i] = rated(all[i])
    BY <1>1
  <2>2. rs \in [1..Len(all) -> {rated(all[i]) : i \in 1..Len(all)}]
    BY <1>1, <1>8
  <2>3. rs \in Seq({rated(all[i]) : i \in 1..Len(all)})
    BY <1>8, <2>2
  <2> QED BY <2>1, <2>3, ListOf
<1>11. AllRecords(rs)
  BY <1>8, <1>9, <1>10 DEF AllRecords, ToSet
<1>12. ASSUME NEW x \in ToSet(rs), NEW y \in ToSet(rs), x.slot = y.slot
       PROVE  x = y \/ x.ids \cap y.ids = {}
  <2>1. PICK i \in DOMAIN all : x = rated(all[i])
    BY <1>10 DEF ToSet
  <2>2. PICK j \in DOMAIN all : y = rated(all[j])
    BY <1>10 DEF ToSet
  <2> DEFINE a == all[i]
             b == all[j]
  <2>3. a \in T /\ b \in T /\ x = rated(a) /\ y = rated(b)
    BY <1>8, <2>1, <2>2
  <2>4. \E s : a \in ToSet(Of(s))
    <3>1. PICK k \in 1..n : \E l \in DOMAIN seqs[k] : a = seqs[k][l]
      BY <1>7
    <3>2. a \in ToSet(seqs[k])
      BY <3>1 DEF ToSet
    <3> QED BY <1>5, <3>2
  <2>5. \E s : b \in ToSet(Of(s))
    <3>1. PICK k \in 1..n : \E l \in DOMAIN seqs[k] : b = seqs[k][l]
      BY <1>7
    <3>2. b \in ToSet(seqs[k])
      BY <3>1 DEF ToSet
    <3> QED BY <1>5, <3>2
  <2> HIDE DEF a, b
  <2>6. a.slot = b.slot /\ a \in ToSet(Of(a.slot)) /\ b \in ToSet(Of(a.slot))
    BY <1>4, <1>9, <1>12, <2>3, <2>4, <2>5
  <2>7. a = b \/ a.ids \cap b.ids = {}
    BY <1>4, <2>6
  <2> QED BY <1>9, <2>3, <2>7
<1>13. ASSUME NEW i \in DOMAIN vs, NewIn(vs, i)
       PROVE  \E x \in ToSet(rs) : x.ids = vs[i].ids
  <2>1. vs[i] \in T
    BY DEF ToSet, T
  <2>2. PICK k \in 1..n : slots[k] = vs[i].slot
    BY <1>3, <2>1 DEF ToSet, T
  <2>3. vs[i] \in ToSet(seqs[k])
    BY <1>4, <1>5, <1>13, <2>2
  <2>4. PICK j \in DOMAIN all : all[j] = vs[i]
    BY <1>7, <2>3 DEF ToSet
  <2>5. rs[j] \in ToSet(rs) /\ rs[j].ids = vs[i].ids
    BY <1>9, <1>10, <2>1, <2>4 DEF ToSet
  <2> QED BY <2>5
<1> QED BY <1>11, <1>12, <1>13 DEF rs, vs

-----------------------------------------------------------------------------
(* Groups.                                                                  *)

IsGroup(g) ==
    /\ g = [seen |-> g.seen, versions |-> g.versions, cve |-> g.cve, mal |-> g.mal]
    /\ IsList(g.cve) /\ IsList(g.mal)
    /\ \A x \in Kept(g) : IsRecord(x)
Grave(v)   == v.high /\ v.reachable
HasMal(g)  == ToSet(g.mal) # {}
HasGrave(g) == \E x \in ToSet(g.cve) : Grave(x)

\* The first record of a group is grave when it or the one it takes up was.
LEMMA MergeIs ==
  ASSUME NEW a, IsRecord(a), NEW v, IsRecord(v)
  PROVE  IsRecord(Merge(a, v)) /\ (Grave(a) \/ Grave(v) => Grave(Merge(a, v)))
<1> DEFINE b == Merge(a, v)
           t == a.transitive /\ v.transitive
           c == a.reachable \/ v.reachable
           u == a.used \/ v.used
           h == a.high \/ v.high
<1>1. a = [id |-> a.id, ids |-> a.ids, slot |-> a.slot, transitive |-> a.transitive,
           reachable |-> a.reachable, used |-> a.used, high |-> a.high]
  BY DEF IsRecord
<1>2. b = [a EXCEPT !.transitive = t, !.reachable = c, !.used = u, !.high = h]
  BY DEF Merge
<1>3. c \in BOOLEAN /\ h \in BOOLEAN
  BY DEF IsRecord
<1>4. (Grave(a) => c /\ h) /\ (Grave(v) => c /\ h)
  BY DEF Grave
<1> HIDE DEF t, c, u, h, b
<1>5. /\ b.reachable = c /\ b.high = h
      /\ b = [id |-> b.id, ids |-> b.ids, slot |-> b.slot, transitive |-> b.transitive,
              reachable |-> b.reachable, used |-> b.used, high |-> b.high]
  BY <1>1, <1>2
<1>6. c /\ h => Grave(b)
  BY <1>3, <1>5 DEF Grave
<1> QED BY <1>3, <1>4, <1>5, <1>6 DEF IsRecord, b

\* A list with its first element replaced.
LEMMA Replaced ==
  ASSUME NEW s, IsList(s), s # <<>>, NEW x
  PROVE  LET t == [s EXCEPT ![1] = x]
         IN  /\ IsList(t) /\ DOMAIN t = DOMAIN s /\ 1 \in DOMAIN s /\ t[1] = x
             /\ \A i \in DOMAIN s : i # 1 => t[i] = s[i]
<1> DEFINE t == [s EXCEPT ![1] = x]
<1>1. s \in Seq(Range(s) \cup {x}) /\ Len(s) \in Nat /\ DOMAIN s = 1..Len(s)
  BY DEF IsList
<1>2. 1 \in DOMAIN s
  BY <1>1
<1>3. t \in Seq(Range(s) \cup {x}) /\ DOMAIN t = DOMAIN s
  BY <1>1, <1>2
<1>4. t[1] = x /\ \A i \in DOMAIN s : i # 1 => t[i] = s[i]
  BY <1>2
<1> HIDE DEF t
<1>5. IsList(t)
  BY <1>3, ListOf
<1> QED BY <1>2, <1>3, <1>4, <1>5 DEF t

\* A group takes a record and loses nothing grave.
LEMMA EnteredIs ==
  ASSUME NEW g, IsGroup(g), NEW v, IsRecord(v)
  PROVE  LET n == Entered(g, v)
         IN  /\ IsGroup(n) /\ (HasMal(g) => HasMal(n)) /\ (HasGrave(g) => HasGrave(n))
             /\ IsMalware(v) => HasMal(n)
             /\ ~IsMalware(v) /\ Grave(v) => HasGrave(n)
<1> DEFINE n == Entered(g, v)
<1>1. /\ g = [seen |-> g.seen, versions |-> g.versions, cve |-> g.cve, mal |-> g.mal]
      /\ IsList(g.cve) /\ IsList(g.mal)
  BY DEF IsGroup
<1>2. CASE IsMalware(v)
  <2>1. n = [g EXCEPT !.mal = Append(@, v)]
    BY <1>2 DEF Entered
  <2> HIDE DEF n
  <2>2. n.cve = g.cve /\ n.mal = Append(g.mal, v)
        /\ n = [seen |-> n.seen, versions |-> n.versions, cve |-> n.cve, mal |-> n.mal]
    BY <1>1, <2>1
  <2>3. IsList(n.mal) /\ ToSet(n.mal) = ToSet(g.mal) \cup {v}
    BY <1>1, <2>2, Appended
  <2>4. Kept(n) = Kept(g) \cup {v}
    BY <2>2, <2>3 DEF Kept
  <2> QED BY <1>1, <1>2, <2>2, <2>3, <2>4 DEF IsGroup, HasMal, HasGrave, n
<1>3. CASE ~IsMalware(v)
  <2>1. n = [g EXCEPT !.cve = Append(@, v)]
    BY <1>3 DEF Entered
  <2> HIDE DEF n
  <2>2. n.mal = g.mal /\ n.cve = Append(g.cve, v)
        /\ n = [seen |-> n.seen, versions |-> n.versions, cve |-> n.cve, mal |-> n.mal]
    BY <1>1, <2>1
  <2>3. IsList(n.cve) /\ ToSet(n.cve) = ToSet(g.cve) \cup {v}
    BY <1>1, <2>2, Appended
  <2>4. Kept(n) = Kept(g) \cup {v}
    BY <2>2, <2>3 DEF Kept
  <2> QED BY <1>1, <1>3, <2>2, <2>3, <2>4 DEF IsGroup, HasMal, HasGrave, n
<1> QED BY <1>2, <1>3

\* Records of which the first takes up another: nothing grave is lost.
LEMMA MergedFirst ==
  ASSUME NEW s, IsList(s), s # <<>>, \A x \in ToSet(s) : IsRecord(x), NEW v, IsRecord(v)
  PROVE  LET t == [s EXCEPT ![1] = Merge(@, v)]
         IN  /\ IsList(t) /\ ToSet(t) # {} /\ \A x \in ToSet(t) : IsRecord(x)
             /\ (\E x \in ToSet(s) : Grave(x)) => \E x \in ToSet(t) : Grave(x)
             /\ Grave(v) => \E x \in ToSet(t) : Grave(x)
<1> DEFINE x == Merge(s[1], v)
           t == [s EXCEPT ![1] = x]
<1>1. /\ IsList(t) /\ DOMAIN t = DOMAIN s /\ 1 \in DOMAIN s /\ t[1] = x
      /\ \A i \in DOMAIN s : i # 1 => t[i] = s[i]
  <2> HIDE DEF x
  <2> QED BY Replaced
<1>2. IsRecord(s[1])
  BY <1>1 DEF ToSet
<1>3. IsRecord(x) /\ (Grave(s[1]) \/ Grave(v) => Grave(x))
  BY <1>2, MergeIs
<1>4. t = [s EXCEPT ![1] = Merge(@, v)]
  OBVIOUS
<1> HIDE DEF x, t
<1>5. x \in ToSet(t)
  BY <1>1 DEF ToSet
<1>6. \A y \in ToSet(t) : IsRecord(y)
  BY <1>1, <1>3 DEF ToSet
<1>7. ASSUME NEW y \in ToSet(s), Grave(y) PROVE \E z \in ToSet(t) : Grave(z)
  <2>1. PICK i \in DOMAIN s : y = s[i]
    BY DEF ToSet
  <2>2. i = 1 => Grave(x)
    BY <1>3, <1>7, <2>1
  <2>3. i # 1 => y \in ToSet(t)
    BY <1>1, <2>1 DEF ToSet
  <2> QED BY <1>5, <1>7, <2>2, <2>3
<1> QED BY <1>1, <1>3, <1>4, <1>5, <1>6, <1>7

\* A group that takes up a record, or enters it, loses nothing grave.
LEMMA TakenIs ==
  ASSUME NEW g, IsGroup(g), NEW v, IsRecord(v)
  PROVE  LET n == Taken(g, v)
         IN  /\ IsGroup(n) /\ (HasMal(g) => HasMal(n)) /\ (HasGrave(g) => HasGrave(n))
             /\ IsMalware(v) => HasMal(n)
             /\ ~IsMalware(v) /\ Grave(v) => HasGrave(n)
<1> DEFINE n == Taken(g, v)
<1>1. /\ g = [seen |-> g.seen, versions |-> g.versions, cve |-> g.cve, mal |-> g.mal]
      /\ IsList(g.cve) /\ IsList(g.mal)
      /\ \A x \in ToSet(g.cve) : IsRecord(x)
      /\ \A x \in ToSet(g.mal) : IsRecord(x)
  BY DEF IsGroup, Kept
<1>2. CASE IsMalware(v) /\ g.mal # <<>>
  <2> DEFINE t == [g.mal EXCEPT ![1] = Merge(@, v)]
  <2>1. n = [g EXCEPT !.mal = t]
    BY <1>2 DEF Taken
  <2>2. IsList(t) /\ ToSet(t) # {} /\ \A x \in ToSet(t) : IsRecord(x)
    BY <1>1, <1>2, MergedFirst
  <2> HIDE DEF n, t
  <2>3. n.cve = g.cve /\ n.mal = t
        /\ n = [seen |-> n.seen, versions |-> n.versions, cve |-> n.cve, mal |-> n.mal]
    BY <1>1, <2>1
  <2> QED BY <1>1, <1>2, <2>2, <2>3 DEF IsGroup, Kept, HasMal, HasGrave, n
<1>3. CASE ~IsMalware(v) /\ g.cve # <<>>
  <2> DEFINE t == [g.cve EXCEPT ![1] = Merge(@, v)]
  <2>1. n = [g EXCEPT !.cve = t]
    BY <1>3 DEF Taken
  <2>2. /\ IsList(t) /\ \A x \in ToSet(t) : IsRecord(x)
        /\ (\E x \in ToSet(g.cve) : Grave(x)) => \E x \in ToSet(t) : Grave(x)
        /\ Grave(v) => \E x \in ToSet(t) : Grave(x)
    BY <1>1, <1>3, MergedFirst
  <2> HIDE DEF n, t
  <2>3. n.mal = g.mal /\ n.cve = t
        /\ n = [seen |-> n.seen, versions |-> n.versions, cve |-> n.cve, mal |-> n.mal]
    BY <1>1, <2>1
  <2> QED BY <1>1, <1>3, <2>2, <2>3 DEF IsGroup, Kept, HasMal, HasGrave, n
<1>4. CASE ~(IsMalware(v) /\ g.mal # <<>>) /\ ~(~IsMalware(v) /\ g.cve # <<>>)
  <2>1. n = Entered(g, v)
    BY <1>4 DEF Taken
  <2> QED BY <2>1, EnteredIs
<1> QED BY <1>2, <1>3, <1>4

SomeMal(gs)   == \E k \in DOMAIN gs.at : HasMal(gs.at[k])
SomeGrave(gs) == \E k \in DOMAIN gs.at : HasGrave(gs.at[k])

\* An empty group has nothing.
LEMMA NoGroupIs == IsGroup(NoGroup) /\ ~HasMal(NoGroup) /\ ~HasGrave(NoGroup)
<1>1. <<>> \in Seq({}) /\ DOMAIN <<>> = {}
  OBVIOUS
<1>2. IsList(<<>>) /\ ToSet(<<>>) = {}
  BY <1>1, ListOf DEF ToSet
<1>3. NoGroup.cve = <<>> /\ NoGroup.mal = <<>>
      /\ NoGroup = [seen |-> NoGroup.seen, versions |-> NoGroup.versions, cve |-> NoGroup.cve, mal |-> NoGroup.mal]
  BY DEF NoGroup
<1>4. Kept(NoGroup) = {}
  BY <1>2, <1>3 DEF Kept
<1> QED BY <1>2, <1>3, <1>4 DEF IsGroup, HasMal, HasGrave

\* Grouping one more record, under whatever key, loses nothing grave.
LEMMA GroupKeeps ==
  ASSUME NEW gs, \A k \in DOMAIN gs.at : IsGroup(gs.at[k]), NEW v, IsRecord(v)
  PROVE  LET n == Group(gs, v)
         IN  /\ \A k \in DOMAIN n.at : IsGroup(n.at[k])
             /\ SomeMal(gs) \/ IsMalware(v) => SomeMal(n)
             /\ SomeGrave(gs) \/ (~IsMalware(v) /\ Grave(v)) => SomeGrave(n)
<1> DEFINE hit  == Where(Order, LAMBDA i : i \in v.ids /\ i \in DOMAIN gs.alias)
           key  == IF hit = <<>> THEN v.id ELSE gs.alias[hit[1]]
           old  == IF key \in DOMAIN gs.at THEN gs.at[key] ELSE NoGroup
           met  == v.ids \cap old.seen # {}
           seen == old.seen \cup v.ids
           versions == old.versions \cup ({v.slot[2]} \ {""})
           next == [old EXCEPT !.seen = seen, !.versions = versions]
           new  == IF met THEN Taken(next, v) ELSE Entered(next, v)
           alias == [i \in v.ids |-> key] @@ gs.alias
           n == Group(gs, v)
<1>1. n = [alias |-> alias, at |-> With(gs.at, key, new)]
  BY DEF Group
<1>2. IsGroup(old)
  BY NoGroupIs
<1>3. HasMal(old) \/ HasGrave(old) => key \in DOMAIN gs.at
  BY NoGroupIs
<1>4. key \in DOMAIN gs.at => old = gs.at[key]
  OBVIOUS
<1> HIDE DEF alias, key, n
<1>5. n.at = With(gs.at, key, new)
  <2> HIDE DEF new
  <2> QED BY <1>1
<1> HIDE DEF old
<1>6. IsGroup(next) /\ HasMal(next) = HasMal(old) /\ HasGrave(next) = HasGrave(old)
  <2>1. old = [seen |-> old.seen, versions |-> old.versions, cve |-> old.cve, mal |-> old.mal]
    BY <1>2 DEF IsGroup
  <2> HIDE DEF seen, versions
  <2>a. next = [old EXCEPT !.seen = seen, !.versions = versions]
    OBVIOUS
  <2> HIDE DEF next
  <2>2. next.cve = old.cve /\ next.mal = old.mal
        /\ next = [seen |-> next.seen, versions |-> next.versions, cve |-> next.cve, mal |-> next.mal]
    BY <2>1, <2>a
  <2> QED BY <1>2, <2>2 DEF IsGroup, HasMal, HasGrave, Kept
<1> HIDE DEF next, met
<1>7. /\ IsGroup(new) /\ (HasMal(next) => HasMal(new)) /\ (HasGrave(next) => HasGrave(new))
      /\ IsMalware(v) => HasMal(new)
      /\ ~IsMalware(v) /\ Grave(v) => HasGrave(new)
  BY <1>6, TakenIs, EnteredIs
<1> HIDE DEF new
<1>8. /\ DOMAIN n.at = DOMAIN gs.at \cup {key} /\ n.at[key] = new
      /\ \A k \in DOMAIN gs.at \ {key} : n.at[k] = gs.at[k]
  BY <1>5 DEF With
<1>9. \A k \in DOMAIN n.at : IsGroup(n.at[k])
  BY <1>7, <1>8
<1>10. SomeMal(gs) \/ IsMalware(v) => SomeMal(n)
  BY <1>3, <1>4, <1>6, <1>7, <1>8 DEF SomeMal
<1>11. SomeGrave(gs) \/ (~IsMalware(v) /\ Grave(v)) => SomeGrave(n)
  BY <1>3, <1>4, <1>6, <1>7, <1>8 DEF SomeGrave
<1> QED BY <1>9, <1>10, <1>11 DEF n

OfPackage(pkg, d, a, v) == IF v.slot[1] = pkg THEN Append(a, v) ELSE a
AtPackage == INSTANCE Folding WITH Op <- OfPackage
AboutPackage(vs, pkg) == Where(vs, LAMBDA v : v.slot[1] = pkg)

\* The records of one package.
LEMMA WherePackage ==
  ASSUME NEW vs, IsList(vs), NEW pkg
  PROVE  LET w == AboutPackage(vs, pkg)
         IN  /\ IsList(w) /\ ToSet(w) \subseteq ToSet(vs)
             /\ \A x \in ToSet(vs) : x.slot[1] = pkg => x \in ToSet(w)
<1> DEFINE n == Len(vs)
           w == AboutPackage(vs, pkg)
           T == ToSet(vs)
           P == {x \in T : x.slot[1] = pkg}
<1>1. n \in Nat /\ DOMAIN vs = 1..n
  BY Listing
<1>2. w = AtPackage!Folded(pkg, 0, <<>>, vs)
  BY DEF AboutPackage, Where, FoldLeft, MapThenFoldSet, Max, AtPackage!Folded, AtPackage!Top, OfPackage
<1>3. vs \in Seq(T) /\ \A i \in 1..n : vs[i] \in T
  BY <1>1 DEF IsList, ToSet, Range
<1>4. n = Len(vs)
  OBVIOUS
<1> HIDE DEF n, w, T
<1>5. PICK p : /\ p[0] = <<>>
               /\ \A k \in 0..(n - 1) : p[k + 1] = OfPackage(pkg, 0, p[k], vs[k + 1])
               /\ p[n] = w
  BY <1>1, <1>2, AtPackage!Steps
<1>6. \A k \in 0..(n - 1) : p[k + 1] = IF vs[k + 1] \in P THEN Append(p[k], vs[k + 1]) ELSE p[k]
  <2> SUFFICES ASSUME NEW k \in 0..(n - 1)
               PROVE  p[k + 1] = IF vs[k + 1] \in P THEN Append(p[k], vs[k + 1]) ELSE p[k]
    OBVIOUS
  <2>1. vs[k + 1] \in T
    BY <1>1, <1>3
  <2> QED BY <1>5, <2>1 DEF OfPackage
<1> HIDE DEF P
<1>7. w \in Seq(T) /\ AtPackage!IsSelection(vs, P, w)
  <2>1. /\ p[0] = <<>> /\ p[Len(vs)] = w
        /\ \A k \in 0..(Len(vs) - 1) : p[k + 1] = IF vs[k + 1] \in P THEN Append(p[k], vs[k + 1]) ELSE p[k]
    BY <1>4, <1>5, <1>6
  <2> QED BY <1>3, <2>1, AtPackage!Selects
<1>8. ASSUME NEW x \in T, x.slot[1] = pkg PROVE x \in ToSet(w)
  <2>1. x \in P
    BY <1>8 DEF P
  <2>2. PICK i \in DOMAIN vs : x = vs[i]
    BY DEF T, ToSet
  <2>3. \E j \in DOMAIN w : w[j] = x
    BY <1>7, <2>1, <2>2 DEF AtPackage!IsSelection
  <2> QED BY <2>3 DEF ToSet
<1>9. IsList(w) /\ ToSet(w) \subseteq T
  BY <1>7, ListOf DEF ToSet
<1> QED BY <1>8, <1>9 DEF w, T

Grouping(c, d, gs, v) == Group(gs, v)
Grouped == INSTANCE Folding WITH Op <- Grouping

GroupsOf(vs) == FoldLeft(Group, [alias |-> [i \in {} |-> ""], at |-> [k \in {} |-> NoGroup]], vs)

\* Malware among the records leaves a group with malware, a grave record one
\* with a grave record.
LEMMA GroupsOfHave ==
  ASSUME NEW vs, AllRecords(vs), NEW v \in ToSet(vs)
  PROVE  /\ IsMalware(v) => SomeMal(GroupsOf(vs))
         /\ ~IsMalware(v) /\ Grave(v) => SomeGrave(GroupsOf(vs))
<1> DEFINE n == Len(vs)
           none == [alias |-> [i \in {} |-> ""], at |-> [k \in {} |-> NoGroup]]
<1>1. n \in Nat /\ DOMAIN vs = 1..n /\ \A i \in 1..n : IsRecord(vs[i])
  <2>1. n \in Nat /\ DOMAIN vs = 1..n
    BY Listing DEF AllRecords
  <2> QED BY <2>1 DEF AllRecords, ToSet
<1>2. GroupsOf(vs) = Grouped!Folded(0, 0, none, vs)
  BY DEF GroupsOf, FoldLeft, MapThenFoldSet, Max, Grouped!Folded, Grouped!Top, Grouping
<1>3. DOMAIN none.at = {}
  OBVIOUS
<1> HIDE DEF n, none
<1>4. PICK p : /\ p[0] = none
               /\ \A k \in 0..(n - 1) : p[k + 1] = Grouping(0, 0, p[k], vs[k + 1])
               /\ p[n] = GroupsOf(vs)
  BY <1>1, <1>2, Grouped!Steps
<1>5. PICK i \in 1..n : v = vs[i]
  BY <1>1 DEF ToSet
<1> DEFINE Good(k) == /\ \A key \in DOMAIN p[k].at : IsGroup(p[k].at[key])
                      /\ i <= k /\ IsMalware(v) => SomeMal(p[k])
                      /\ i <= k /\ ~IsMalware(v) /\ Grave(v) => SomeGrave(p[k])
           S == {k \in 0..n : Good(k)}
<1>6. 0 \in S
  <2>1. 0 \in 0..n /\ ~(i <= 0)
    BY <1>1
  <2>2. Good(0)
    BY <1>3, <1>4, <2>1
  <2> QED BY <2>1, <2>2
<1>7. ASSUME NEW k \in 0..(n - 1), k \in S PROVE k + 1 \in S
  <2> DEFINE x == vs[k + 1]
             a == p[k]
             b == p[k + 1]
  <2>0. k + 1 \in 1..n /\ k + 1 \in 0..n /\ IsRecord(x)
    BY <1>1
  <2>1. Good(k)
    BY <1>7
  <2>2. b = Group(a, x)
    BY <1>4 DEF Grouping
  <2>3. i <= k + 1 => i <= k \/ x = v
    BY <1>5
  <2> HIDE DEF x
  <2>4. /\ \A key \in DOMAIN b.at : IsGroup(b.at[key])
        /\ SomeMal(a) \/ IsMalware(x) => SomeMal(b)
        /\ SomeGrave(a) \/ (~IsMalware(x) /\ Grave(x)) => SomeGrave(b)
    <3> HIDE DEF a, b
    <3> QED BY <2>0, <2>1, <2>2, GroupKeeps DEF a
  <2>5. Good(k + 1)
    BY <2>1, <2>3, <2>4
  <2> HIDE DEF Good
  <2> QED BY <2>0, <2>5
<1>8. n \in S
  <2> HIDE DEF S
  <2> QED BY <1>1, <1>6, <1>7, Grouped!Induct
<1> QED BY <1>1, <1>4, <1>8

\* The same of the records of a map: some group of its package shows it.
LEMMA GroupsHave ==
  ASSUME NEW m, IsMap(m), NEW v \in All(m)
  PROVE  /\ IsMalware(v) => \E g \in Groups(m) : g.mal # {}
         /\ ~IsMalware(v) /\ Grave(v) => \E g \in Groups(m) : \E x \in g.cve : Grave(x)
<1> DEFINE all == Records(m)
           Of(pkg) == GroupsOf(AboutPackage(all, pkg))
           Set(p, k) == [pkg |-> p, versions |-> Of(p).at[k].versions, cve |-> ToSet(Of(p).at[k].cve),
                         mal |-> ToSet(Of(p).at[k].mal)]
           pkgs == {m.slots[i][1] : i \in DOMAIN m.slots}
           pkg == v.slot[1]
           w == AboutPackage(all, pkg)
<1>1. Groups(m) = UNION {{Set(p, k) : k \in DOMAIN Of(p).at} : p \in pkgs}
  BY DEF Groups, GroupsOf, AboutPackage
<1>2. IsList(all) /\ ToSet(all) = All(m)
  BY RecordsAre
<1>3. \A x \in All(m) : IsRecord(x)
  BY DEF All, IsMap, IsBucket
<1>4. IsList(w) /\ ToSet(w) \subseteq ToSet(all) /\ v \in ToSet(w)
  <2> HIDE DEF all
  <2> QED BY <1>2, WherePackage
<1>5. AllRecords(w)
  BY <1>2, <1>3, <1>4 DEF AllRecords
<1> HIDE DEF w
<1>6. /\ IsMalware(v) => SomeMal(GroupsOf(w))
      /\ ~IsMalware(v) /\ Grave(v) => SomeGrave(GroupsOf(w))
  BY <1>4, <1>5, GroupsOfHave
<1>7. pkg \in pkgs
  <2>1. v.slot \in DOMAIN m.at
    BY DEF All, IsMap, IsBucket
  <2> QED BY <2>1 DEF IsMap, ToSet
<1>8. Of(pkg) = GroupsOf(w)
  BY DEF w
<1> HIDE DEF Of, pkgs, pkg
<1>9. \A k \in DOMAIN Of(pkg).at : Set(pkg, k) \in Groups(m)
  <2> HIDE DEF Set
  <2> QED BY <1>1, <1>7
<1>10. \A k : Set(pkg, k).mal = ToSet(Of(pkg).at[k].mal) /\ Set(pkg, k).cve = ToSet(Of(pkg).at[k].cve)
  OBVIOUS
<1> HIDE DEF Set
<1>11. IsMalware(v) => \E g \in Groups(m) : g.mal # {}
  BY <1>6, <1>8, <1>9, <1>10 DEF SomeMal, HasMal
<1>12. ~IsMalware(v) /\ Grave(v) => \E g \in Groups(m) : \E x \in g.cve : Grave(x)
  BY <1>6, <1>8, <1>9, <1>10 DEF SomeGrave, HasGrave
<1> QED BY <1>11, <1>12

-----------------------------------------------------------------------------
(* The scan.                                                                *)

MapOf(r) ==
    LET first == IF r.depscan = "ok" THEN DepscanMap(r) ELSE NoMap
    IN  IF r.osv = "json" THEN PutAll(first, OsvRecords(r)) ELSE first

\* What the scanners name first is in the map the groups are made of.
LEMMA MapOfHas ==
  ASSUME NEW r, RepositoryOK(r)
  PROVE  /\ IsMap(MapOf(r))
         /\ r.depscan = "ok" =>
               \A k \in DOMAIN r.vdrs : \A i \in DOMAIN r.vdrs[k] :
                  First(r, k, i) => r.vdrs[k][i] \in All(MapOf(r))
         /\ r.osv = "json" =>
               \A i \in DOMAIN r.found :
                  NewIn(r.found, i) /\ (\A k \in DOMAIN r.vdrs : Apart(r.vdrs[k], r.found[i]))
                     => \E x \in All(MapOf(r)) : x.ids = r.found[i].ids
<1> DEFINE first == IF r.depscan = "ok" THEN DepscanMap(r) ELSE NoMap
           rs == OsvRecords(r)
<1>1. /\ IsMap(first) /\ Ids(first) \subseteq UNION {IdsOf(r.vdrs[k]) : k \in DOMAIN r.vdrs}
      /\ r.depscan = "ok" =>
            \A k \in DOMAIN r.vdrs : \A i \in DOMAIN r.vdrs[k] :
               First(r, k, i) => r.vdrs[k][i] \in All(first)
  BY DepscanIs, NoMapIs DEF First
<1>2. AllRecords(r.found)
  BY DEF RepositoryOK, AllRecords
<1>3. MapOf(r) = IF r.osv = "json" THEN PutAll(first, rs) ELSE first
  BY DEF MapOf
<1>4. /\ AllRecords(rs)
      /\ \A x, y \in ToSet(rs) : x.slot = y.slot => x = y \/ x.ids \cap y.ids = {}
      /\ \A i \in DOMAIN r.found : NewIn(r.found, i) => \E x \in ToSet(rs) : x.ids = r.found[i].ids
  BY <1>2, OsvIs
<1> HIDE DEF first, rs
<1>5. IsMap(PutAll(first, rs)) /\ All(first) \subseteq All(PutAll(first, rs))
  BY <1>1, <1>4, PutAllKeeps
<1>6. ASSUME r.osv = "json", NEW i \in DOMAIN r.found, NewIn(r.found, i),
             \A k \in DOMAIN r.vdrs : Apart(r.vdrs[k], r.found[i])
      PROVE  \E x \in All(MapOf(r)) : x.ids = r.found[i].ids
  <2>1. PICK x \in ToSet(rs) : x.ids = r.found[i].ids
    BY <1>4, <1>6
  <2>2. \A k \in DOMAIN r.vdrs : \A y \in ToSet(r.vdrs[k]) : y.ids \cap x.ids = {}
    BY <1>6, <2>1 DEF Apart, ToSet
  <2>3. x.ids \cap Ids(first) = {}
    BY <1>1, <2>2 DEF IdsOf
  <2>4. PICK j \in DOMAIN rs : rs[j] = x
    BY DEF ToSet
  <2>5. DOMAIN rs = 1..Len(rs) /\ Len(rs) \in Nat
    BY <1>4, Listing DEF AllRecords
  <2>6. \A l \in 1..(j - 1) : rs[l].slot = rs[j].slot => rs[l] = rs[j] \/ rs[l].ids \cap rs[j].ids = {}
    BY <1>4, <2>5 DEF ToSet
  <2>7. x \in All(PutAll(first, rs))
    BY <1>1, <1>4, <2>3, <2>4, <2>6, PutAllEnters
  <2> QED BY <1>3, <1>6, <2>1, <2>7
<1> QED BY <1>1, <1>3, <1>5, <1>6

\* The result of the scan shows malware and grave records.
LEMMA ScaFinds ==
  ASSUME NEW r, RepositoryOK(r), ScanSucceeds(r)
  PROVE  /\ SCA(r).repo = TRUE /\ SCA(r).success = TRUE
         /\ \A v \in All(MapOf(r)) : IsMalware(v) => SCA(r).malware = TRUE
         /\ \A v \in All(MapOf(r)) :
               ~IsMalware(v) /\ Grave(v) => \E h \in SCA(r).highs : h.reachable = TRUE
         /\ \A x \in Dependencies(r) :
               x.key[1] \in {"npm", "pypi"} /\ <<x.key[1], x.key[2]>> \in r.listed => SCA(r).malware = TRUE
<1> DEFINE groups == Vulnerabilities(r)
           deps == IF r.broken THEN {} ELSE Dependencies(r)
           High(g, v) == [pkg |-> g.pkg, id |-> v.id, direct |-> ~v.transitive, reachable |-> v.reachable, used |-> v.used]
           highs == UNION {{High(g, v) : v \in {w \in g.cve : w.high}} : g \in groups}
           malware == Listed(r, groups, deps) # {} \/ \E g \in groups : g.mal # {}
           s == SCA(r)
<1>1. s = [repo |-> TRUE, success |-> ScanSucceeds(r), malware |-> malware, highs |-> highs]
  BY DEF SCA
<1>2. groups = Groups(MapOf(r))
  BY DEF Vulnerabilities, MapOf
<1>3. deps = Dependencies(r)
  BY DEF ScanSucceeds
<1>4. \A v \in All(MapOf(r)) : IsMalware(v) => malware
  BY <1>2, MapOfHas, GroupsHave
<1>5. \A x \in Dependencies(r) :
         x.key[1] \in {"npm", "pypi"} /\ <<x.key[1], x.key[2]>> \in r.listed => malware
  BY <1>3 DEF Listed
<1>6. ASSUME NEW v \in All(MapOf(r)), ~IsMalware(v), Grave(v) PROVE \E h \in highs : h.reachable = TRUE
  <2>1. PICK g \in groups : \E x \in g.cve : Grave(x)
    BY <1>2, <1>6, MapOfHas, GroupsHave
  <2>2. PICK x \in g.cve : x.high /\ x.reachable
    BY <2>1 DEF Grave
  <2>3. High(g, x) \in highs
    <3> HIDE DEF High, groups
    <3> QED BY <2>2
  <2>4. High(g, x).reachable = x.reachable
    OBVIOUS
  <2> HIDE DEF highs, High
  <2>5. High(g, x).reachable = TRUE
    BY <2>2, <2>4
  <2> QED BY <2>3, <2>5
<1> HIDE DEF s, malware, highs
<1>7. s.repo = TRUE /\ s.success = ScanSucceeds(r) /\ s.highs = highs
  BY <1>1
<1>8. s.malware = malware
  BY <1>1
<1>9. malware => s.malware = TRUE
  BY <1>8 DEF malware
<1> QED BY <1>4, <1>5, <1>6, <1>7, <1>9 DEF s

-----------------------------------------------------------------------------
(* What the report says of the world.                                       *)

\* A remote server that is allowed was vouched for, over a sound transport and
\* with OAuth among its modes of authentication, if any was seen (the runners, their
\* tree and the decision), whatever else is known of it.
THEOREM AllowedIsVouchedFor == Spec => []AllowedRemoteIsOfficial
<1>1. IInv => AllowedRemoteIsOfficial
  <2> SUFFICES ASSUME IInv, Assessed("allow"), Remote(env.server) PROVE
           /\ env.server.human = "official" \/ env.match = "official"
           /\ env.server.url = "ok" =>
                 env.net.tls # "badcert" /\ ~(env.net.tls = "down" /\ env.net.scheme = "http")
           /\ evidence.auth.modes # {} => "oauth" \in evidence.auth.modes
    BY DEF AllowedRemoteIsOfficial
  <2>1. Report(evidence).decision = "allow"
    BY ReportedIs DEF Assessed
  <2> DEFINE c == evidence.classification
             f == evidence.fingerprint
             a == evidence.auth
  <2>2. c = Classification(env) /\ c # Raises
    BY ReportedIs, OneResult DEF Assessed, Extractors, Extracted
  <2>3. f = Fingerprint(env) /\ f # Raises
    BY ReportedIs, OneResult DEF Assessed, Extractors, Extracted
  <2>4. \E sample : a = AuthModes(env, sample)
    BY ReportedIs DEF Assessed, Extractors, Extracted, Results
  <2>5. ~Local(env.server)
    BY DEF Remote
  <2>6. env.server.human = "official" \/ env.match = "official"
    <3>1. c.local = Local(env.server) /\ c.official = Official(env)
      BY <2>2 DEF Classification
    <3>2. Hosting(c).veto \notin {Failure, Warning}
      BY <2>1, AllowedHasNoVeto
    <3>3. ~c.local /\ ~c.official => Hosting(c) = Out(100, Warning)
      BY DEF Hosting
    <3>4. Official(env)
      BY <2>5, <3>1, <3>2, <3>3 DEF Out
    <3> QED BY <3>4 DEF Official
  <2>7. ASSUME env.server.url = "ok", env.net.tls = "badcert" \/ (env.net.tls = "down" /\ env.net.scheme = "http")
        PROVE  FALSE
    <3>1. f = [local |-> Local(env.server), url |-> env.server.url # "none",
               level |-> NoTlsLevel(env.net), tls |-> "none"]
      BY <2>3, <2>5, <2>7 DEF Fingerprint, Remote
    <3>2. NoTlsLevel(env.net) \in {"invalid_cert", "http_only"}
      BY <2>7 DEF NoTlsLevel
    <3>3. ~f.local /\ f.url /\ f.level \in {"invalid_cert", "http_only"}
      <4> HIDE DEF f
      <4>1. f.local = Local(env.server) /\ f.level = NoTlsLevel(env.net)
        BY <3>1
      <4>2. f.url = (env.server.url # "none")
        BY <3>1
      <4>3. env.server.url # "none"
        BY <2>7
      <4> QED BY <2>5, <3>2, <4>1, <4>2, <4>3
    <3> HIDE DEF f
    <3>4. LevelVeto(f) = Failure
      BY <3>3 DEF LevelVeto
    <3>5. Transport(f) = Out(LevelScore[f.level], LevelVeto(f))
      BY <3>3 DEF Transport
    <3> QED BY <2>1, <3>4, <3>5, AllowedHasNoVeto DEF Out, f
  <2>8. ASSUME a.modes # {} PROVE "oauth" \in a.modes
    <3>1. a.local = Local(env.server)
      BY <2>4 DEF AuthModes
    <3>2. a.modes # {} /\ ~a.local /\ "oauth" \notin a.modes => AuthStrength(a).veto = Warning
      BY DEF AuthStrength, Out
    <3> QED BY <2>1, <2>5, <2>8, <3>1, <3>2, AllowedHasNoVeto
  <2> QED BY <2>6, <2>7, <2>8
<1> QED BY <1>1, Invariance, PTL

\* A dependency metric that has a score rests on a scanner that answered
\* (sca_pipeline.py, malicious_deps.py, vulnerability_risk.py).
THEOREM VerdictsHaveSources == Spec => []DependencyVerdictHasSource
<1>1. IInv => DependencyVerdictHasSource
  <2> SUFFICES ASSUME IInv, Reported, Scored(Malicious(evidence.sca)) \/ Scored(Vulnerability(evidence.sca))
               PROVE  env.repo.depscan = "ok" \/ env.repo.osv = "json"
    BY DEF DependencyVerdictHasSource
  <2> DEFINE s == evidence.sca
  <2>1. s = ScaResults(env)
    BY ReportedIs, OneResult DEF Extractors, Extracted
  <2>2. s.repo /\ s.success
    BY DEF Malicious, Vulnerability, Scored, Silent
  <2>3. env.server.repo_path
    BY <2>1, <2>2 DEF ScaResults
  <2>4. s.success = ScanSucceeds(env.repo)
    BY <2>1, <2>3 DEF ScaResults, SCA
  <2> QED BY <2>2, <2>4 DEF ScanSucceeds
<1> QED BY <1>1, Invariance, PTL

\* The repository is one that a scan can be asked about, cloned or on disk.
Repository == "repo" \in DOMAIN env /\ RepositoryOK(env.repo)

LEMMA WorldStays == Spec => []Repository
<1>1. Init => Repository
  BY WorldsOK DEF Init, Repository
<1>2. Repository /\ [Next]_vars => Repository'
  <2> SUFFICES ASSUME Repository, [Next]_vars PROVE Repository'
    OBVIOUS
  <2>1. CASE env' = env
    BY <2>1 DEF Repository
  <2>2. CASE env' = [env EXCEPT !.server.repo_path = TRUE]
    <3>1. DOMAIN env' = DOMAIN env /\ env'.repo = env.repo
      BY <2>2 DEF Repository
    <3> QED BY <3>1 DEF Repository
  <2> QED
    BY <2>1, <2>2 DEF Next, vars, Refuse, Start, CloneBegins, CloneSucceeds, CloneFails, Fork, ChildEnds,
                      Finish, Break, BreakLate, Cancel, Unwound, Assess
<1> QED BY <1>1, <1>2, PTL DEF Spec

\* No package that a lockfile lists or a manifest asks for is lost, in whatever
\* order versions and ranges of it are entered (_upsert).
THEOREM NothingIsLost == Spec => []NoPackageLost
<1>1. Repository => NoPackageLost
  <2> SUFFICES ASSUME Repository
               PROVE  LET r    == env.repo
                          kept == {<<x.key[1], x.key[2]>> : x \in Dependencies(r)}
                      IN  /\ DirectNames(r) \cup TransitiveNames(r) \subseteq kept
                          /\ {<<r.asked[i][1], r.asked[i][2]>> : i \in DOMAIN r.asked} \subseteq kept
    BY DEF NoPackageLost
  <2> QED BY DependenciesAre DEF Repository
<1> QED BY <1>1, WorldStays, PTL

\* Of a repository that was scanned the report has what the scan gave.
LEMMA ScanIs ==
  ASSUME IInv, Reported, env.server.repo_path
  PROVE  evidence.sca = SCA(env.repo)
<1>1. evidence["sca"] \in Results("sca")
  BY ReportedIs DEF Extractors
<1>2. evidence.sca = Extracted("sca", env, {})
  BY <1>1, OneResult DEF Extractors
<1> QED BY <1>2 DEF Extracted, ScaResults

\* Malware blocks: the first record of its identifiers, or a dependency that is
\* on a list.
LEMMA MalwareIsBlocked == IInv /\ Repository => MalwareBlocks
<1> SUFFICES ASSUME IInv, Repository, Reported, env.server.repo_path, ScanSucceeds(env.repo), NamedMalware(env.repo)
             PROVE  report.decision = "block"
  BY DEF MalwareBlocks
<1> DEFINE r == env.repo
           s == SCA(r)
<1>1. RepositoryOK(r) /\ evidence.sca = s
  BY ScanIs DEF Repository
<1>2. s.malware = TRUE
  <2>1. CASE r.depscan = "ok" /\ \E k \in DOMAIN r.vdrs : \E i \in DOMAIN r.vdrs[k] :
                                   IsMalware(r.vdrs[k][i]) /\ First(r, k, i)
    <3>1. PICK k \in DOMAIN r.vdrs : \E i \in DOMAIN r.vdrs[k] : IsMalware(r.vdrs[k][i]) /\ First(r, k, i)
      BY <2>1
    <3>2. PICK i \in DOMAIN r.vdrs[k] : IsMalware(r.vdrs[k][i]) /\ First(r, k, i)
      BY <3>1
    <3>3. r.vdrs[k][i] \in All(MapOf(r))
      BY <1>1, <2>1, <3>1, <3>2, MapOfHas
    <3> QED BY <1>1, <3>2, <3>3, ScaFinds
  <2>2. CASE r.osv = "json" /\ \E i \in DOMAIN r.found :
                  /\ IsMalware(r.found[i]) /\ NewIn(r.found, i)
                  /\ \A k \in DOMAIN r.vdrs : Apart(r.vdrs[k], r.found[i])
    <3>1. PICK i \in DOMAIN r.found : /\ IsMalware(r.found[i]) /\ NewIn(r.found, i)
                                     /\ \A k \in DOMAIN r.vdrs : Apart(r.vdrs[k], r.found[i])
      BY <2>2
    <3>2. PICK x \in All(MapOf(r)) : x.ids = r.found[i].ids
      BY <1>1, <2>2, <3>1, MapOfHas
    <3>3. IsMalware(x)
      BY <3>1, <3>2 DEF IsMalware
    <3> QED BY <1>1, <3>2, <3>3, ScaFinds
  <2>3. CASE \E x \in Dependencies(r) : x.key[1] \in {"npm", "pypi"} /\ <<x.key[1], x.key[2]>> \in r.listed
    BY <1>1, <2>3, ScaFinds
  <2> QED BY <2>1, <2>2, <2>3 DEF NamedMalware
<1>3. s.repo = TRUE /\ s.success = TRUE
  BY <1>1, ScaFinds
<1> HIDE DEF s
<1>4. Malicious(s).veto = Failure
  BY <1>2, <1>3 DEF Malicious, Out
<1> QED BY <1>1, <1>4, FailureBlocks, ReportedIs

\* So does a reachable vulnerability of the highest severities.
LEMMA ReachableIsBlocked == IInv /\ Repository => ReachableHighBlocks
<1> SUFFICES ASSUME IInv, Repository, Reported, env.server.repo_path, ScanSucceeds(env.repo),
                    env.repo.depscan = "ok",
                    NEW k \in DOMAIN env.repo.vdrs, NEW i \in DOMAIN env.repo.vdrs[k],
                    LET v == env.repo.vdrs[k][i]
                    IN  v.high /\ v.reachable /\ ~IsMalware(v) /\ First(env.repo, k, i)
             PROVE  report.decision = "block"
  BY DEF ReachableHighBlocks
<1> DEFINE r == env.repo
           s == SCA(r)
           v == r.vdrs[k][i]
<1>1. RepositoryOK(r) /\ evidence.sca = s
  BY ScanIs DEF Repository
<1>2. v \in All(MapOf(r))
  BY <1>1, MapOfHas
<1>3. ~IsMalware(v) /\ Grave(v)
  BY DEF Grave
<1>4. /\ s.repo = TRUE /\ s.success = TRUE
      /\ \E h \in s.highs : h.reachable = TRUE
  BY <1>1, <1>2, <1>3, ScaFinds
<1> HIDE DEF s
<1>5. Vulnerability(s).veto = Failure
  BY <1>4 DEF Vulnerability, Out
<1> QED BY <1>1, <1>5, FailureBlocks, ReportedIs

\* A leak that the judge was shown and confirmed blocks.
LEMMA LeakIsBlocked == IInv => SecretsBlock
<1> SUFFICES ASSUME IInv, Reported, env.server.repo_path, env.gitleaks = "leaks", Answers(env.judge),
                    Judged(env.leaks) \cap env.leaky # {}
             PROVE  report.decision = "block"
  BY DEF SecretsBlock
<1> DEFINE s == evidence.secrets
<1>1. s = SecretsScan(env) /\ s # Raises
  BY ReportedIs, OneResult DEF Extractors, Extracted
<1>2. Judged(env.leaks) # {} /\ Confirmed(env) # {}
  BY DEF Judged, Candidates, Confirmed
<1>3. s = [repo |-> env.server.repo_path, error |-> FALSE, found |-> Confirmed(env) # {}]
  BY <1>1, <1>2 DEF SecretsScan, Answers
<1>4. Secrets(s).veto = Failure
  <2> HIDE DEF s
  <2>1. s.repo = env.server.repo_path /\ s.error = FALSE
    BY <1>3
  <2>2. s.found = (Confirmed(env) # {})
    BY <1>3
  <2>3. s.repo /\ ~s.error /\ s.found
    BY <1>2, <2>1, <2>2
  <2> QED BY <2>3 DEF Secrets, Out
<1> QED BY <1>4, FailureBlocks, ReportedIs

\* Malware, a reachable vulnerability or a leak blocks, whatever the other
\* metrics say (sca_pipeline.py, the runners, engine.py, orchestrator.py).
THEOREM VetoesDecide == Spec => []VetoDecides
<1>1. IInv /\ Repository => VetoDecides
  BY MalwareIsBlocked, ReachableIsBlocked, LeakIsBlocked DEF VetoDecides
<1> QED BY <1>1, Invariance, WorldStays, PTL
=============================================================================
