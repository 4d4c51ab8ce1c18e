------------------------------ MODULE MCAnswers ------------------------------
(***************************************************************************)
(* What the program answers about packages, for TLC: findings from the     *)
(* registries, the approval of a policy bundle, the gates and exit codes   *)
(* that are read off a report, and the upload of an inventory.  They share *)
(* no state: a behaviour is about one of them, the others are quiet.       *)
(***************************************************************************)
EXTENDS RegistryIntel, ReleasePolicy, CollectorUpload, Verdicts, TLC

VARIABLE topic

-----------------------------------------------------------------------------
(* Worlds of the registries: two installations, of one extension or two.    *)

Dep(n, v, r) == [name |-> n, version |-> v, range |-> r]
MCOrder == <<Dep("pad", "1", "exact"), Dep("pad", "2", "caret"), Dep("left", "1", "exact"), Dep("left", "x", "tag")>>
MCDeclared == Range(MCOrder)
MCSecurity == [name |-> "pad", version |-> "1"]
MCIds == {"a.one", "b.two"}
Manifests == {m \in SUBSET MCDeclared : \A c, d \in m : c.name = d.name => c = d}
Packages == {Key(d) : d \in MCDeclared}
Records(k) == IF k = Key(MCOrder[2]) THEN {{}, {"security"}, {"other"}}
              ELSE IF k = MCSecurity THEN {{}, {"weak"}, {"security"}, {"other"}}
              ELSE IF k = Key(MCOrder[3]) THEN {{}, {"other"}} ELSE {{}}

Installation(i, m, r) == [id |-> i, deps |-> m, repo |-> r]
NoCalls == [once |-> {}, market |-> {}, page |-> {}, osv |-> {}, repos |-> {}]
QuietWorld == [installed |-> <<Installation("a.one", {}, "none")>>,
               pages |-> [i \in MCIds |-> {"verified"}], removed |-> [i \in MCIds |-> "none"],
               osv |-> [k \in Packages |-> {}], fails |-> NoCalls, empty |-> NoCalls]

\* How the calls S end: which fail, which an error body answers.
Endings(S) == {w \in [fails : SUBSET S, empty : SUBSET S] : w.fails \cap w.empty = {}}

OsvWorlds ==
    {[QuietWorld EXCEPT !.installed = <<Installation("a.one", m, "none"), Installation(j, n, "none")>>,
                        !.osv = o, !.fails.osv = w.fails, !.empty.osv = w.empty] :
       j \in MCIds, m \in Manifests, n \in Manifests, w \in Endings({0, 1}),
       o \in {g \in [Packages -> {{}, {"weak"}, {"security"}, {"other"}}] : \A k \in Packages : g[k] \in Records(k)}}

PageWorlds ==
    {[QuietWorld EXCEPT !.installed = <<Installation("a.one", {}, r), Installation(j, {}, q)>>,
                        !.pages["a.one"] = p, !.removed["a.one"] = t,
                        !.fails = [once |-> o.fails, market |-> b.fails, page |-> g.fails, osv |-> {}, repos |-> h.fails],
                        !.empty = [once |-> o.empty, market |-> b.empty, page |-> g.empty, osv |-> {}, repos |-> h.empty]] :
       j \in MCIds, r \in {"none", "archived"}, q \in {"none", "fresh"},
       p \in {{"absent"}, {"verified"}, {"few installs", "old"}}, t \in {"none", "malware", "spam"},
       o \in Endings({"removed"}), b \in Endings({0, 1}), g \in Endings({"a.one"}), h \in Endings({"archived"})}

-----------------------------------------------------------------------------
(* Bundles of three releases, two of the same bytes.                        *)

MCBytes == [r \in Releases |-> IF r = "r1" THEN "b1" ELSE "b2"]
Contracts(bad) == {NoContract} \cup [declared : {[to : S, scanned : {TRUE}] \cup b : S \in SUBSET Releases, b \in bad},
                                     review : BOOLEAN, present : {TRUE}]
NotScanned == {[to |-> "r1", scanned |-> FALSE]}
Bundles ==
    {b \in [entries : UNION {[L -> Contracts({{}, NotScanned})] : L \in {Releases, Releases \ {"r3"}}},
            sound : {Parts, Parts \ {"hash"}}] :
       \A r \in DOMAIN b.entries \ {"r3"} : NotScanned \cap b.entries[r].declared = {}}
QuietBundle == [entries |-> [r \in {} |-> NoContract], sound |-> Parts]

-----------------------------------------------------------------------------
(* Reports of at most two extensions.                                       *)

PlainExtensions == {e \in Extension : e.sha256 /\ e.osv = "completed" /\ ~e.dependencies /\ e.reputation = {}}
Lists == {<<>>} \cup {<<e>> : e \in Extension} \cup {<<e, f>> : e, f \in PlainExtensions}
QuietVerdict == [extensions |-> <<>>, failOn |-> "never"]

\* The worlds are of the types the theorems are about.
ASSUME WorldsOK ==
    /\ \A b \in Bundles \cup {QuietBundle} :
          b.sound \subseteq Parts /\ \E L \in SUBSET Releases : b.entries \in [L -> RelationshipContract]
    /\ [extensions : Lists, failOn : {"review", "block", "never"}] \cup {QuietVerdict} \subseteq Verdict
    /\ \A w \in OsvWorlds \cup PageWorlds \cup {QuietWorld} : InstalledOK(w.installed)

AnswersInit ==
    /\ topic \in {"registries", "policy", "report", "upload"}
    /\ IF topic = "registries" THEN intel \in OsvWorlds \cup PageWorlds ELSE intel = QuietWorld
    /\ IF topic = "policy" THEN bundle \in Bundles ELSE bundle = QuietBundle
    /\ IF topic = "report" THEN verdict \in [extensions : Lists, failOn : {"review", "block", "never"}]
       ELSE verdict = QuietVerdict
    /\ VerdictInit
    /\ topic # "report" => reportFile = {}
    /\ UploadInit

AnswersNext ==
    \/ topic = "report" /\ VerdictNext /\ UNCHANGED <<topic, intel, bundle, uploadVars>>
    \/ topic = "upload" /\ UploadNext /\ UNCHANGED <<topic, intel, bundle, verdictVars>>

Answers == AnswersInit /\ [][AnswersNext]_<<topic, intel, bundle, verdictVars, uploadVars>>
=============================================================================
