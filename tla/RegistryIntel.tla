---------------------------- MODULE RegistryIntel ----------------------------
(***************************************************************************)
(* What the registries say of the installed extensions:                    *)
(* src/src/ide_scanner/registry.py (enrich_registry and what it calls).    *)
(* The removed list, the Marketplace pages in batches, OSV in batches and  *)
(* the repositories.  A function of the world the scan meets: what is      *)
(* installed, what is known and how each call ends.  A call may fail, or   *)
(* be answered with the body of an HTTP error: curl, which is asked after  *)
(* urllib gave up, takes that for an answer, and it holds no row, result   *)
(* or field the callers look for (registry.py:1128-1159).  The texts of    *)
(* findings are left out; confidences follow from the rules.               *)
(***************************************************************************)
EXTENDS Integers, Sequences, FiniteSets, SequencesExt, ListOps

CONSTANTS
    ExtensionIds,
    Declared,       \* dependencies a manifest may declare: [name, version, range]
    DeclaredOrder,  \* the order of the dictionary: a sequence of Declared
    Security,       \* the placeholder: [name, version]
    Excused,        \* the record of it that is known to be wrong
    MalwareIds,     \* the other MAL- records
    MarketBatch,    \* MARKETPLACE_BATCH_SIZE
    OsvBatch        \* OSV_BATCH_SIZE

ASSUME DeclaredOK == IsList(DeclaredOrder) /\ Range(DeclaredOrder) = Declared
ASSUME RecordsOK  == Excused \notin MalwareIds
ASSUME BatchOK    == OsvBatch \in Nat \ {0}

\* The world: [installed, pages, removed, osv, fails, empty], the last two with
\* the calls that fail and those an error body answers.
VARIABLE intel

\* What is installed: a list of extensions with their manifests.
InstalledOK(exts) == IsList(exts) /\ \A e \in Range(exts) : e.deps \subseteq Declared

-----------------------------------------------------------------------------
(* OSV.                                                                     *)

\* _normalize_version: a path, a tag or a wildcard names no version.
Named(d) == d.range \in {"exact", "caret"}
Key(d) == [name |-> d.name, version |-> d.version]
Entries(e) == Where(DeclaredOrder, LAMBDA d : d \in e.deps /\ Named(d))

\* entries_by_extension: of two installations of one extension, the last.
EntriesOf(exts, id) ==
    LET last == CHOOSE i \in DOMAIN exts : exts[i].id = id /\ \A j \in DOMAIN exts : exts[j].id = id => j <= i
    IN  Entries(exts[last])

KeySeq(e) == [i \in DOMAIN Entries(e) |-> Key(Entries(e)[i])]
Keys(exts) == FoldLeft(LAMBDA seen, k : IF k \in Range(seen) THEN seen ELSE Append(seen, k),
                       <<>>, FlattenSeq([i \in DOMAIN exts |-> KeySeq(exts[i])]))

Batches(n, size) == {b \in 0..n : b * size < n}

AskedIn(b, i) == i \in (b * OsvBatch + 1)..(b * OsvBatch + OsvBatch)
Answered(keys) == Batches(Len(keys), OsvBatch) \ (intel.fails.osv \cup intel.empty.osv)

\* Variant: a batch that fails ends the questions.
VulnsToFailure(keys, k) ==
    {r \in UNION {intel.osv[keys[i]] : i \in DOMAIN keys} :
       \E i \in DOMAIN keys, b \in Answered(keys) :
          /\ (0..b) \cap intel.fails.osv = {}
          /\ AskedIn(b, i) /\ keys[i] = k /\ r \in intel.osv[keys[i]]}

\* vulns_by_key: a batch that fails or has no results is skipped, the others are
\* kept.
Vulns(keys, k) ==
    {r \in UNION {intel.osv[keys[i]] : i \in DOMAIN keys} :
       \E i \in DOMAIN keys, b \in Answered(keys) :
          AskedIn(b, i) /\ keys[i] = k /\ r \in intel.osv[keys[i]]}

\* Variant: the placeholder's package is excused, whatever its version.
FilterPackage(k, records) == {r \in records : ~(k.name = Security.name /\ r \in {Excused} \cup MalwareIds)}
Filter(k, records) == {r \in records : ~(k = Security /\ r = Excused)}

Finding(id, rule, severity, about) == [id |-> id, rule |-> rule, severity |-> severity, about |-> about]

DependencyFinding(id, d, records) ==
    IF records \cap (MalwareIds \cup {Excused}) # {}
    THEN Finding(id, "malicious-npm-dependency", "CRITICAL", d.name)
    ELSE Finding(id, "vulnerable-npm-dependency", IF d.range = "exact" THEN "HIGH" ELSE "MEDIUM", d.name)

OsvFindings(exts, id) ==
    {DependencyFinding(id, d, Filter(Key(d), Vulns(Keys(exts), Key(d)))) :
       d \in {c \in Range(EntriesOf(exts, id)) : Filter(Key(c), Vulns(Keys(exts), Key(c))) # {}}}

-----------------------------------------------------------------------------
(* The removed list, the Marketplace and the repositories.                  *)

RemovedFinding(id) ==
    LET type == IF "removed" \in intel.fails.once \cup intel.empty.once THEN "none" ELSE intel.removed[id] IN
    CASE type = "none" -> {}
      [] type = "malware" -> {Finding(id, "marketplace-removed-malware", "CRITICAL", "")}
      [] type = "suspicious" -> {Finding(id, "marketplace-removed-package", "HIGH", "")}
      [] OTHER -> {Finding(id, "marketplace-removed-package", "MEDIUM", "")}

UniqueIds(exts) == FoldLeft(LAMBDA seen, e : IF e.id \in Range(seen) THEN seen ELSE Append(seen, e.id), <<>>, exts)

\* A page is unknown when its batch fails and so does the question for it alone.
\* A batch without results says of each page that it is not there, and so does an
\* answer without results to the question for one page.
PlaceOf(exts, id) == (CHOOSE i \in DOMAIN UniqueIds(exts) : UniqueIds(exts)[i] = id) - 1
BatchOf(exts, id) == PlaceOf(exts, id) \div MarketBatch
InFailedBatch(exts, id) == BatchOf(exts, id) \in intel.fails.market
PageUnknown(exts, id) == InFailedBatch(exts, id) /\ id \in intel.fails.page
PageEmpty(exts, id) ==
    IF InFailedBatch(exts, id) THEN id \in intel.empty.page ELSE BatchOf(exts, id) \in intel.empty.market
SeenPage(exts, id) == IF PageEmpty(exts, id) THEN {"absent"} ELSE intel.pages[id]

PageFindings(id, p) ==
    IF "absent" \in p THEN {Finding(id, "marketplace-extension-not-found", "LOW", "")}
    ELSE {IF "verified" \in p THEN Finding(id, "marketplace-verified-publisher", "INFO", "")
          ELSE Finding(id, "marketplace-unverified-publisher", "LOW", "")}
         \cup {Finding(id, rule[2], "LOW", "") :
                 rule \in {r \in {<<{"few installs"}, "marketplace-low-install-count">>,
                                  <<{"low rating"}, "marketplace-low-rating">>,
                                  <<{"low rating", "many installs"}, "install-rating-mismatch">>,
                                  <<{"old"}, "marketplace-stale-extension">>,
                                  <<{"similar name"}, "marketplace-name-impersonation">>} : r[1] \subseteq p}}

\* _name_impersonation_evidence asks for fewer than 10000 installs.
Pages == {{"absent"}} \cup
         {p \in SUBSET {"verified", "few installs", "many installs", "low rating", "old", "similar name"} :
            "many installs" \in p => p \cap {"few installs", "similar name"} = {}}

RepositoryFindings(id, r) ==
    CASE r = "none" -> {}
      [] r = "archived" -> {Finding(id, "repo-archived", "LOW", ""), Finding(id, "repo-stale", "LOW", "")}
      [] r = "stale" -> {Finding(id, "repo-stale", "LOW", "")}
      [] OTHER -> {Finding(id, "repo-maintained", "INFO", "")}

-----------------------------------------------------------------------------
(* The enrichment.                                                          *)

Ids(exts) == {e.id : e \in Range(exts)}
AskedRepos(exts) == {e.repo : e \in Range(exts)} \ {"none"}

FindingsOf(exts, id) ==
    RemovedFinding(id)
      \cup OsvFindings(exts, id)
      \cup (IF PageUnknown(exts, id) THEN {} ELSE PageFindings(id, SeenPage(exts, id)))
      \cup UNION {RepositoryFindings(id, e.repo) :
                    e \in {x \in Range(exts) : x.id = id /\ x.repo \notin intel.fails.repos \cup intel.empty.repos}}

\* Variant: a page asked for alone is no error.
MarketErrorsQuiet(exts) == {}

\* Each failed batch, and each page that could not be had alone either.  An error
\* body is an answer, and no error tells of it.
MarketErrors(exts) ==
    {"marketplace" : i \in {j \in Ids(exts) : InFailedBatch(exts, j)}}

Errors(exts) ==
    (intel.fails.once \cap {"removed"})
      \cup MarketErrors(exts)
      \cup {"osv" : b \in Batches(Len(Keys(exts)), OsvBatch) \cap intel.fails.osv}
      \cup {"repository" : r \in AskedRepos(exts) \cap intel.fails.repos}

Findings(exts) == UNION {FindingsOf(exts, id) : id \in Ids(exts)}

-----------------------------------------------------------------------------
(* Properties.                                                              *)

\* A dependency that OSV lists as malware makes its extension CRITICAL unless
\* the batch it is asked in failed or came back empty: not an advisory that is excused for another
\* version, a batch that failed or came back empty beside its own or a second
\* extension with the same dependency keeps it back.  Of two installations of one
\* extension only the last is looked at (registry.py:618-679, 682-696).
MaliciousDependencyReported ==
    LET exts == intel.installed
        keys == Keys(exts)
        findings == Findings(exts)
    IN  \A i \in DOMAIN exts :
          (\A j \in DOMAIN exts : exts[j].id = exts[i].id => j <= i) =>
            \A d \in {c \in exts[i].deps : Named(c)} :
               /\ \E r \in intel.osv[Key(d)] : r \in MalwareIds \/ (r = Excused /\ Key(d) # Security)
               /\ \A h \in DOMAIN keys, b \in Batches(Len(keys), OsvBatch) :
                     AskedIn(b, h) /\ keys[h] = Key(d) => b \in Answered(keys)
               => Finding(exts[i].id, "malicious-npm-dependency", "CRITICAL", d.name) \in findings

\* What a source holds on an extension is among the findings, or an error names
\* the source, or an error body was taken for its answer.  The last is what the
\* code does where a server refuses (registry.py:86-99, 553-570, 646-652,
\* 717-732, 797-810, 1128-1159): such a source is silent, and the Marketplace
\* says of an extension it has that there is no page.
FailedSourceIsNamed ==
    LET exts == intel.installed
        keys == Keys(exts)
        findings == Findings(exts)
        errors == Errors(exts)
    IN  /\ \A id \in Ids(exts) :
             /\ (\E f \in findings : f.id = id /\ f.rule \in {"marketplace-removed-malware", "marketplace-removed-package"})
                  \/ intel.removed[id] = "none" \/ "removed" \in errors \cup intel.empty.once
             /\ PageFindings(id, intel.pages[id]) \subseteq findings
                  \/ "marketplace" \in errors \/ PageEmpty(exts, id)
        /\ \A k \in Range(keys) :
             intel.osv[k] \subseteq Vulns(keys, k) \/ "osv" \in errors
               \/ \E h \in DOMAIN keys, b \in intel.empty.osv : AskedIn(b, h) /\ keys[h] = k
        /\ \A e \in Range(exts) :
             RepositoryFindings(e.id, e.repo) \subseteq findings
               \/ "repository" \in errors \/ e.repo \in intel.empty.repos
=============================================================================
