----------------------------- MODULE ScaPipeline -----------------------------
(***************************************************************************)
(* What mcp/sca_pipeline.py makes of a repository: its dependencies, from  *)
(* the lockfiles of mcp/lockfiles, and their known vulnerabilities, from   *)
(* depscan, osv-scanner and the Datadog lists of malicious packages.       *)
(* A repository r is a record of what is on disk and of what the tools     *)
(* answer; a version is a member of a small set, of which some are ranges. *)
(***************************************************************************)
EXTENDS Integers, Sequences, FiniteSets, SequencesExt, ListOps

CONSTANTS
    Ranges,   \* version specifications that are ranges, "" (none) among them
    Bare,     \* Bare[v]: v as a manifest is read, without its leading operators
    Order     \* identifiers, in the order in which a set of them is iterated

ASSUME VersionsOK == "" \in Ranges /\ "" \in DOMAIN Bare /\ Bare[""] = ""

Names(entries) == {entries[i][1] : i \in DOMAIN entries}

-----------------------------------------------------------------------------
(* Lockfiles.  A file f says whether it is readable (ok), what it lists,    *)
(* which of that it calls the root's own (roots), and what the manifest     *)
(* beside it asks for (beside): sequences of <<name, version>>.             *)

Parsed(direct, all) == [direct |-> direct, all |-> all]
Nothing == Parsed(<<>>, <<>>)

\* Only == pins a requirement.
Pinned(entries) ==
    [i \in DOMAIN entries |->
        <<entries[i][1], IF entries[i][2] \in Ranges THEN "" ELSE entries[i][2]>>]

PackageLock(f) ==
    CASE ~f.ok          -> Nothing
      [] f.ok /\ f.old  -> Parsed(f.listed, f.listed)
      [] OTHER          -> Parsed(f.roots, f.roots \o f.listed)

YarnLock(f) == IF f.ok THEN Parsed(f.beside, f.listed \o f.beside) ELSE Nothing

PnpmLock(f) ==
    LET own == IF f.roots = <<>> THEN f.beside ELSE f.roots
    IN  IF f.ok THEN Parsed(own, f.listed \o own) ELSE Nothing

BunLock(f) == IF f.ok THEN Parsed(f.beside, f.listed \o f.beside) ELSE Nothing

\* A file that is not TOML is read as a list of requirements.
UvLock(f) ==
    LET own == Pinned(f.beside)
    IN  Parsed(own, (IF f.ok THEN f.listed ELSE Pinned(f.listed)) \o own)

RequirementsTxt(f) == IF f.ok THEN Parsed(Pinned(f.listed), <<>>) ELSE Nothing

CargoLock(f) == IF f.ok THEN Parsed(f.beside, f.listed \o f.beside) ELSE Nothing

\* roots: what go mod edit requires directly; listed: what go list prints.
GoMod(f) == IF f.ok THEN Parsed(f.roots, f.roots \o f.listed) ELSE Nothing

Kinds == {"package-lock.json", "yarn.lock", "pnpm-lock.yaml", "bun.lock", "uv.lock",
          "requirements.txt", "Cargo.lock", "go.mod"}

Ecosystem(kind) ==
    CASE kind \in {"package-lock.json", "yarn.lock", "pnpm-lock.yaml", "bun.lock"} -> "npm"
      [] kind \in {"uv.lock", "requirements.txt"} -> "pypi"
      [] kind = "Cargo.lock" -> "cargo"
      [] OTHER -> "golang"

Parse(kind, f) ==
    CASE kind = "package-lock.json" -> PackageLock(f)
      [] kind = "yarn.lock"         -> YarnLock(f)
      [] kind = "pnpm-lock.yaml"    -> PnpmLock(f)
      [] kind = "bun.lock"          -> BunLock(f)
      [] kind = "uv.lock"           -> UvLock(f)
      [] kind = "requirements.txt"  -> RequirementsTxt(f)
      [] kind = "Cargo.lock"        -> CargoLock(f)
      [] OTHER                      -> GoMod(f)

-----------------------------------------------------------------------------
(* Lockfiles that are generated.  r.made: the manifests whose tool, when it *)
(* is run, leaves its lockfile behind, whatever it returns.                 *)

JsLocks == <<"yarn.lock", "pnpm-lock.yaml", "bun.lock", "bun.lockb", "package-lock.json">>

JsLockOf(r) ==
    LET present == {i \in DOMAIN JsLocks : JsLocks[i] \in r.locks}
        first   == JsLocks[CHOOSE i \in present : \A j \in present : i <= j]
    IN  IF present # {} THEN IF first = "bun.lockb" THEN "bun.lock" ELSE first
        ELSE r.manager

Target(r, m) ==
    CASE m = "package.json"   -> JsLockOf(r)
      [] m = "pyproject.toml" -> "uv.lock"
      [] OTHER                -> "Cargo.lock"

\* The lockfiles there are afterwards, in the order they are parsed.
Lockfiles(r) ==
    LET found == r.locks \cup {Target(r, m) : m \in r.manifests \cap r.made}
    IN  Where(r.order, LAMBDA kind : kind \in found)

\* What a repository has on disk and is told about: lists of what there is.
IsRecord(v) ==
    /\ v = [id |-> v.id, ids |-> v.ids, slot |-> v.slot, transitive |-> v.transitive,
            reachable |-> v.reachable, used |-> v.used, high |-> v.high]
    /\ v.reachable \in BOOLEAN /\ v.high \in BOOLEAN

RepositoryOK(r) ==
    /\ IsList(r.order) /\ ToSet(r.order) \subseteq Kinds
    /\ IsList(r.asked) /\ IsList(r.vdrs)
    /\ \A k \in Kinds : \A s \in {r.file[k].listed, r.file[k].roots, r.file[k].beside} : IsList(s)
    /\ \A s \in ToSet(r.vdrs) \cup {r.found} : IsList(s) /\ \A v \in ToSet(s) : IsRecord(v)

-----------------------------------------------------------------------------
(* Dependencies.  d.deps: records [key, type], one per key <<ecosystem,     *)
(* name, version>>; d.by: the keys entered under <<ecosystem, name, type>>; *)
(* d.exact: those of them with an exact version.                            *)

NoDeps == [deps |-> {}, by |-> {}, exact |-> {}]

\* Variant: an exact version takes the ranges of its name away, whoever
\* asked for them, before it is known to be new.
UpsertHasty(d, key, type) ==
    LET kind == <<key[1], key[2], type>>
    IN  IF key[3] \in Ranges
        THEN IF kind \in d.exact THEN [d EXCEPT !.deps = {x \in @ : x.key[2] # key[2]}]
             ELSE [d EXCEPT !.deps = @ \cup {[key |-> key, type |-> type]}, !.by = @ \cup {<<kind, key>>}]
        ELSE [d EXCEPT !.deps = {x \in @ : x.key # key} \cup {[key |-> key, type |-> type]},
                       !.exact = @ \cup {kind}]

Upsert(d, key, type) ==
    LET kind  == <<key[1], key[2], type>>
        range == key[3] \in Ranges
        stale == IF range THEN {} ELSE {b \in d.by : b[1] = kind /\ b[2][3] \in Ranges}
        kept  == {x \in d.deps : \A b \in stale : b[2] # x.key}
        known == \E x \in kept : x.key = key
        mine  == [key |-> key, type |-> type]
    IN  CASE range /\ kind \in d.exact -> d
          [] known /\ ~(range /\ kind \in d.exact) ->
                [d EXCEPT !.deps = {x \in kept : x.key # key}
                            \cup {[x EXCEPT !.type = IF type = "direct" THEN type ELSE @] :
                                    x \in {y \in kept : y.key = key}},
                          !.by = @ \ stale]
          [] OTHER ->
                [deps |-> kept \cup {mine}, by |-> (d.by \ stale) \cup {<<kind, key>>},
                 exact |-> IF range THEN d.exact ELSE d.exact \cup {kind}]

DirectNames(r) ==
    UNION {{<<Ecosystem(k), n>> : n \in Names(Parse(k, r.file[k]).direct)} : k \in ToSet(Lockfiles(r))}
TransitiveNames(r) ==
    UNION {{<<Ecosystem(k), n>> : n \in Names(Parse(k, r.file[k]).all)} : k \in ToSet(Lockfiles(r))}
        \ DirectNames(r)

\* What a lockfile lists, direct when any lockfile calls it so.
Enter(d, eco, entries, direct) ==
    FoldLeft(LAMBDA a, e : Upsert(a, <<eco, e[1], e[2]>>,
                                  IF <<eco, e[1]>> \in direct THEN "direct" ELSE "transitive"),
             d, entries)

\* What the manifests ask for: r.asked, a sequence of <<ecosystem, name, spec>>.
Asked(r) == [i \in DOMAIN r.asked |-> <<r.asked[i][1], r.asked[i][2], Bare[r.asked[i][3]]>>]

Dependencies(r) ==
    LET direct   == DirectNames(r)
        OfFile(d, k) ==
            LET p == Parse(k, r.file[k])
            IN  Enter(Enter(d, Ecosystem(k), p.all, direct), Ecosystem(k), p.direct, direct)
        locked   == FoldLeft(OfFile, NoDeps, Lockfiles(r))
        asked    == Asked(r)
    IN  IF Lockfiles(r) = <<>> THEN {[key |-> asked[i], type |-> "direct"] : i \in DOMAIN asked}
        ELSE FoldLeft(LAMBDA d, key : Upsert(d, key, "direct"), locked, asked).deps

-----------------------------------------------------------------------------
(* Vulnerabilities.  A record v: its id, the identifiers it lists (ids, the *)
(* id among them), severity, reach and the package and version (slot) it is *)
(* about; a bucket keeps the records of one slot, CVEs and malware apart.   *)

CONSTANT MalwareIds   \* identifiers that start with MAL-

IsMalware(v) == v.ids \cap MalwareIds # {}

NoBucket == [ids |-> {}, cve |-> <<>>, mal |-> <<>>]

Entered(b, v) ==
    IF IsMalware(v) THEN [b EXCEPT !.mal = Append(@, v)] ELSE [b EXCEPT !.cve = Append(@, v)]

\* The first record of an identifier is kept, later ones dropped.
Add(b, v) ==
    IF v.ids \cap b.ids # {} THEN b ELSE Entered([b EXCEPT !.ids = @ \cup v.ids], v)

\* A map keeps its slots in the order they were entered.
NoMap == [slots |-> <<>>, at |-> [s \in {} |-> NoBucket]]

Put(m, v) ==
    IF v.slot \in DOMAIN m.at THEN [m EXCEPT !.at[v.slot] = Add(@, v)]
    ELSE [slots |-> Append(m.slots, v.slot), at |-> With(m.at, v.slot, Add(NoBucket, v))]

PutAll(m, vs) == FoldLeft(Put, m, vs)

Records(m) ==
    FlattenSeq([i \in DOMAIN m.slots |-> m.at[m.slots[i]].cve \o m.at[m.slots[i]].mal])

\* Every VDR is read into a map of its own, which is then merged.
DepscanMap(r) == FoldLeft(LAMBDA m, vdr : PutAll(m, Records(PutAll(NoMap, vdr))), NoMap, r.vdrs)

\* osv-scanner names a package once per source: its records are joined and
\* what shares an identifier with an earlier one, dropped or not, is dropped.
OsvOnce(vs) ==
    FoldLeft(LAMBDA a, v : [seen |-> a.seen \cup v.ids,
                            out  |-> IF v.ids \cap a.seen # {} THEN a.out ELSE Append(a.out, v)],
             [seen |-> {}, out |-> <<>>], vs).out

OsvRecords(r) ==
    LET slots == FoldLeft(LAMBDA a, v : IF Contains(a, v.slot) THEN a ELSE Append(a, v.slot),
                          <<>>, r.found)
        of(s) == OsvOnce(Where(r.found, LAMBDA v : v.slot = s))
        rated(v) == [v EXCEPT !.transitive = v.slot[1] \in TransitiveNames(r),
                              !.high = @ \/ v.id \in MalwareIds,
                              !.reachable = FALSE, !.used = FALSE]
        all == FlattenSeq([i \in DOMAIN slots |-> of(slots[i])])
    IN  [i \in DOMAIN all |-> rated(all[i])]

-----------------------------------------------------------------------------
(* Records of one package are grouped across its versions by the            *)
(* identifiers they share; the first of a group takes up the others.        *)

\* Variant: what is reached in one version only counts as not reached.
MergeStrict(a, v) ==
    [a EXCEPT !.transitive = @ /\ v.transitive, !.reachable = @ /\ v.reachable,
              !.used = @ \/ v.used, !.high = @ \/ v.high]

Merge(a, v) ==
    [a EXCEPT !.transitive = @ /\ v.transitive, !.reachable = @ \/ v.reachable,
              !.used = @ \/ v.used, !.high = @ \/ v.high]

Taken(g, v) ==
    CASE IsMalware(v) /\ g.mal # <<>>  -> [g EXCEPT !.mal[1] = Merge(@, v)]
      [] ~IsMalware(v) /\ g.cve # <<>> -> [g EXCEPT !.cve[1] = Merge(@, v)]
      [] OTHER                         -> Entered(g, v)

NoGroup == [seen |-> {}, versions |-> {}, cve |-> <<>>, mal |-> <<>>]

\* gs: alias, from identifier to group key, and at, from key to group.
Group(gs, v) ==
    LET hit  == Where(Order, LAMBDA i : i \in v.ids /\ i \in DOMAIN gs.alias)
        key  == IF hit = <<>> THEN v.id ELSE gs.alias[hit[1]]
        old  == IF key \in DOMAIN gs.at THEN gs.at[key] ELSE NoGroup
        met  == v.ids \cap old.seen # {}
        next == [old EXCEPT !.seen = @ \cup v.ids, !.versions = @ \cup ({v.slot[2]} \ {""})]
    IN  [alias |-> [i \in v.ids |-> key] @@ gs.alias,
         at    |-> With(gs.at, key, IF met THEN Taken(next, v) ELSE Entered(next, v))]

\* The groups of all packages: sets of [pkg, versions, cve, mal].
Groups(m) ==
    LET all     == Records(m)
        Of(pkg) == FoldLeft(Group, [alias |-> [i \in {} |-> ""], at |-> [k \in {} |-> NoGroup]],
                            Where(all, LAMBDA v : v.slot[1] = pkg))
    IN  UNION {{[pkg |-> p, versions |-> Of(p).at[k].versions, cve |-> ToSet(Of(p).at[k].cve),
                 mal |-> ToSet(Of(p).at[k].mal)] : k \in DOMAIN Of(p).at} :
               p \in {m.slots[i][1] : i \in DOMAIN m.slots}}

-----------------------------------------------------------------------------
(* The scan.  r.depscan: lost (it timed out or did not start), failed (any  *)
(* other exit code) or ok; r.osv: lost, silent, garbled or json;            *)
(* r.broken: a record on which processing raises.                           *)

\* Variant: one scanner that answered is enough, whatever it answered.
ScanSucceedsLax(r) == ~r.broken /\ ~(r.depscan = "lost" /\ r.osv = "lost")

ScanSucceeds(r) == ~r.broken /\ (r.depscan = "ok" \/ r.osv = "json")

Vulnerabilities(r) ==
    LET first == IF r.depscan = "ok" THEN DepscanMap(r) ELSE NoMap
    IN  IF ~ScanSucceeds(r) THEN {}
        ELSE Groups(IF r.osv = "json" THEN PutAll(first, OsvRecords(r)) ELSE first)

\* merge_datadog_malicious: listed packages that no scanner has flagged at
\* that version.
Listed(r, groups, deps) ==
    {x \in deps :
        /\ x.key[1] \in {"npm", "pypi"}
        /\ <<x.key[1], x.key[2]>> \in r.listed
        /\ \A g \in groups : g.mal # {} /\ g.pkg = <<x.key[1], x.key[2]>> => x.key[3] \notin g.versions}

SCA(r) ==
    LET groups == Vulnerabilities(r)
        deps   == IF r.broken THEN {} ELSE Dependencies(r)
    IN  [repo |-> TRUE, success |-> ScanSucceeds(r),
         malware |-> Listed(r, groups, deps) # {} \/ \E g \in groups : g.mal # {},
         highs |-> UNION {{[pkg |-> g.pkg, id |-> v.id, direct |-> ~v.transitive,
                            reachable |-> v.reachable, used |-> v.used] :
                           v \in {w \in g.cve : w.high}} : g \in groups}]
=============================================================================
