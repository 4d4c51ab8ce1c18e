------------------------- MODULE ScanPipelineProofs -------------------------
(***************************************************************************)
(* Theorems about ScanPipeline for every number of reports, every set of   *)
(* providers and every set of requests.                                    *)
(***************************************************************************)
EXTENDS ScanPipelineInv, WellFoundedInduction, TLAPS

-----------------------------------------------------------------------------
(* Coverage: the operators of Assessment return coverage, and what they     *)
(* leave alone.                                                             *)

LEMMA FinalizeFacts ==
    ASSUME NEW c \in Coverage
    PROVE  /\ Finalize(c) \in Coverage
           /\ Finalize(c).gaps = c.gaps
           /\ Finalize(c).result = c.result
           /\ Finalize(c).required = c.required \cup EnvRequired
           /\ Finalize(c).state # "none"
           /\ Finalize(c).state = "complete" =>
                ~c.gaps /\ \A p \in c.required \cup EnvRequired : c.result[p] = "completed"
           /\ \A l \in c.limits \ Finalize(c).limits : l \in Providers /\ c.result[l] = "completed"
<1> DEFINE limits == (c.limits \ Completed(c)) \cup (Must(c) \ Completed(c))
                        \cup (IF c.gaps THEN {"gaps"} ELSE {})
<1>1. Must(c) \subseteq Providers /\ Completed(c) \subseteq Must(c)
  BY ProvidersOK DEF Must, Completed, Coverage
<1>2. limits \subseteq Limit
  BY <1>1 DEF Limit, Coverage
<1>3. Finalize(c) = [c EXCEPT !.required = Must(c), !.limits = limits,
                  !.state = IF limits = {} THEN "complete" ELSE "incomplete"]
  BY DEF Finalize
<1>4. limits = {} => ~c.gaps /\ Must(c) \subseteq Completed(c)
  OBVIOUS
<1>5. c.limits \ limits \subseteq Completed(c)
  OBVIOUS
<1> HIDE DEF limits
<1>6. Finalize(c) \in Coverage /\ Finalize(c).limits = limits
  BY <1>1, <1>2, <1>3 DEF Coverage
<1>7. /\ Finalize(c).gaps = c.gaps /\ Finalize(c).result = c.result
      /\ Finalize(c).required = Must(c)
      /\ Finalize(c).state = IF limits = {} THEN "complete" ELSE "incomplete"
  BY <1>3 DEF Coverage
<1> QED BY <1>1, <1>4, <1>5, <1>6, <1>7 DEF Must, Completed

LEMMA DemandFacts ==
    ASSUME NEW c \in Coverage, NEW ps \in SUBSET Providers
    PROVE  /\ Demand(c, ps) \in Coverage
           /\ Demand(c, ps).gaps = c.gaps
           /\ Demand(c, ps).limits = c.limits
           /\ Demand(c, ps).required = c.required \cup ps
           /\ \A p \in Providers : c.result[p] # "absent" => Demand(c, ps).result[p] = c.result[p]
           /\ \A p \in Providers : c.result[p] = "absent" => Demand(c, ps).result[p] # "completed"
<1> DEFINE result == [p \in Providers |->
                        IF p \in ps /\ c.result[p] = "absent" THEN "unavailable" ELSE c.result[p]]
<1>1. result \in [Providers -> Result]
  BY DEF Coverage, Result
<1>2. /\ \A p \in Providers : c.result[p] # "absent" => result[p] = c.result[p]
      /\ \A p \in Providers : c.result[p] = "absent" => result[p] # "completed"
  OBVIOUS
<1>3. Demand(c, ps) = [c EXCEPT !.result = result, !.required = @ \cup ps]
  BY DEF Demand
<1> HIDE DEF result
<1> QED BY <1>1, <1>2, <1>3 DEF Coverage

LEMMA RefuseFacts ==
    ASSUME NEW c \in Coverage
    PROVE  Refuse(c) \in Coverage /\ Refuse(c).required = c.required
BY DEF Refuse, Coverage, Limit

LEMMA NoCoverageType == NoCoverage \in Coverage
BY DEF NoCoverage, Coverage, Result

LEMMA LevelFacts ==
    ASSUME NEW a \in Level, NEW b \in Level
    PROVE  Worse(a, b) \in Level /\ a <= Worse(a, b)
BY DEF Worse, Level, Clean, Malware

-----------------------------------------------------------------------------
(* Reports as they are first made.                                          *)

LEMMA RequestFacts ==
    ASSUME req \in Requests
    PROVE  /\ req \in RequestType
           /\ req.kind \in [Slots -> Kind] /\ req.id \in [Slots -> Ids] /\ req.bytes \in [Slots -> Slots]
           /\ req.found \subseteq Level \X SUBSET StaticProviders
           /\ req.feed \in [Ids -> Level] /\ req.flagged \in [Ids -> Level] /\ req.listed \in [Slots -> Level]
           /\ req.providers \subseteq Providers /\ req.imported \subseteq Ids
           /\ req.advisories \in Result /\ req.registry \in Result
BY RequestsOK DEF RequestType, Result

LEMMA BlankFacts ==
    /\ NoCoverage \in Coverage
    /\ Clean \in Level
    /\ "none" \in Decision /\ "none" \in Outcome
BY NoCoverageType DEF Clean, Malware, Level, Decision, Outcome

LEMMA KeyFacts ==
    ASSUME NEW i \in Slots
    PROVE  <<"bytes", i>> \in Keys /\ <<"failed", i>> \in Keys /\ \A x \in Ids \cup {Unknown} : IdKey(x) \in Keys
BY DEF Keys

LEMMA InspectedFacts ==
    ASSUME NEW ok \in SUBSET StaticProviders, NEW c \in Inspected(ok)
    PROVE  c \in Coverage /\ BuiltIn \subseteq c.required
<1>1. ASSUME NEW gaps \in BOOLEAN, NEW d, d = Inspect(gaps, ok)
      PROVE d \in Coverage /\ BuiltIn \subseteq d.required
  <2> DEFINE result == [p \in Providers |-> IF p \notin StaticProviders THEN "absent"
                                            ELSE IF p \in ok THEN "completed" ELSE "failed"]
             raw == [NoCoverage EXCEPT !.gaps = gaps, !.result = result, !.required = BuiltIn]
  <2>2. result \in [Providers -> Result]
    BY DEF Result
  <2>3. BuiltIn \in SUBSET Providers
    BY ProvidersOK DEF Providers
  <2>4. raw \in Coverage /\ raw.required = BuiltIn
    <3> HIDE DEF result
    <3> QED BY <2>2, <2>3, NoCoverageType DEF Coverage
  <2>5. d = Finalize(raw)
    BY <1>1 DEF Inspect
  <2> HIDE DEF raw
  <2> QED BY <2>4, <2>5, FinalizeFacts
<1>2. PICK gaps \in BOOLEAN : c = Inspect(gaps, ok) \/ c = Refuse(Inspect(gaps, ok))
  BY DEF Inspected
<1> QED BY <1>1, <1>2, RefuseFacts

LEMMA AnalyzedFacts ==
    ASSUME req \in Requests, NEW i \in Slots, NEW origin \in {"local", "fetched", "remote"},
           NEW id \in Ids, NEW r \in Analyzed(i, origin, id)
    PROVE  r \in Report /\ r.origin = origin /\ BuiltIn \subseteq r.cover.required
<1> DEFINE b == Blank(i, origin, id, <<"bytes", req.bytes[i]>>)
<1>1. PICK exec \in BOOLEAN, f \in req.found :
        \E c \in Inspected(f[2]) : r = Analyze(b, exec, f[1], c)
  BY DEF Analyzed
<1>p. PICK c \in Inspected(f[2]) : r = Analyze(b, exec, f[1], c)
  BY <1>1
<1> DEFINE level == f[1]
<1>f. f[1] \in Level /\ f[2] \in SUBSET StaticProviders
  BY RequestFacts
<1>2. c \in Coverage /\ BuiltIn \subseteq c.required
  BY InspectedFacts, <1>f
<1>3. b \in Report /\ b.origin = origin
  BY RequestFacts, KeyFacts, BlankFacts DEF Blank, Report
<1>4. level \in Level
  BY <1>f
<1> HIDE DEF b
<1> DEFINE skipped == c.state # "complete"
<1>5. skipped \in BOOLEAN
  OBVIOUS
<1>6. r = [b EXCEPT !.exec = exec, !.level = level, !.cover = c, !.skipped = skipped]
  BY <1>p DEF Analyze
<1> HIDE DEF skipped
<1> QED BY <1>2, <1>3, <1>4, <1>5, <1>6 DEF Report

LEMMA AbortedType == Aborted \in Coverage
BY NoCoverageType DEF Aborted, Coverage, Limit

LEMMA IsolatedFacts ==
    ASSUME req \in Requests, NEW i \in Slots, NEW r \in Isolated(i)
    PROVE  r \in Report /\ r.origin = "aborted" /\ r.exec = FALSE
<1>1. PICK id \in {req.id[i], Unknown} :
        r = [Blank(i, "aborted", id, <<"failed", i>>) EXCEPT !.cover = Aborted]
  BY DEF Isolated
<1>2. id \in Ids \cup {Unknown}
  BY RequestFacts
<1>3. /\ Blank(i, "aborted", id, <<"failed", i>>) \in Report
      /\ Blank(i, "aborted", id, <<"failed", i>>).origin = "aborted"
      /\ Blank(i, "aborted", id, <<"failed", i>>).exec = FALSE
  BY <1>2, BlankFacts, KeyFacts DEF Blank, Report
<1> QED BY <1>1, <1>3, AbortedType DEF Report

-----------------------------------------------------------------------------
(* What a pass does to one report.                                          *)

LEMMA MarkedFacts ==
    ASSUME NEW r \in Report, NEW level \in Level
    PROVE  /\ Marked(r, level) \in Report
           /\ r.level <= Marked(r, level).level
           /\ Marked(r, level).origin = r.origin /\ Marked(r, level).exec = r.exec
           /\ Marked(r, level).id = r.id /\ Marked(r, level).key = r.key
           /\ Marked(r, level).cover = r.cover
BY LevelFacts DEF Marked, Report

\* The last finalization, and what the request demands of it.
LEMMA FinalCoverFacts ==
    ASSUME req \in Requests, NEW r \in Report
    PROVE  /\ FinalCover(r) \in Coverage
           /\ r.cover.required \ {"artifact_acquisition", "dependency_intelligence"} \subseteq FinalCover(r).required
           /\ EnvRequired \cup req.providers \cup {"extension_advisories"} \subseteq FinalCover(r).required
           /\ FinalCover(r).state = "complete" =>
                /\ ~FinalCover(r).gaps
                /\ \A p \in FinalCover(r).required : FinalCover(r).result[p] = "completed"
           /\ FinalCover(r).result["dynamic_sandbox"] = "completed" =>
                r.cover.result["dynamic_sandbox"] = "completed"
           /\ \A l \in r.cover.limits \ FinalCover(r).limits :
                l \in Providers /\ FinalCover(r).result[l] = "completed"
<1> DEFINE c1 == IF r.origin = "error" THEN Attach(r.cover, "artifact_acquisition", "failed", TRUE) ELSE r.cover
           c2 == Attach(c1, "dependency_intelligence", req.registry, FALSE)
           c3 == Attach(c2, "extension_advisories", req.advisories, TRUE)
           c4 == Demand(c3, req.providers)
<1>0. r.cover \in Coverage
  BY DEF Report
<1>p. /\ "artifact_acquisition" \in Providers /\ "dependency_intelligence" \in Providers
      /\ "extension_advisories" \in Providers /\ "dynamic_sandbox" \in Providers
  BY DEF Providers, RequestProviders
<1>q. "failed" \in Result /\ req.registry \in Result /\ req.advisories \in Result /\ req.providers \subseteq Providers
  BY RequestFacts DEF Result
<1>1. /\ c1 \in Coverage /\ c1.limits = r.cover.limits
      /\ r.cover.required \ {"artifact_acquisition"} \subseteq c1.required
      /\ c1.result["dynamic_sandbox"] = r.cover.result["dynamic_sandbox"]
  <2>1. CASE r.origin = "error"
    BY <1>0, <1>p, <1>q, <2>1 DEF Attach, Coverage
  <2> QED BY <1>0, <2>1
<1>2. /\ c2 \in Coverage /\ c2.limits = c1.limits
      /\ c1.required \ {"dependency_intelligence"} \subseteq c2.required
      /\ c2.result["dynamic_sandbox"] = c1.result["dynamic_sandbox"]
  <2> HIDE DEF c1
  <2> QED BY <1>1, <1>p, <1>q DEF Attach, Coverage
<1>3. /\ c3 \in Coverage /\ c3.limits = c2.limits
      /\ c2.required \ {"extension_advisories"} \subseteq c3.required
      /\ "extension_advisories" \in c3.required
      /\ c3.result["dynamic_sandbox"] = c2.result["dynamic_sandbox"]
  <2> HIDE DEF c2
  <2> QED BY <1>2, <1>p, <1>q DEF Attach, Coverage
<1>4. /\ c4 \in Coverage /\ c4.limits = c3.limits
      /\ c4.required = c3.required \cup req.providers
      /\ c4.result["dynamic_sandbox"] = "completed" => c3.result["dynamic_sandbox"] = "completed"
  <2> HIDE DEF c3
  <2>1. \A p \in Providers : c4.result[p] = "completed" => c3.result[p] = "completed"
    BY <1>3, <1>q, DemandFacts
  <2> QED BY <1>3, <1>p, <1>q, <2>1, DemandFacts
<1>5. FinalCover(r) = Finalize(c4)
  BY DEF FinalCover
<1> HIDE DEF c1, c2, c3, c4
<1>6. /\ FinalCover(r) \in Coverage
      /\ FinalCover(r).result = c4.result /\ FinalCover(r).gaps = c4.gaps
      /\ FinalCover(r).required = c4.required \cup EnvRequired
      /\ FinalCover(r).state = "complete" =>
            ~c4.gaps /\ \A p \in c4.required \cup EnvRequired : c4.result[p] = "completed"
      /\ \A l \in c4.limits \ FinalCover(r).limits : l \in Providers /\ c4.result[l] = "completed"
  BY <1>4, <1>5, FinalizeFacts
<1> QED BY <1>1, <1>2, <1>3, <1>4, <1>6

LEMMA DecisionFacts ==
    ASSUME NEW r \in Report, NEW grown \in BOOLEAN
    PROVE  /\ Decide(r, grown) \in Decision
           /\ Explain(r, Decide(r, grown)) \in Outcome
BY DEF Decide, Explain, Decision, Outcome

LEMMA AssessFacts ==
    ASSUME req \in Requests, NEW r \in Report
    PROVE  /\ Assess(r) \in Report
           /\ Assess(r).origin = r.origin /\ Assess(r).exec = r.exec
           /\ Assess(r).id = r.id /\ Assess(r).key = r.key /\ Assess(r).level = r.level
           /\ Assess(r).cover = FinalCover(r)
           /\ Assess(r).skipped <=> FinalCover(r).state # "complete"
           /\ Assess(r).decision = Decide(Assess(r), FALSE)
           /\ Assess(r).outcome = Explain(Assess(r), Decide(Assess(r), FALSE))
<1> DEFINE c == FinalCover(r)
           skipped == c.state # "complete"
           s == [r EXCEPT !.cover = c, !.skipped = skipped]
           d == Decide(s, FALSE)
           o == Explain(s, d)
           t == [s EXCEPT !.decision = d, !.outcome = o]
<1>1. Assess(r) = t
  BY DEF Assess
<1>2. c \in Coverage /\ skipped \in BOOLEAN
  BY FinalCoverFacts
<1> HIDE DEF c, skipped
<1>3. /\ s \in Report /\ s.cover = c /\ (s.skipped <=> skipped) /\ s.level = r.level
      /\ s.origin = r.origin /\ s.exec = r.exec /\ s.id = r.id /\ s.key = r.key
  BY <1>2 DEF Report
<1> HIDE DEF s
<1>4. d \in Decision /\ o \in Outcome
  BY <1>3, DecisionFacts
<1> HIDE DEF d, o
<1>5. /\ t \in Report /\ t.cover = c /\ (t.skipped <=> skipped) /\ t.level = r.level
      /\ t.origin = r.origin /\ t.exec = r.exec /\ t.id = r.id /\ t.key = r.key
      /\ t.decision = d /\ t.outcome = o
  BY <1>3, <1>4 DEF Report
<1>6. /\ t.cover.state = s.cover.state /\ (t.skipped <=> s.skipped) /\ t.level = s.level
  BY <1>3, <1>5
<1> HIDE DEF t
<1>7. Decide(t, FALSE) = Decide(s, FALSE)
  BY <1>6 DEF Decide, Blocked, Uncovered
<1>8. Explain(t, d) = Explain(s, d)
  BY <1>6 DEF Explain
<1> QED BY <1>1, <1>5, <1>7, <1>8 DEF d, o, c, skipped

-----------------------------------------------------------------------------
(* Type correctness.                                                        *)

\* A report put into a slot by scanning or by a failure is a report.
LEMMA PutType ==
    ASSUME TypeOK, NEW i \in Slots, NEW S, S \subseteq Report, Put(i, S)
    PROVE  rep' \in [Slots -> Report]
BY DEF Put, TypeOK

LEMMA NewReports ==
    ASSUME TypeOK, NEW i \in Slots
    PROVE  /\ Analyzed(i, "local", req.id[i]) \cup Isolated(i) \subseteq Report
           /\ Analyzed(i, "remote", req.id[i]) \cup Isolated(i) \subseteq Report
           /\ \A id \in Ids : Analyzed(i, "fetched", id) \subseteq Report
           /\ RegistryOnly(i) \in Report /\ MarketError(i) \in Report
<1>1. req \in Requests /\ req.id[i] \in Ids
  BY RequestFacts DEF TypeOK
<1>2. Isolated(i) \subseteq Report
  BY <1>1, IsolatedFacts
<1>3. \A id \in Ids : /\ Analyzed(i, "local", id) \subseteq Report
                     /\ Analyzed(i, "remote", id) \subseteq Report
                     /\ Analyzed(i, "fetched", id) \subseteq Report
  BY <1>1, AnalyzedFacts
<1>4. RegistryOnly(i) \in Report /\ MarketError(i) \in Report
  BY <1>1, KeyFacts, BlankFacts DEF RegistryOnly, MarketError, Blank, Report
<1> QED BY <1>1, <1>2, <1>3, <1>4

LEMMA SandboxType ==
    ASSUME TypeOK, NEW i \in Slots, Sandbox(i)
    PROVE  /\ run' \in [Slots -> Receipt]
           /\ DOMAIN obs' \subseteq Keys /\ \A k \in DOMAIN obs' : obs'[k] \subseteq Item
<1>1. rep[i].key \in Keys /\ BundleKey(i) \in Keys
  BY KeyFacts DEF TypeOK, Report, BundleKey
<1>2. CASE /\ run' = [run EXCEPT ![i] = [@ EXCEPT !.state = "skipped", !.key = rep[i].key]]
           /\ UNCHANGED obs
  BY <1>1, <1>2 DEF TypeOK, Receipt
<1>3. CASE \E saw \in SUBSET Item, traced \in BOOLEAN :
            /\ run' = [run EXCEPT ![i] =
                 [state |-> IF saw \cap {"entryError", "hardError"} = {} THEN "completed" ELSE "failed",
                  key |-> rep[i].key, saw |-> saw, trace |-> traced /\ "hardError" \notin saw]]
            /\ obs' = [k \in DOMAIN obs \cup {BundleKey(i)} |-> IF k = BundleKey(i) THEN saw ELSE obs[k]]
  <2>1. PICK saw \in SUBSET Item, traced \in BOOLEAN :
            /\ run' = [run EXCEPT ![i] =
                 [state |-> IF saw \cap {"entryError", "hardError"} = {} THEN "completed" ELSE "failed",
                  key |-> rep[i].key, saw |-> saw, trace |-> traced /\ "hardError" \notin saw]]
            /\ obs' = [k \in DOMAIN obs \cup {BundleKey(i)} |-> IF k = BundleKey(i) THEN saw ELSE obs[k]]
    BY <1>3
  <2> DEFINE trace == traced /\ "hardError" \notin saw
             state == IF saw \cap {"entryError", "hardError"} = {} THEN "completed" ELSE "failed"
  <2>2. trace \in BOOLEAN /\ state \in {"none", "skipped", "failed", "completed"}
    OBVIOUS
  <2>3. run' = [run EXCEPT ![i] = [state |-> state, key |-> rep[i].key, saw |-> saw, trace |-> trace]]
    BY <2>1
  <2> HIDE DEF trace, state
  <2>4. run' \in [Slots -> Receipt]
    BY <1>1, <2>2, <2>3 DEF TypeOK, Receipt
  <2> QED BY <1>1, <2>1, <2>4 DEF TypeOK
<1> QED BY <1>2, <1>3 DEF Sandbox

\* What a pass that only marks leaves of a report.
Kept(r, s) ==
    /\ s.origin = r.origin /\ s.exec = r.exec /\ s.id = r.id /\ s.key = r.key
    /\ r.level <= s.level

\* Intelligence passes: levels go up, coverage stays.
LEMMA MarkPass ==
    ASSUME TypeOK, MatchFeed \/ MatchAdvisories \/ ApplyRegistry
    PROVE  /\ rep' \in [Slots -> Report]
           /\ \A i \in Slots : Kept(rep[i], rep'[i]) /\ rep'[i].cover = rep[i].cover
<1>1. \A i \in Slots : rep[i] \in Report
  BY DEF TypeOK
<1>2. ASSUME NEW i \in Slots, NEW level \in Level
      PROVE  /\ Marked(rep[i], level) \in Report /\ Kept(rep[i], Marked(rep[i], level))
             /\ Marked(rep[i], level).cover = rep[i].cover
  BY <1>1, MarkedFacts DEF Kept
<1>3. \A i \in Slots : Kept(rep[i], rep[i])
  BY <1>1 DEF Kept, Report, Level, Clean, Malware
<1>4. ASSUME NEW levels, levels \in [Ids -> Level], MarkById(levels)
      PROVE  /\ rep' \in [Slots -> Report]
             /\ \A i \in Slots : Kept(rep[i], rep'[i]) /\ rep'[i].cover = rep[i].cover
  <2>1. \A i \in Slots : Known(levels, rep[i]) \in Level
    BY <1>4 DEF Known, Level, Clean, Malware
  <2>2. \A i \in Slots : rep'[i] = rep[i] \/ rep'[i] = Marked(rep[i], Known(levels, rep[i]))
    BY <1>4 DEF MarkById
  <2>3. DOMAIN rep' = Slots /\ rep' = [i \in Slots |-> rep'[i]]
    BY <1>4 DEF MarkById
  <2>4. \A i \in Slots : /\ rep'[i] \in Report
                         /\ Kept(rep[i], rep'[i]) /\ rep'[i].cover = rep[i].cover
    BY <1>1, <1>2, <1>3, <2>1, <2>2
  <2> QED BY <2>3, <2>4
<1>5. CASE MatchFeed
  BY <1>4, <1>5, RequestFacts DEF MatchFeed, TypeOK
<1>6. CASE ApplyRegistry
  <2>1. CASE req.registry = "unavailable"
    BY <1>1, <1>3, <1>6, <2>1 DEF ApplyRegistry, TypeOK
  <2>2. CASE req.registry # "unavailable"
    BY <1>4, <1>6, <2>2, RequestFacts DEF ApplyRegistry, TypeOK
  <2> QED BY <2>1, <2>2
<1>7. CASE MatchAdvisories
  <2>1. \A i \in Slots : rep'[i] = rep[i] \/ rep'[i] = Marked(rep[i], req.listed[i])
    BY <1>7 DEF MatchAdvisories
  <2>2. \A i \in Slots : req.listed[i] \in Level
    BY RequestFacts DEF TypeOK
  <2>3. rep' = [i \in Slots |-> rep'[i]]
    BY <1>7 DEF MatchAdvisories
  <2>4. \A i \in Slots : /\ rep'[i] \in Report
                         /\ Kept(rep[i], rep'[i]) /\ rep'[i].cover = rep[i].cover
    BY <1>1, <1>2, <1>3, <2>1, <2>2
  <2> QED BY <2>3, <2>4
<1> QED BY <1>5, <1>6, <1>7

\* The sandbox pass: observations raise levels, the run is attached.
LEMMA SandboxPass ==
    ASSUME TypeOK, ApplySandbox
    PROVE  /\ rep' \in [Slots -> Report]
           /\ \A i \in Slots :
                /\ Kept(rep[i], rep'[i])
                /\ Attach(rep[i].cover, "dynamic_sandbox", SandboxResult(i), RunNeeded(i)) \in Coverage
                /\ rep'[i].cover = Finalize(Attach(rep[i].cover, "dynamic_sandbox", SandboxResult(i), RunNeeded(i)))
<1>1. Severity({}) \in Level /\ \A items : Severity(items) \in Level
  BY DEF Severity, Level, Clean, Review, Abuse, Malware
<1>2. ASSUME NEW i \in Slots
      PROVE  /\ rep'[i] \in Report /\ Kept(rep[i], rep'[i])
             /\ Attach(rep[i].cover, "dynamic_sandbox", SandboxResult(i), RunNeeded(i)) \in Coverage
             /\ rep'[i].cover = Finalize(Attach(rep[i].cover, "dynamic_sandbox", SandboxResult(i), RunNeeded(i)))
  <2> DEFINE m == Marked(rep[i], Severity(Evidence(i)))
             c == Attach(rep[i].cover, "dynamic_sandbox", SandboxResult(i), RunNeeded(i))
  <2>1. rep[i] \in Report
    BY DEF TypeOK
  <2>2. m \in Report /\ Kept(rep[i], m) /\ m.cover = rep[i].cover
    BY <1>1, <2>1, MarkedFacts DEF Kept
  <2>3. SandboxResult(i) \in Result
    BY DEF SandboxResult, Result
  <2>4. "dynamic_sandbox" \in Providers
    BY DEF Providers, RequestProviders
  <2>5. c \in Coverage
    BY <2>1, <2>3, <2>4 DEF Attach, Coverage, Report
  <2>6. rep'[i] = [m EXCEPT !.cover = Finalize(c)]
    BY <2>2 DEF ApplySandbox
  <2> HIDE DEF m, c
  <2>7. Finalize(c) \in Coverage
    BY <2>5, FinalizeFacts
  <2>8. /\ [m EXCEPT !.cover = Finalize(c)] \in Report
        /\ [m EXCEPT !.cover = Finalize(c)].cover = Finalize(c)
        /\ Kept(rep[i], [m EXCEPT !.cover = Finalize(c)])
    BY <2>2, <2>7 DEF Report, Kept
  <2> QED BY <2>5, <2>6, <2>8 DEF c
<1>3. rep' = [i \in Slots |-> rep'[i]]
  BY DEF ApplySandbox
<1> QED BY <1>2, <1>3

\* The last pass is Assess, slot by slot.
LEMMA AssessPass ==
    ASSUME TypeOK, FinalizeAll
    PROVE  rep' \in [Slots -> Report] /\ \A i \in Slots : rep'[i] = Assess(rep[i])
BY AssessFacts DEF FinalizeAll, TypeOK

\* The baseline changes decisions and nothing else.
LEMMA ReportPass ==
    ASSUME TypeOK, BuildReport
    PROVE  /\ rep' \in [Slots -> Report]
           /\ \A i \in Slots :
                /\ Kept(rep[i], rep'[i]) /\ rep'[i].cover = rep[i].cover
                /\ rep'[i].skipped = rep[i].skipped /\ rep'[i].level = rep[i].level
                /\ rep'[i].outcome = rep[i].outcome
                /\ \E grown \in BOOLEAN : rep'[i].decision = Decide(rep[i], grown)
<1>1. ASSUME NEW i \in Slots
      PROVE  /\ rep'[i] \in Report
             /\ Kept(rep[i], rep'[i]) /\ rep'[i].cover = rep[i].cover
             /\ rep'[i].skipped = rep[i].skipped /\ rep'[i].level = rep[i].level
             /\ rep'[i].outcome = rep[i].outcome
             /\ \E grown \in BOOLEAN : rep'[i].decision = Decide(rep[i], grown)
  <2> DEFINE g == Grown(i)
             d == Decide(rep[i], g)
  <2>1. g \in BOOLEAN
    BY DEF Grown
  <2>2. rep[i] \in Report
    BY DEF TypeOK
  <2>3. rep'[i] = [rep[i] EXCEPT !.decision = d]
    BY DEF BuildReport
  <2> HIDE DEF g
  <2>4. d \in Decision
    BY <2>2 DEF Decide, Decision
  <2>5. \E grown \in BOOLEAN : d = Decide(rep[i], grown)
    BY <2>1
  <2> HIDE DEF d
  <2> QED BY <2>2, <2>3, <2>4, <2>5 DEF Report, Kept, Level, Clean, Malware
<1>2. rep' = [i \in Slots |-> rep'[i]]
  BY DEF BuildReport
<1> QED BY <1>1, <1>2

LEMMA TypeStep == TypeOK /\ [Next]_vars => TypeOK'
<1> SUFFICES ASSUME TypeOK, [Next]_vars PROVE TypeOK'
  OBVIOUS
<1> USE DEF TypeOK, Goto, Stay, Raise, Stage
<1>1. CASE Load \/ InputRaises \/ PoolDenied \/ WorkerDies \/ LocalRunsDone \/ MarketDone \/ RemoteRaises \/ RemoteDone
  BY <1>1 DEF Load, InputRaises, PoolDenied, WorkerDies, LocalRunsDone, MarketDone, RemoteRaises, RemoteDone
<1>2. CASE AddRegistryOnly
  BY <1>2, NewReports DEF AddRegistryOnly
<1>3. ASSUME NEW i \in Slots, ScanLocal(i) PROVE TypeOK'
  BY <1>3, NewReports, PutType DEF ScanLocal
<1>4. ASSUME NEW i \in Slots, RunLocal(i) \/ RunMarket(i) PROVE TypeOK'
  BY <1>4, SandboxType DEF RunLocal, RunMarket
<1>5. ASSUME NEW i \in Slots, Acquire(i) PROVE TypeOK'
  <2>1. rep' \in [Slots -> Report]
    BY <1>5, NewReports DEF Acquire, Put
  <2> QED BY <1>5, <2>1 DEF Acquire
<1>6. ASSUME NEW i \in Slots, Accept(i) PROVE TypeOK'
  BY <1>6 DEF Accept, Report
<1>7. ASSUME NEW i \in Slots, Reject(i) PROVE TypeOK'
  BY <1>7, NewReports DEF Reject
<1>8. ASSUME NEW i \in Slots, FetchRemote(i) PROVE TypeOK'
  BY <1>8, NewReports, PutType DEF FetchRemote
<1>9. CASE MatchFeed \/ MatchAdvisories \/ ApplyRegistry \/ ApplySandbox \/ FinalizeAll \/ BuildReport
  BY <1>9, MarkPass, SandboxPass, AssessPass, ReportPass
     DEF MatchFeed, MatchAdvisories, ApplyRegistry, ApplySandbox, FinalizeAll, BuildReport
<1>10. CASE UNCHANGED vars
  BY <1>10 DEF vars
<1> QED BY <1>1, <1>2, <1>3, <1>4, <1>5, <1>6, <1>7, <1>8, <1>9, <1>10 DEF Next

LEMMA TypeInit == Init => TypeOK
<1> SUFFICES ASSUME Init PROVE TypeOK
  OBVIOUS
<1>1. rep \in [Slots -> Report]
  BY KeyFacts, BlankFacts DEF Init, Blank, Report
<1>2. run \in [Slots -> Receipt]
  BY KeyFacts DEF Init, Receipt
<1>3. DOMAIN obs = {}
  BY DEF Init
<1>4. pool \in BOOLEAN
  BY DEF Init
<1> QED BY <1>1, <1>2, <1>3, <1>4 DEF Init, TypeOK, Stage

\* Every variable keeps its type: a report is never left without coverage of a
\* known shape, a level beyond malware or a key that names nothing.
THEOREM TypeCorrect == Spec => []TypeOK
BY TypeInit, TypeStep, PTL DEF Spec

-----------------------------------------------------------------------------
(* The inductive invariant, slot by slot.                                   *)

USE DEF AfterAssess, AfterSandbox, AfterMarket, AfterRuntime, Artifact

\* Steps that only move the request on.
LEMMA AdvanceStep ==
    ASSUME IInv, NEW i \in Slots,
           Load \/ InputRaises \/ PoolDenied \/ WorkerDies \/ LocalRunsDone \/ MarketDone
             \/ RemoteRaises \/ RemoteDone \/ UNCHANGED vars
    PROVE  SlotOK(i)'
<1> USE DEF Goto, Stay, Raise
<1>1. SlotOK(i)
  BY DEF IInv
<1>2. UNCHANGED <<req, rep, run>>
  BY DEF Load, InputRaises, PoolDenied, WorkerDies, LocalRunsDone, MarketDone, RemoteRaises, RemoteDone, vars
<1>3. \/ stage' = stage
      \/ stage' = "raised"
      \/ stage = "load" /\ stage' = "local"
      \/ stage = "runtime" /\ stage' = "market"
      \/ stage = "market" /\ stage' = "feed"
      \/ stage = "remote" /\ stage' = "advisories"
  BY DEF Load, InputRaises, PoolDenied, WorkerDies, LocalRunsDone, MarketDone, RemoteRaises, RemoteDone, vars
<1>4. stage = "runtime" /\ stage' = "market" => (req.dynamic => \A j \in Slot("local") : run[j].state # "none")
  BY DEF Load, InputRaises, PoolDenied, WorkerDies, LocalRunsDone, MarketDone, RemoteRaises, RemoteDone, vars
<1>5. stage = "market" /\ stage' = "feed" => \A j \in Slot("market") : rep[j].origin \in {"market", "error"}
  BY DEF Load, InputRaises, PoolDenied, WorkerDies, LocalRunsDone, MarketDone, RemoteRaises, RemoteDone, vars
<1>6. OriginOK(i)'
  BY <1>1, <1>2, <1>3, <1>5 DEF SlotOK, OriginOK, Slot
<1>7. BuiltInRequired(i)'
  BY <1>1, <1>2 DEF SlotOK, BuiltInRequired
<1>8. ReceiptOK(i)'
  BY <1>1, <1>2, <1>3, <1>4 DEF SlotOK, ReceiptOK, Slot
<1>9. SandboxOK(i)'
  BY <1>1, <1>2, <1>3 DEF SlotOK, SandboxOK, Traced
<1>10. AssessedOK(i)'
  BY <1>1, <1>2, <1>3 DEF SlotOK, AssessedOK, CompleteOK, Demanded, Scanned
<1> QED BY <1>6, <1>7, <1>8, <1>9, <1>10 DEF SlotOK

\* Steps that put a report into slot k.
LEMMA PutStep ==
    ASSUME IInv, NEW i \in Slots, NEW k \in Slots,
           ScanLocal(k) \/ FetchRemote(k) \/ Acquire(k) \/ Accept(k) \/ Reject(k)
    PROVE  SlotOK(i)'
<1>1. TypeOK /\ SlotOK(i) /\ SlotOK(k)
  BY DEF IInv
<1>2. UNCHANGED <<req, run, stage>> /\ stage \in {"local", "market", "remote"}
  BY DEF ScanLocal, FetchRemote, Acquire, Accept, Reject, Stay
<1>3. CASE i # k
  <2>1. rep'[i] = rep[i]
    BY <1>1, <1>3 DEF ScanLocal, FetchRemote, Acquire, Accept, Reject, Put, TypeOK
  <2> QED BY <1>1, <1>2, <2>1 DEF SlotOK, OriginOK, BuiltInRequired, ReceiptOK, SandboxOK, AssessedOK
<1>4. SandboxOK(k)' /\ AssessedOK(k)'
  BY <1>2 DEF SandboxOK, AssessedOK
<1>5. req \in Requests /\ req.id[k] \in Ids
  BY <1>1, RequestFacts DEF TypeOK
<1>6. CASE ScanLocal(k)
  <2>1. PICK r \in Analyzed(k, "local", req.id[k]) \cup Isolated(k) : rep' = [rep EXCEPT ![k] = r]
    BY <1>6 DEF ScanLocal, Put
  <2>2. rep'[k] = r
    BY <1>1, <2>1 DEF TypeOK
  <2>3. \/ r.origin = "local" /\ BuiltIn \subseteq r.cover.required
        \/ r.origin = "aborted" /\ r.exec = FALSE
    BY <1>5, AnalyzedFacts, IsolatedFacts
  <2>4. stage = "local" /\ req.kind[k] = "local" /\ run[k].state = "none"
    BY <1>1, <1>6 DEF ScanLocal, Stay, Slot, SlotOK, ReceiptOK
  <2> QED BY <1>2, <1>3, <1>4, <2>2, <2>3, <2>4 DEF SlotOK, OriginOK, BuiltInRequired, ReceiptOK
<1>7. CASE FetchRemote(k)
  <2>1. PICK r \in Analyzed(k, "remote", req.id[k]) \cup Isolated(k) : rep' = [rep EXCEPT ![k] = r]
    BY <1>7 DEF FetchRemote, Put
  <2>2. rep'[k] = r
    BY <1>1, <2>1 DEF TypeOK
  <2>3. \/ r.origin = "remote" /\ BuiltIn \subseteq r.cover.required
        \/ r.origin = "aborted" /\ r.exec = FALSE
    BY <1>5, AnalyzedFacts, IsolatedFacts
  <2>4. stage = "remote" /\ req.kind[k] = "remote"
    BY <1>7 DEF FetchRemote, Stay, Slot
  <2> QED BY <1>1, <1>2, <1>3, <1>4, <2>2, <2>3, <2>4 DEF SlotOK, OriginOK, BuiltInRequired, ReceiptOK
<1>8. CASE Acquire(k)
  <2>1. PICK r : /\ rep' = [rep EXCEPT ![k] = r]
                 /\ r \in {MarketError(k)} \/ \E id \in Ids : r \in Analyzed(k, "fetched", id)
    BY <1>8 DEF Acquire, Put
  <2>2. rep'[k] = r
    BY <1>1, <2>1 DEF TypeOK
  <2>3. \/ r.origin = "fetched" /\ BuiltIn \subseteq r.cover.required
        \/ r.origin = "error" /\ r.exec = FALSE
    BY <1>5, <2>1, AnalyzedFacts DEF MarketError, Blank
  <2>4. stage = "market" /\ req.kind[k] = "market" /\ run[k].state = "none"
    BY <1>1, <1>8 DEF Acquire, Turn, Stay, Slot, SlotOK, ReceiptOK
  <2> QED BY <1>2, <1>3, <1>4, <2>2, <2>3, <2>4 DEF SlotOK, OriginOK, BuiltInRequired, ReceiptOK
<1>9. CASE Accept(k)
  <2>1. /\ rep'[k].origin = "market" /\ rep'[k].exec = rep[k].exec /\ rep'[k].key = rep[k].key
        /\ rep'[k].cover = rep[k].cover
        /\ rep[k].origin = "fetched"
    BY <1>1, <1>9 DEF Accept, TypeOK, Report
  <2>2. stage = "market" /\ req.kind[k] = "market" /\ (req.dynamic => run[k].state # "none")
    BY <1>9 DEF Accept, Turn, Stay, Slot, Ran
  <2> QED BY <1>1, <1>2, <1>3, <1>4, <2>1, <2>2 DEF SlotOK, OriginOK, BuiltInRequired, ReceiptOK
<1>10. CASE Reject(k)
  <2>1. rep'[k].origin = "error" /\ rep'[k].exec = FALSE
    BY <1>1, <1>10 DEF Reject, MarketError, Blank, TypeOK
  <2>2. stage = "market" /\ req.kind[k] = "market"
    BY <1>10 DEF Reject, Turn, Stay, Slot
  <2> QED BY <1>1, <1>2, <1>3, <1>4, <2>1, <2>2 DEF SlotOK, OriginOK, BuiltInRequired, ReceiptOK
<1> QED BY <1>6, <1>7, <1>8, <1>9, <1>10

LEMMA RegistryStep ==
    ASSUME IInv, NEW i \in Slots, AddRegistryOnly
    PROVE  SlotOK(i)'
<1>1. TypeOK /\ SlotOK(i)
  BY DEF IInv
<1>2. UNCHANGED <<req, run>> /\ stage = "local" /\ stage' = "runtime"
  BY DEF AddRegistryOnly, Goto
<1>3. SandboxOK(i)' /\ AssessedOK(i)'
  BY <1>2 DEF SandboxOK, AssessedOK
<1>4. CASE i \in Slot("registry")
  <2>1. rep'[i].origin = "registry" /\ rep'[i].exec = FALSE
    BY <1>4 DEF AddRegistryOnly, RegistryOnly, Blank
  <2>2. req.kind[i] = "registry"
    BY <1>4 DEF Slot
  <2> QED BY <1>1, <1>2, <1>3, <2>1, <2>2 DEF SlotOK, OriginOK, BuiltInRequired, ReceiptOK
<1>5. CASE i \notin Slot("registry")
  <2>1. rep'[i] = rep[i]
    BY <1>5 DEF AddRegistryOnly
  <2>2. req.kind[i] = "local" => rep[i].origin # "none"
    BY DEF AddRegistryOnly, Slot, Listed
  <2> QED BY <1>1, <1>2, <1>3, <2>1, <2>2 DEF SlotOK, OriginOK, BuiltInRequired, ReceiptOK
<1> QED BY <1>4, <1>5

\* A sandbox run writes its own receipt.
LEMMA RunStep ==
    ASSUME IInv, NEW i \in Slots, NEW k \in Slots, RunLocal(k) \/ RunMarket(k)
    PROVE  SlotOK(i)'
<1>1. TypeOK /\ SlotOK(i) /\ SlotOK(k)
  BY DEF IInv
<1>2. UNCHANGED <<req, rep, stage>> /\ stage \in {"runtime", "market"} /\ Sandbox(k)
  BY DEF RunLocal, RunMarket, Stay
<1>3. SandboxOK(i)' /\ AssessedOK(i)' /\ OriginOK(i)' /\ BuiltInRequired(i)'
  BY <1>1, <1>2 DEF SandboxOK, AssessedOK, SlotOK, OriginOK, BuiltInRequired
<1>4. CASE i # k
  <2>1. run'[i] = run[i]
    BY <1>1, <1>2, <1>4 DEF Sandbox, TypeOK
  <2> QED BY <1>1, <1>2, <1>3, <2>1 DEF SlotOK, ReceiptOK
<1>5. CASE i = k
  <2>1. /\ run'[k].key = rep[k].key
        /\ run'[k].state \in {"skipped", "failed", "completed"}
        /\ rep[k].exec => run'[k].state \in {"failed", "completed"}
    <3>1. CASE run' = [run EXCEPT ![k] = [@ EXCEPT !.state = "skipped", !.key = rep[k].key]] /\ ~rep[k].exec
      BY <1>1, <3>1 DEF TypeOK, Receipt
    <3>2. ASSUME NEW saw, NEW traced,
                 run' = [run EXCEPT ![k] =
                   [state |-> IF saw \cap {"entryError", "hardError"} = {} THEN "completed" ELSE "failed",
                    key |-> rep[k].key, saw |-> saw, trace |-> traced /\ "hardError" \notin saw]]
          PROVE  run'[k].key = rep[k].key /\ (run'[k].state = "failed" \/ run'[k].state = "completed")
      <4> DEFINE state == IF saw \cap {"entryError", "hardError"} = {} THEN "completed" ELSE "failed"
                 trace == traced /\ "hardError" \notin saw
      <4>1. run' = [run EXCEPT ![k] = [state |-> state, key |-> rep[k].key, saw |-> saw, trace |-> trace]]
        BY <3>2
      <4>2. state = "failed" \/ state = "completed"
        OBVIOUS
      <4> HIDE DEF state, trace
      <4> QED BY <1>1, <4>1, <4>2 DEF TypeOK
    <3> QED BY <1>2, <3>1, <3>2 DEF Sandbox
  <2>2. rep[k].origin # "none"
    BY <1>1, <1>2 DEF RunLocal, RunMarket, Stay, SlotOK, OriginOK, Slot
  <2> QED BY <1>1, <1>2, <1>3, <1>5, <2>1, <2>2 DEF SlotOK, ReceiptOK
<1> QED BY <1>4, <1>5

\* A set of slots has a first one.
LEMMA FirstFacts ==
    ASSUME NEW S \in SUBSET Slots, S # {}
    PROVE  First(S) \in S
<1>1. S \subseteq Nat
  BY RequestsOK DEF Slots
<1> DEFINE R == {ss \in Nat \X Nat : ss[1] < ss[2]}
<1>2. IsWellFoundedOn(R, Nat)
  BY NatLessThanWellFounded, Zenon DEF OpToRel
<1> HIDE DEF R
<1>3. PICK i \in S : \A j \in S : ~(<<j, i>> \in R)
  BY <1>1, <1>2, WFMin, Zenon
<1>4. ASSUME NEW j \in S PROVE i <= j
  <2>1. i \in Nat /\ j \in Nat /\ <<j, i>> \notin R
    BY <1>1, <1>3
  <2>2. j < i => <<j, i>> \in R
    <3>1. <<j, i>> \in Nat \X Nat /\ <<j, i>>[1] = j /\ <<j, i>>[2] = i
      BY <2>1
    <3> QED BY <3>1, Zenon DEF R
  <2> QED BY <2>1, <2>2
<1> QED BY <1>3, <1>4 DEF First

\* Marking passes change levels only.
LEMMA MarkStep ==
    ASSUME IInv, NEW i \in Slots, MatchFeed \/ MatchAdvisories \/ ApplyRegistry
    PROVE  SlotOK(i)'
<1>1. TypeOK /\ SlotOK(i)
  BY DEF IInv
<1>2. /\ UNCHANGED <<req, run>>
      /\ \/ stage = "feed" /\ stage' = "remote"
         \/ stage = "advisories" /\ stage' = "sandbox"
         \/ stage = "registry" /\ stage' = "finalize"
  BY DEF MatchFeed, MatchAdvisories, ApplyRegistry, Goto
<1>3. Kept(rep[i], rep'[i]) /\ rep'[i].cover = rep[i].cover
  BY <1>1, MarkPass
<1>4. OriginOK(i)' /\ BuiltInRequired(i)'
  BY <1>1, <1>2, <1>3 DEF SlotOK, OriginOK, BuiltInRequired, Kept
<1>5. ReceiptOK(i)'
  BY <1>1, <1>2, <1>3 DEF SlotOK, ReceiptOK, Kept
<1>6. SandboxOK(i)' /\ AssessedOK(i)'
  BY <1>1, <1>2, <1>3 DEF SlotOK, SandboxOK, AssessedOK, Traced, Kept
<1> QED BY <1>4, <1>5, <1>6 DEF SlotOK

LEMMA SandboxStep ==
    ASSUME IInv, NEW i \in Slots, ApplySandbox
    PROVE  SlotOK(i)'
<1> DEFINE c == Attach(rep[i].cover, "dynamic_sandbox", SandboxResult(i), RunNeeded(i))
<1>1. TypeOK /\ SlotOK(i)
  BY DEF IInv
<1>2. UNCHANGED <<req, run>> /\ stage = "sandbox" /\ stage' = "registry"
  BY DEF ApplySandbox, Goto
<1>3. Kept(rep[i], rep'[i]) /\ c \in Coverage /\ rep'[i].cover = Finalize(c)
  BY <1>1, SandboxPass
<1>4. rep[i].cover \in Coverage
  BY <1>1 DEF TypeOK, Report
<1>5. /\ rep[i].cover.required \ {"dynamic_sandbox"} \subseteq c.required
      /\ RunNeeded(i) => "dynamic_sandbox" \in c.required
      /\ c.result["dynamic_sandbox"] = SandboxResult(i)
  BY <1>4 DEF Attach, Coverage, Providers, RequestProviders
<1> HIDE DEF c
<1>6. rep'[i].cover.required = c.required \cup EnvRequired /\ rep'[i].cover.result = c.result
  BY <1>3, FinalizeFacts
<1>7. BuiltInRequired(i)'
  <2>1. "dynamic_sandbox" \notin BuiltIn
    BY ProvidersOK DEF RequestProviders
  <2> QED BY <1>1, <1>3, <1>5, <1>6, <2>1 DEF SlotOK, BuiltInRequired, Kept
<1>8. SandboxOK(i)'
  <2> SUFFICES ASSUME req.dynamic, rep[i].exec, rep[i].origin # "remote"
               PROVE  /\ RunNeeded(i)
                      /\ SandboxResult(i) = "completed" => Traced(i)
    BY <1>2, <1>3, <1>5, <1>6 DEF SandboxOK, Traced, Kept
  <2>1. run[i].state \in {"failed", "completed"} /\ run[i].key = rep[i].key
    BY <1>1, <1>2 DEF SlotOK, OriginOK, ReceiptOK
  <2>2. RunNeeded(i) /\ i \in Receipts(i)
    BY <2>1 DEF RunNeeded, Receipts
  <2>3. SandboxResult(i) = "completed" => RunCovers(i)
    BY <2>2 DEF SandboxResult
  <2>4. First(Receipts(i)) \in Receipts(i)
    BY <2>2, FirstFacts DEF Receipts
  <2>5. RunCovers(i) => Traced(i)
    BY <2>4 DEF RunCovers, Receipts, Traced
  <2> QED BY <2>2, <2>3, <2>5
<1> QED BY <1>1, <1>2, <1>3, <1>7, <1>8 DEF SlotOK, OriginOK, ReceiptOK, AssessedOK, Kept

LEMMA AssessStep ==
    ASSUME IInv, NEW i \in Slots, FinalizeAll
    PROVE  SlotOK(i)'
<1> DEFINE r == rep[i]
           c == FinalCover(r)
<1>1. TypeOK /\ SlotOK(i)
  BY DEF IInv
<1>2. UNCHANGED <<req, run>> /\ stage = "finalize" /\ stage' = "report"
  BY DEF FinalizeAll, Goto
<1>3. r \in Report /\ req \in Requests
  BY <1>1 DEF TypeOK
<1>4. rep'[i] = Assess(r)
  BY <1>1, AssessPass
<1>5. /\ Assess(r).origin = r.origin /\ Assess(r).exec = r.exec /\ Assess(r).key = r.key
      /\ Assess(r).cover = c /\ (Assess(r).skipped <=> c.state # "complete")
      /\ Assess(r).decision = Decide(Assess(r), FALSE)
      /\ Assess(r).outcome = Explain(Assess(r), Decide(Assess(r), FALSE))
  BY <1>3, AssessFacts
<1>6. /\ r.cover.required \ {"artifact_acquisition", "dependency_intelligence"} \subseteq c.required
      /\ EnvRequired \cup req.providers \cup {"extension_advisories"} \subseteq c.required
      /\ c.state = "complete" => ~c.gaps /\ \A p \in c.required : c.result[p] = "completed"
      /\ c.result["dynamic_sandbox"] = "completed" => r.cover.result["dynamic_sandbox"] = "completed"
  BY <1>3, FinalCoverFacts
<1> HIDE DEF c, r
<1>7. BuiltInRequired(i)'
  <2>1. "artifact_acquisition" \notin BuiltIn /\ "dependency_intelligence" \notin BuiltIn
    BY ProvidersOK DEF RequestProviders
  <2> QED BY <1>1, <1>4, <1>5, <1>6, <2>1 DEF SlotOK, BuiltInRequired, r
<1>8. SandboxOK(i)'
  BY <1>1, <1>2, <1>4, <1>5, <1>6 DEF SlotOK, SandboxOK, Traced, r
<1>9. AssessedOK(i)'
  <2>1. CompleteOK(i)'
    BY <1>2, <1>4, <1>5, <1>6, <1>7 DEF CompleteOK, Demanded, Scanned, BuiltInRequired
  <2>2. \E grown \in BOOLEAN : Assess(r).decision = Decide(Assess(r), grown)
    BY <1>5
  <2> QED BY <1>4, <1>5, <2>1, <2>2 DEF AssessedOK
<1> QED BY <1>1, <1>2, <1>4, <1>5, <1>7, <1>8, <1>9 DEF SlotOK, OriginOK, ReceiptOK, r

LEMMA ReportStep ==
    ASSUME IInv, NEW i \in Slots, BuildReport
    PROVE  SlotOK(i)'
<1>1. TypeOK /\ SlotOK(i)
  BY DEF IInv
<1>2. UNCHANGED <<req, run>> /\ stage = "report" /\ stage' = "done"
  BY DEF BuildReport, Goto
<1>3. /\ Kept(rep[i], rep'[i]) /\ rep'[i].cover = rep[i].cover
      /\ rep'[i].skipped = rep[i].skipped /\ rep'[i].level = rep[i].level
      /\ rep'[i].outcome = rep[i].outcome
  BY <1>1, ReportPass
<1>4. PICK grown \in BOOLEAN : rep'[i].decision = Decide(rep[i], grown)
  BY <1>1, ReportPass
<1>5. \A g \in BOOLEAN : Decide(rep'[i], g) = Decide(rep[i], g)
  BY <1>3 DEF Decide, Blocked, Uncovered
<1>6. \A d : Explain(rep'[i], d) = Explain(rep[i], d)
  BY <1>3 DEF Explain
<1>7. AssessedOK(i)'
  <2>1. CompleteOK(i)'
    BY <1>1, <1>2, <1>3 DEF SlotOK, AssessedOK, CompleteOK, Demanded, Scanned, Kept
  <2> QED BY <1>1, <1>2, <1>3, <1>4, <1>5, <1>6, <2>1 DEF SlotOK, AssessedOK
<1> QED BY <1>1, <1>2, <1>3, <1>7 DEF SlotOK, OriginOK, BuiltInRequired, ReceiptOK, SandboxOK, Traced, Kept

LEMMA InvInit == Init => IInv
<1> SUFFICES ASSUME Init, NEW i \in Slots PROVE SlotOK(i)
  BY TypeInit DEF IInv
<1>1. rep[i].origin = "none" /\ rep[i].exec = FALSE /\ run[i].state = "none" /\ stage = "load"
  BY DEF Init, Blank
<1> QED BY <1>1 DEF SlotOK, OriginOK, BuiltInRequired, ReceiptOK, SandboxOK, AssessedOK

LEMMA InvStep == IInv /\ [Next]_vars => IInv'
<1> SUFFICES ASSUME IInv, [Next]_vars PROVE IInv'
  OBVIOUS
<1>1. TypeOK'
  BY TypeStep DEF IInv
<1>2. ASSUME NEW i \in Slots PROVE SlotOK(i)'
  BY AdvanceStep, PutStep, RegistryStep, RunStep, MarkStep, SandboxStep, AssessStep, ReportStep DEF Next
<1> QED BY <1>1, <1>2 DEF IInv

\* What the passes establish about each report holds from the first state on;
\* the theorems below are what it says of a finished request.
THEOREM PipelineInvariant == Spec => []IInv
BY InvInit, InvStep, PTL DEF Spec

-----------------------------------------------------------------------------
(* The properties.                                                          *)

\* A report that is allowed or sent to review lacks nothing that the request,
\* the environment or the scanner demanded: required providers completed, no
\* structural gap, whatever was attached in which pass.
THEOREM ApprovalsAreCovered == Spec => []ApprovalIsCovered
<1>1. IInv => ApprovalIsCovered
  <2> SUFFICES ASSUME IInv, stage = "done", NEW i \in Slots, Approved(i)
               PROVE  /\ AnalysisStatus(rep[i]) = "complete"
                      /\ ~rep[i].cover.gaps
                      /\ \A p \in Demanded(i) : rep[i].cover.result[p] = "completed"
    BY DEF ApprovalIsCovered, Done
  <2>1. AssessedOK(i)
    BY DEF IInv, SlotOK
  <2>2. PICK grown \in BOOLEAN : rep[i].decision = Decide(rep[i], grown)
    BY <2>1 DEF AssessedOK
  <2>3. ~Uncovered(rep[i])
    BY <2>2 DEF Approved, Decide
  <2>4. rep[i].cover.state = "complete"
    BY <2>1, <2>3 DEF AssessedOK, Uncovered
  <2> QED BY <2>1, <2>3, <2>4 DEF AssessedOK, CompleteOK, AnalysisStatus
<1> QED BY <1>1, PipelineInvariant, PTL

\* With --runtime nothing executable is approved without a traced run of its
\* own bytes, although observations of several installations share their keys.
THEOREM RuntimeApprovalsAreCovered == Spec => []RuntimeIsCovered
<1>1. IInv => RuntimeIsCovered
  <2> SUFFICES ASSUME IInv, stage = "done", req.dynamic, NEW i \in Slots, Approved(i),
                      rep[i].exec, rep[i].origin # "remote"
               PROVE  \E j \in Slots : run[j].key = rep[i].key /\ run[j].trace
    BY DEF RuntimeIsCovered, Done
  <2>1. AssessedOK(i) /\ SandboxOK(i)
    BY DEF IInv, SlotOK
  <2>2. PICK grown \in BOOLEAN : rep[i].decision = Decide(rep[i], grown)
    BY <2>1 DEF AssessedOK
  <2>3. rep[i].cover.state = "complete"
    BY <2>1, <2>2 DEF Approved, Decide, AssessedOK, Uncovered
  <2>4. rep[i].cover.result["dynamic_sandbox"] = "completed"
    BY <2>1, <2>3 DEF AssessedOK, CompleteOK, SandboxOK
  <2> QED BY <2>1, <2>4 DEF SandboxOK, Traced
<1> QED BY <1>1, PipelineInvariant, PTL

\* Block evidence decides, whatever else failed, and the public outcome of a
\* blocked or incomplete report says so.
THEOREM BlockAlwaysHolds == Spec => []BlockHolds
<1>1. IInv => BlockHolds
  <2> SUFFICES ASSUME IInv, stage = "done", NEW i \in Slots
               PROVE  /\ rep[i].level >= Abuse <=> rep[i].decision = "block"
                      /\ rep[i].level = Malware <=> rep[i].outcome = "confirmed_threat"
                      /\ rep[i].decision = "incomplete" <=> rep[i].outcome = "incomplete"
    BY DEF BlockHolds, Done
  <2>1. AssessedOK(i) /\ rep[i].level \in Level
    BY DEF IInv, SlotOK, TypeOK, Report
  <2>2. PICK grown \in BOOLEAN : rep[i].decision = Decide(rep[i], grown)
    BY <2>1 DEF AssessedOK
  <2>3. rep[i].outcome = Explain(rep[i], Decide(rep[i], FALSE))
    BY <2>1 DEF AssessedOK
  <2> DEFINE blocked == rep[i].level >= Abuse
             uncovered == Uncovered(rep[i])
             again == rep[i].level = Review \/ grown
             first == rep[i].level = Review
  <2>4. rep[i].decision = CASE blocked -> "block"
                            [] ~blocked /\ uncovered -> "incomplete"
                            [] ~blocked /\ ~uncovered /\ again -> "review"
                            [] OTHER -> "allow"
    BY <2>2 DEF Decide, Blocked
  <2>5. Decide(rep[i], FALSE) = CASE blocked -> "block"
                            [] ~blocked /\ uncovered -> "incomplete"
                            [] ~blocked /\ ~uncovered /\ first -> "review"
                            [] OTHER -> "allow"
    BY DEF Decide, Blocked
  <2>6. /\ Decide(rep[i], FALSE) \in {"block", "incomplete", "review", "allow"}
        /\ Decide(rep[i], FALSE) = "block" <=> blocked
        /\ Decide(rep[i], FALSE) = "incomplete" <=> ~blocked /\ uncovered
    <3> HIDE DEF blocked, uncovered, first
    <3> QED BY <2>5
  <2>7. /\ rep[i].decision = "block" <=> blocked
        /\ rep[i].decision = "incomplete" <=> ~blocked /\ uncovered
    <3> HIDE DEF blocked, uncovered, again
    <3> QED BY <2>4
  <2>8. rep[i].level = Malware => blocked
    BY <2>1 DEF Malware, Abuse
  <2>9. /\ rep[i].outcome = "confirmed_threat" <=> blocked /\ rep[i].level = Malware
        /\ rep[i].outcome = "incomplete" <=> ~blocked /\ uncovered
    <3> HIDE DEF blocked, uncovered
    <3> QED BY <2>3, <2>6 DEF Explain
  <2> QED BY <2>7, <2>8, <2>9
<1> QED BY <1>1, PipelineInvariant, PTL

\* No pass forgets: a level never drops, and a limitation of the coverage goes
\* only with a provider that has completed by then.
THEOREM NothingIsForgotten == Spec => NothingForgotten
<1> DEFINE Grows(i) ==
      rep[i].origin # "none" /\ rep'[i].origin # "error" =>
            /\ rep[i].level <= rep'[i].level
            /\ \A l \in rep[i].cover.limits \ rep'[i].cover.limits :
                 l \in Providers /\ rep'[i].cover.result[l] = "completed"
<1>1. ASSUME IInv, [Next]_vars, NEW i \in Slots PROVE Grows(i)
  <2>1. TypeOK /\ rep[i] \in Report /\ OriginOK(i)
    BY <1>1 DEF IInv, TypeOK, SlotOK
  <2>2. CASE rep'[i].level = rep[i].level /\ rep'[i].cover = rep[i].cover
    BY <2>1, <2>2 DEF Report, Level, Clean, Malware
  <2>3. CASE Load \/ InputRaises \/ PoolDenied \/ WorkerDies \/ LocalRunsDone \/ MarketDone
               \/ RemoteRaises \/ RemoteDone \/ UNCHANGED vars
    <3>1. rep' = rep
      BY <2>3 DEF Load, InputRaises, PoolDenied, WorkerDies, LocalRunsDone, MarketDone, RemoteRaises,
                  RemoteDone, Raise, vars
    <3> QED BY <2>2, <3>1
  <2>4. CASE AddRegistryOnly
    <3>1. rep'[i] = rep[i] \/ rep[i].origin = "none"
      BY <2>1, <2>4 DEF AddRegistryOnly, Goto, OriginOK, Slot
    <3> QED BY <2>2, <3>1
  <2>5. ASSUME NEW k \in Slots, ScanLocal(k) \/ FetchRemote(k) PROVE Grows(i)
    <3>1. rep'[i] = rep[i] \/ rep[i].origin = "none"
      BY <2>1, <2>5 DEF ScanLocal, FetchRemote, Put, Listed, TypeOK
    <3> QED BY <2>2, <3>1
  <2>6. ASSUME NEW k \in Slots, Acquire(k) PROVE Grows(i)
    <3>1. rep'[i] = rep[i] \/ rep[i].origin = "none"
      BY <2>1, <2>6 DEF Acquire, Put, TypeOK
    <3> QED BY <2>2, <3>1
  <2>7. ASSUME NEW k \in Slots, RunLocal(k) \/ RunMarket(k) PROVE Grows(i)
    <3>1. rep' = rep
      BY <2>7 DEF RunLocal, RunMarket
    <3> QED BY <2>2, <3>1
  <2>8. ASSUME NEW k \in Slots, Accept(k) PROVE Grows(i)
    <3>1. rep'[i].level = rep[i].level /\ rep'[i].cover = rep[i].cover
      BY <2>1, <2>8 DEF Accept, TypeOK, Report
    <3> QED BY <2>2, <3>1
  <2>9. ASSUME NEW k \in Slots, Reject(k) PROVE Grows(i)
    <3>1. rep'[i] = rep[i] \/ rep'[i].origin = "error"
      BY <2>1, <2>9 DEF Reject, MarketError, Blank, TypeOK
    <3> QED BY <2>2, <3>1
  <2>10. CASE MatchFeed \/ MatchAdvisories \/ ApplyRegistry
    BY <2>1, <2>10, MarkPass DEF Kept
  <2>11. CASE ApplySandbox
    <3> DEFINE c == Attach(rep[i].cover, "dynamic_sandbox", SandboxResult(i), RunNeeded(i))
    <3>1. Kept(rep[i], rep'[i]) /\ c \in Coverage /\ rep'[i].cover = Finalize(c)
      BY <2>1, <2>11, SandboxPass
    <3>2. c.limits = rep[i].cover.limits
      BY <2>1 DEF Attach, Report, Coverage
    <3> HIDE DEF c
    <3> QED BY <3>1, <3>2, FinalizeFacts DEF Kept
  <2>12. CASE FinalizeAll
    <3>1. rep'[i] = Assess(rep[i]) /\ req \in Requests
      BY <2>1, <2>12, AssessPass DEF TypeOK
    <3>2. rep'[i].level = rep[i].level /\ rep'[i].cover = FinalCover(rep[i])
      BY <2>1, <3>1, AssessFacts
    <3>3. \A l \in rep[i].cover.limits \ FinalCover(rep[i]).limits :
            l \in Providers /\ FinalCover(rep[i]).result[l] = "completed"
      BY <2>1, <3>1, FinalCoverFacts
    <3> QED BY <2>1, <3>2, <3>3 DEF Report, Level, Clean, Malware
  <2>13. CASE BuildReport
    BY <2>1, <2>2, <2>13, ReportPass
  <2> QED BY <1>1, <2>3, <2>4, <2>5, <2>6, <2>7, <2>8, <2>9, <2>10, <2>11, <2>12, <2>13 DEF Next
<1>2. IInv /\ [Next]_vars => [\A i \in Slots : Grows(i)]_vars
  BY <1>1
<1> QED BY <1>2, PipelineInvariant, PTL DEF Spec, NothingForgotten
=============================================================================
