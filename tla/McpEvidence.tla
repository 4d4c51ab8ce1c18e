----------------------------- MODULE McpEvidence -----------------------------
(***************************************************************************)
(* What the extractors of mcp/extractors conclude about one MCP server.    *)
(* An environment e says how the server, the registries, the language      *)
(* model and the local tools answer; each extractor is the function from   *)
(* e, and from what it picks at random, to the evidence that McpMetrics    *)
(* scores, or to Raises: an exception that leaves it.                      *)
(***************************************************************************)
EXTENDS McpMetrics, ScaPipeline

Raises == [raises |-> TRUE]

\* Answers of the language model: fails (it raises), empty (it has no text),
\* or what it says.
Answers(a) == a \notin {"fails", "empty"}

\* _normalize_input: local when it is told so, and without a URL.
Local(s)   == s.flag \/ s.stdio \/ s.url = "none"
Remote(s)  == ~Local(s)

-----------------------------------------------------------------------------
(* Classification.  human: a verified officiality that came with the input; *)
(* github: answers of its API; saas, match: answers of the model.           *)

\* The requests of get_repo, get_latest_commit, search_prs and get_org.
GitHubAsked(g) ==
    {"repo", "prs"} \cup (IF g.token THEN {"commit"} ELSE {})
        \cup (IF g.token /\ g.repo = "ok" THEN {"org"} ELSE {})

\* A request that fails gives nothing, an answer that is not JSON raises.
MetadataRaises(e) ==
    e.server.repo_url /\ \E q \in GitHubAsked(e.github) : e.github[q] = "garbled"

\* Variant: a model that cannot answer lets the claim stand.
OfficialByDefault(e) ==
    IF e.server.human # "none" THEN e.server.human = "official"
    ELSE e.server.repo_url /\ e.saas # "unknown" /\ e.match \in {"official", "fails"}

Official(e) ==
    IF e.server.human # "none" THEN e.server.human = "official"
    ELSE e.server.repo_url /\ e.saas = "named" /\ e.match = "official"

\* The model's answer is read outside of the try block: an empty one raises.
ClassificationRaises(e) ==
    \/ MetadataRaises(e)
    \/ e.server.human = "invalid"
    \/ /\ e.server.human = "none" /\ e.server.repo_url
       /\ e.saas = "empty" \/ (e.saas = "named" /\ e.match = "empty")

Classification(e) ==
    IF ClassificationRaises(e) THEN Raises
    ELSE [local |-> Local(e.server), official |-> Official(e), repo |-> e.server.repo_url]

-----------------------------------------------------------------------------
(* Transport.  net: scheme of the URL; tls, what the handshake comes to;    *)
(* legacy, whether TLS 1.1 and 1.0 are accepted; plain, the answer over     *)
(* HTTP; hops of its redirects, each external or not and with a scheme.     *)

LegacyAccepted(net) == \E v \in DOMAIN net.legacy : net.legacy[v]

\* _audit_redirect_chain: an external hop, a step from https to http, a loop,
\* or an end in http.  It starts from the http URL.
SchemeBefore(net, i) == IF i = 1 THEN "http" ELSE net.hops[i - 1].scheme
ChainUnsafe(net) ==
    \/ net.end = "loop"
    \/ \E i \in DOMAIN net.hops : \/ net.hops[i].external
                                  \/ SchemeBefore(net, i) = "https" /\ net.hops[i].scheme = "http"
    \/ net.end = "http"

Downgrade(net) ==
    CASE net.plain = "refused"                          -> "strong"
      [] net.plain = "answers"                          -> "http_fallback"
      [] net.plain = "redirects" /\ net.end = "lost"    -> "none"
      [] net.plain = "redirects" /\ net.end # "lost"    ->
             IF ChainUnsafe(net) THEN "unsafe_redirect" ELSE "safe_redirect"
      [] OTHER                                          -> "none"

\* The level when the TLS connection was not made.
NoTlsLevel(net) ==
    CASE net.tls = "dns"                                    -> "none"
      [] net.tls = "badcert"                                -> "invalid_cert"
      [] net.tls = "handshake" /\ LegacyAccepted(net)       -> "legacy"
      [] net.tls \notin {"dns", "badcert"} /\ ~(net.tls = "handshake" /\ LegacyAccepted(net)) ->
             IF net.scheme = "http" THEN "http_only" ELSE "none"

Fingerprint(e) ==
    LET net == e.net
        up  == net.tls \in {"modern", "weak"}
        Of(level, tls) == [local |-> Local(e.server), url |-> e.server.url # "none",
                           level |-> level, tls |-> tls]
    IN  CASE Local(e.server)                                -> Of("none", "none")
          [] Remote(e.server) /\ e.server.url = "badport"   -> Raises
          [] Remote(e.server) /\ e.server.url = "nohost"    -> Of("none", "none")
          [] Remote(e.server) /\ e.server.url = "ok"        ->
                 CASE ~up                                   -> Of(NoTlsLevel(net), "none")
                   [] net.tls = "weak"                      -> Of("legacy", "weak")
                   [] net.tls = "modern" /\ LegacyAccepted(net) -> Of("legacy", "modern")
                   [] OTHER                                 -> Of(Downgrade(net), "modern")

-----------------------------------------------------------------------------
(* Authentication.  auth: a host that is known to use OAuth; which          *)
(* well-known documents name an authorization server; the page (lost, or    *)
(* what it shows); what tools reply to a call without credentials.          *)

CONSTANT SampleSize

\* The tools that are called, picked at random.
Samples(auth) ==
    LET n == Cardinality(DOMAIN auth.replies)
    IN  kSubset(IF n < SampleSize THEN n ELSE SampleSize, DOMAIN auth.replies)

\* A reply that asks for credentials, whatever its status; demands, lost,
\* serves (200 or 422) or fails.
Demands(reply) == reply = "demands"

\* _confirm_no_auth: no called tool asks for credentials and one serves.
NoAuthConfirmed(auth, sample) ==
    /\ auth.initialize /\ auth.list
    /\ \A t \in sample : ~Demands(auth.replies[t]) /\ auth.replies[t] # "lost"
    /\ \E t \in sample : auth.replies[t] = "serves"

\* _probe_remote_auth_modes; {} stands for None.
ProbedModes(auth, sample) ==
    LET oauth == IF auth.known # {} \/ (auth.page # "lost" /\ "metadata" \in auth.shows)
                 THEN {"oauth"} ELSE {}
        key   == IF auth.page # "lost" /\ "key" \in auth.shows THEN {"api_key"} ELSE {}
        open  == IF /\ auth.page # "lost" /\ oauth \cup key = {} /\ NoAuthConfirmed(auth, sample)
                 THEN {"no_auth"} ELSE {}
        modes == oauth \cup key \cup open
    IN  CASE auth.smithery                                       -> {"oauth"}
          [] ~auth.smithery /\ auth.broken                       -> {}
          [] ~auth.smithery /\ ~auth.broken /\ auth.page = "lost" -> modes
          [] OTHER                              -> IF modes = {} THEN {"unknown"} ELSE modes

\* google_search takes api_key and search_cx; it is called with the names
\* google_api_key and google_search_cx, which it ignores.
SearchedPages == {}

SearchFailed == {"failed"}

\* _classify_auth_modes_with_search: a set of modes, or that it failed.
SearchedModes(auth) ==
    CASE ~auth.keys \/ SearchedPages = {} \/ auth.answer = "fails" -> SearchFailed
      [] auth.keys /\ SearchedPages # {} /\ auth.answer = "empty"  -> {"unknown"}
      [] OTHER                                  -> auth.says \ {"no_auth"}

\* _probe_oauth_metadata: what the authorization server says of itself.
ServerMetadata(auth) ==
    IF auth.document THEN [known |-> TRUE, pkce |-> auth.pkce, registration |-> auth.registration]
    ELSE [known |-> FALSE, pkce |-> {}, registration |-> FALSE]

NoMetadata == [known |-> FALSE, pkce |-> {}, registration |-> FALSE]

Real(modes) == IF modes \ {"unknown"} = {} THEN modes ELSE modes \ {"unknown"}

AuthModes(e, sample) ==
    LET probed   == ProbedModes(e.auth, sample)
        searched == IF "no_auth" \in probed THEN {} ELSE SearchedModes(e.auth)
        Of(modes, meta) == [local |-> Local(e.server), modes |-> modes, meta |-> meta]
    IN  CASE Local(e.server)                              -> Of({}, NoMetadata)
          [] Remote(e.server) /\ searched = SearchFailed      -> Of(probed, NoMetadata)
          [] Remote(e.server) /\ searched # SearchFailed /\ probed = {} -> Of(searched, NoMetadata)
          [] OTHER                 -> Of(Real(probed \cup searched), ServerMetadata(e.auth))

-----------------------------------------------------------------------------
(* Advisories about the server's own package, from OSV.                     *)

CONSTANTS Retries, MaxPages

\* A page: its attempts (ok, 5xx, 4xx, drop), its records and next token.
PageRead(p) ==
    \E i \in 1..(Retries + 1) : /\ i \in DOMAIN p.attempts /\ p.attempts[i] = "ok"
                                /\ \A j \in 1..(i - 1) : p.attempts[j] \in {"5xx", "drop"}

\* The pages asked for: up to one without a next token, with a token that
\* was already followed, or the limit.
PagesAsked(q) ==
    LET last(k) == q[k].next = "" \/ (\E j \in 1..(k - 1) : q[j].next = q[k].next) \/ k = MaxPages
        n == CHOOSE k \in DOMAIN q : last(k) /\ \A j \in 1..(k - 1) : ~last(j)
    IN  1..n

FetchRaises(q) == \E k \in PagesAsked(q) : ~PageRead(q[k])
Fetched(q)     == FlattenSeq([k \in PagesAsked(q) |-> q[k].vulns])

\* _resolve_package: npx, uvx and pipx are known to OSV; a version in the
\* command stays in the name, under which nothing is known.
Ecosystems(s) == s.command \in {"npx", "npx@", "uvx", "pipx"}
NamePinned(s) == s.command = "npx@"

OneEmptyPage == <<[attempts |-> <<"ok">>, vulns |-> <<>>, next |-> ""]>>

\* _dedupe_vulns: unlike OsvOnce, it forgets what a dropped record lists.
Distinct(vs) ==
    FoldLeft(LAMBDA a, v : IF v.ids \cap a.seen # {} THEN a
                           ELSE [seen |-> a.seen \cup v.ids, out |-> Append(a.out, v)],
             [seen |-> {}, out |-> <<>>], vs).out

\* What affects the latest version; nothing when that cannot be told
\* (osv.latest <<>>: the registry gave no version).
LatestKeys(e) ==
    IF ~Ecosystems(e.server) \/ NamePinned(e.server) \/ e.osv.latest = <<>> \/ FetchRaises(e.osv.latest)
    THEN {} ELSE UNION {v.ids : v \in ToSet(Fetched(e.osv.latest))}

Shaped(e, v) == [id |-> v.id, high |-> v.high, latest |-> v.ids \cap LatestKeys(e) # {}]

PackageCves(e) ==
    LET s      == e.server
        named  == IF NamePinned(s) THEN OneEmptyPage ELSE e.osv.named
        all    == (IF Ecosystems(s) THEN Fetched(named) ELSE <<>>)
                    \o (IF s.repo_url THEN Fetched(e.osv.git) ELSE <<>>)
        failed == \/ Ecosystems(s) /\ FetchRaises(named)
                  \/ s.repo_url /\ FetchRaises(e.osv.git)
    IN  CASE ~Ecosystems(s) /\ ~s.repo_url -> [success |-> TRUE, queryable |-> FALSE, vulns |-> {}]
          [] (Ecosystems(s) \/ s.repo_url) /\ failed ->
                 [success |-> FALSE, queryable |-> FALSE, vulns |-> {}]
          [] OTHER -> [success |-> TRUE, queryable |-> TRUE,
                       vulns |-> {Shaped(e, v) : v \in ToSet(Distinct(all))}]

-----------------------------------------------------------------------------
(* Tools and their source.  The answers of the model to: building the tools *)
(* from source, tagging them, enriching them, their metadata, their code.   *)

\* _SEVERITY_MAP: the kinds of finding whose severity differs.
Severity(id, remote) ==
    CASE id = "t1_08"                  -> IF remote THEN "high" ELSE "medium"
      [] id = "t1_09"                  -> IF remote THEN "na" ELSE "high"
      [] id = "t2_06" /\ ~remote       -> "na"
      [] id \in {"t2", "t2_06"} /\ (remote \/ id = "t2") -> "medium"
      [] OTHER                         -> "high"

Tier(id) == IF id \in {"t2", "t2_06"} THEN 2 ELSE 1

\* Two passes, of which the second one's findings count.
CodeFindings(e) ==
    LET rated == {[tier |-> Tier(id), severity |-> Severity(id, Remote(e.server))] : id \in e.taint.found}
    IN  {f \in rated : f.severity # "na"}

SourceAnalysis(e) ==
    [repo |-> e.server.repo_path, tools |-> TRUE,
     findings |-> IF ~e.server.repo_path \/ ~e.taint.first \/ ~e.taint.second THEN {}
                  ELSE CodeFindings(e)]

\* The tools, with what the model and the metadata analysis add to them.
Enriched(e) == IF Answers(e.enrich) THEN "some" ELSE "fails"

\* _build_or_tag_tools, _enrich_tools_deep: fails, none or some.
ToolsBuilt(e) ==
    CASE e.server.repo_path /\ e.ingest = "fails"                               -> "fails"
      [] e.server.repo_path /\ e.ingest # "fails" /\ e.server.tools = "none" /\ e.build # "some" ->
             IF e.build = "none" THEN "none" ELSE "fails"
      [] e.server.repo_path /\ e.ingest # "fails" /\ e.server.tools = "some" /\ e.tag = "fails" -> "fails"
      [] OTHER                                   -> Enriched(e)

NoTools == [tools |-> FALSE, tier1 |-> FALSE, source |-> Absent]

ToolAnalysis(e) ==
    CASE e.server.tools = "bad"                                  -> Raises
      [] e.server.tools = "none" /\ ~e.server.repo_path          -> NoTools
      [] e.server.tools # "bad" /\ (e.server.tools = "some" \/ e.server.repo_path)
            /\ ToolsBuilt(e) # "some"                            -> NoTools
      [] OTHER -> [tools |-> TRUE, tier1 |-> e.metadata = "poisoned",
                   source |-> IF Answers(e.metadata) THEN SourceAnalysis(e) ELSE Absent]

-----------------------------------------------------------------------------
(* Secrets.  gitleaks: lost (no JSON on its output) or leaks; leaks: a      *)
(* sequence of findings, code, doc, dummy or unlocated, with their size.    *)

CONSTANT Budget   \* of the context given to the judge

Candidates(leaks) == {i \in DOMAIN leaks : leaks[i].kind = "code"}

\* _prepare_llm_context: up to the first that exceeds the budget.
Judged(leaks) ==
    {i \in Candidates(leaks) :
        SumFunctionOnSet([j \in DOMAIN leaks |-> leaks[j].size], {j \in Candidates(leaks) : j <= i})
            <= Budget}

\* The judge's verdicts are matched by index, whatever it was shown.
Confirmed(e) == {i \in e.leaky : i \in DOMAIN e.leaks}

SecretsScan(e) ==
    LET Of(error, found) == [repo |-> e.server.repo_path, error |-> error, found |-> found]
    IN  CASE ~e.server.repo_path                        -> Of(FALSE, FALSE)
          [] e.server.repo_path /\ e.gitleaks = "lost"  -> Of(TRUE, FALSE)
          [] e.server.repo_path /\ e.gitleaks # "lost" /\ Judged(e.leaks) = {} -> Of(FALSE, FALSE)
          [] OTHER ->
                CASE e.judge \in {"empty", "noprompt"}  -> Raises
                  [] e.judge = "fails"                  -> Of(TRUE, FALSE)
                  [] OTHER                              -> Of(FALSE, Confirmed(e) # {})

-----------------------------------------------------------------------------
ScaResults(e) ==
    IF e.server.repo_path THEN SCA(e.repo)
    ELSE [repo |-> FALSE, success |-> FALSE, malware |-> FALSE, highs |-> {}]

Extractors == {"classification", "fingerprint", "auth", "sca", "cve", "tools", "secrets"}

\* What an extractor gives; only authentication picks anything.
Extracted(x, e, sample) ==
    CASE x = "classification" -> Classification(e)
      [] x = "fingerprint"    -> Fingerprint(e)
      [] x = "auth"           -> AuthModes(e, sample)
      [] x = "sca"            -> ScaResults(e)
      [] x = "cve"            -> PackageCves(e)
      [] x = "tools"          -> ToolAnalysis(e)
      [] OTHER                -> SecretsScan(e)
=============================================================================
