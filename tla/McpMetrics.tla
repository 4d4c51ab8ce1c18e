----------------------------- MODULE McpMetrics -----------------------------
(***************************************************************************)
(* From the evidence about one MCP server to the report on it: the twelve  *)
(* metrics of mcp/runners, their weighted tree (mcp/spec.py, mcp/engine.py) *)
(* and the decision of mcp/orchestrator.py.  Scores are in hundredths; a   *)
(* mean is kept as a fraction, <<sum, weight>>.  A veto is a number, as it *)
(* is ordered in VETO_ORDER.                                               *)
(***************************************************************************)
EXTENDS Integers, FiniteSets, FiniteSetsExt, Functions

Pass    == 0
Warning == 1
Failure == 2

Unscored   == <<0, 0>>
Scored(o)  == o.score # Unscored
Out(s, v)  == [score |-> <<s, 1>>, veto |-> v]

\* Skipped or failed: no score, no veto.
Silent == [score |-> Unscored, veto |-> Pass]

HigherVeto(vs) ==
    IF Failure \in vs THEN Failure ELSE IF Warning \in vs THEN Warning ELSE Pass

\* A subject that its extractor did not give.
Absent == [absent |-> TRUE]

-----------------------------------------------------------------------------
(* Metrics of the server itself.                                            *)

Hosting(c) ==
    CASE ~c.local /\ c.official  -> Out(0, Pass)
      [] c.local /\ c.official   -> Out(15, Pass)
      [] c.local /\ ~c.official  -> Out(50, Pass)
      [] OTHER                   -> Out(100, Warning)

Opacity(c) ==
    CASE c.repo                            -> Out(0, Pass)
      [] ~c.repo /\ ~c.local /\ c.official -> Out(0, Pass)
      [] ~c.repo /\ c.local /\ c.official  -> Out(40, Pass)
      [] ~c.repo /\ ~c.local /\ ~c.official -> Out(70, Pass)
      [] OTHER                             -> Out(100, Pass)

Levels == {"strong", "safe_redirect", "legacy", "http_fallback", "unsafe_redirect",
           "invalid_cert", "http_only"}

\* "modern", "weak" (below TLS 1.2), "none": what the handshake negotiated.
Versions == {"modern", "weak", "none"}

LevelScore ==
    [strong |-> 0, safe_redirect |-> 0, legacy |-> 40, http_fallback |-> 50,
     unsafe_redirect |-> 60, invalid_cert |-> 85, http_only |-> 100]

LevelVeto(f) ==
    CASE f.level \in {"invalid_cert", "http_only"}     -> Failure
      [] f.level = "legacy" /\ f.tls = "none"          -> Failure
      [] f.level = "legacy" /\ f.tls # "none"          -> Warning
      [] OTHER                                         -> Pass

\* level "none": every reason for which no level was found.
Transport(f) ==
    IF f.local \/ ~f.url \/ f.level = "none" THEN Silent
    ELSE Out(LevelScore[f.level], LevelVeto(f))

Modes == {"oauth", "pat", "api_key", "unknown", "no_auth"}

\* modes {}: the modes are None.
AuthStrength(a) ==
    CASE a.local \/ a.modes = {}                        -> Silent
      [] ~a.local /\ a.modes = {"oauth"}                -> Out(0, Pass)
      [] ~a.local /\ "oauth" \in a.modes /\ a.modes # {"oauth"} -> Out(60, Pass)
      [] ~a.local /\ "oauth" \notin a.modes /\ a.modes \cap {"api_key", "pat"} # {} ->
             Out(60, Warning)
      [] OTHER                                          -> Out(100, Warning)

Pkce(a) ==
    CASE a.local                             -> Silent
      [] ~a.local /\ ~a.meta.known           -> Out(35, Pass)
      [] ~a.local /\ a.meta.known /\ "S256" \notin a.meta.pkce -> Out(100, Pass)
      [] ~a.local /\ a.meta.known /\ {"S256", "plain"} \subseteq a.meta.pkce -> Out(60, Pass)
      [] OTHER                               -> Out(0, Pass)

Registration(a) ==
    CASE a.local                   -> Silent
      [] ~a.local /\ ~a.meta.known -> Out(35, Pass)
      [] OTHER                     -> Out(IF a.meta.registration THEN 0 ELSE 100, Pass)

-----------------------------------------------------------------------------
(* Metrics of its dependencies, its package, its tools and its repository.  *)

Malicious(s) ==
    IF ~s.repo \/ ~s.success THEN Silent
    ELSE IF s.malware THEN Out(100, Failure) ELSE Out(0, Pass)

VulnScore(v) ==
    CASE v.direct /\ v.reachable           -> 100
      [] v.direct /\ ~v.reachable          -> IF v.used THEN 80 ELSE 75
      [] ~v.direct                         -> IF v.reachable THEN 60 ELSE 35

\* highs: the HIGH and CRITICAL ones.
Vulnerability(s) ==
    LET direct == {v \in s.highs : v.direct}
    IN  IF ~s.repo \/ ~s.success THEN Silent
        ELSE Out(Max({0} \cup {VulnScore(v) : v \in s.highs}),
                 CASE \E v \in s.highs : v.reachable -> Failure
                   [] (\A v \in s.highs : ~v.reachable)
                        /\ (Cardinality(direct) >= 5 \/ \E v \in direct : v.used) -> Warning
                   [] OTHER -> Pass)

PackageCve(c) ==
    LET latest == {v \in c.vulns : v.latest}
        score  == CASE c.vulns = {}                         -> 0
                    [] \E v \in latest : v.high             -> 100
                    [] latest # {} /\ \A v \in latest : ~v.high -> 70
                    [] c.vulns # {} /\ latest = {}          -> IF \E v \in c.vulns : v.high
                                                               THEN 80 ELSE 40
    IN  IF ~c.success \/ ~c.queryable THEN Silent
        ELSE Out(score, IF latest # {} THEN Warning ELSE Pass)

Metadata(t) ==
    IF ~t.tools THEN Silent ELSE IF t.tier1 THEN Out(100, Failure) ELSE Out(0, Pass)

\* Of the analysis nested in the tool analysis; findings that apply.
SourceFindings(t) ==
    LET tier1 == {f \in t.source.findings : f.tier = 1}
        grave == \E f \in tier1 : f.severity = "high"
    IN  CASE tier1 # {}                          -> Out(IF grave THEN 100 ELSE 75,
                                                        IF grave THEN Failure ELSE Pass)
          [] tier1 = {} /\ t.source.findings # {} -> Out(60, Pass)
          [] OTHER                               -> Out(0, Pass)

ToolSource(t) ==
    IF t.source = Absent \/ ~t.source.repo \/ ~t.source.tools THEN Silent
    ELSE SourceFindings(t)

Secrets(s) ==
    IF ~s.repo \/ s.error THEN Silent
    ELSE IF s.found THEN Out(100, Failure) ELSE Out(0, Pass)

-----------------------------------------------------------------------------
(* The tree of metrics.  Weights of the tools module are doubled (3.5, 6.5). *)

RootWeight == [hosting |-> 3, transport |-> 1, auth |-> 1, code |-> 2, tools |-> 2, secrets |-> 1]
AuthWeight == [strength |-> 6, pkce |-> 3, registration |-> 1]
CodeWeight == [opacity |-> 2, malicious |-> 4, vulnerability |-> 4, cve |-> 2]
ToolWeight == [metadata |-> 7, source |-> 13]

\* The weighted mean of the children that have a score.
Mean(weight, out) ==
    LET use   == {c \in DOMAIN weight : Scored(out[c])}
        whole == FoldFunctionOnSet(LAMBDA a, b : a * b, 1, [c \in DOMAIN weight |-> out[c].score[2]], use)
        part  == [c \in DOMAIN weight |->
                    IF c \in use THEN weight[c] * out[c].score[1] * (whole \div out[c].score[2])
                    ELSE 0]
    IN  IF use = {} THEN Unscored
        ELSE <<SumFunctionOnSet(part, use), whole * SumFunctionOnSet(weight, use)>>

Vetoes(out) == {out[c].veto : c \in DOMAIN out}

Module(weight, out) == [score |-> Mean(weight, out), veto |-> HigherVeto(Vetoes(out))]

AuthLeaves(e) ==
    [strength |-> AuthStrength(e.auth), pkce |-> Pkce(e.auth), registration |-> Registration(e.auth)]
CodeLeaves(e) ==
    [opacity |-> Opacity(e.classification), malicious |-> Malicious(e.sca),
     vulnerability |-> Vulnerability(e.sca), cve |-> PackageCve(e.cve)]
ToolLeaves(e) == [metadata |-> Metadata(e.tools), source |-> ToolSource(e.tools)]
OwnLeaves(e)  ==
    [hosting |-> Hosting(e.classification), transport |-> Transport(e.fingerprint),
     secrets |-> Secrets(e.secrets)]

Metrics(e) ==
    LET own == OwnLeaves(e)
    IN  Module(RootWeight,
               [hosting |-> own.hosting, transport |-> own.transport, secrets |-> own.secrets,
                auth    |-> Module(AuthWeight, AuthLeaves(e)),
                code    |-> Module(CodeWeight, CodeLeaves(e)),
                tools   |-> Module(ToolWeight, ToolLeaves(e))])

\* Variant: the report gives the veto where a decision is expected.
ReportVeto(e) ==
    LET m == Metrics(e)
    IN  [decision |-> IF m.veto = Failure THEN "failure" ELSE "allow", score |-> m.score, veto |-> m.veto]

\* The report: a veto first, then the mean against 0.60.
Report(e) ==
    LET m == Metrics(e)
    IN  [decision |->
           CASE m.veto = Failure                    -> "block"
             [] m.veto = Warning                    -> "review"
             [] m.veto = Pass /\ Scored(m)          ->
                    IF m.score[1] >= 60 * m.score[2] THEN "review" ELSE "allow"
             [] OTHER                               -> "incomplete",
         score |-> m.score, veto |-> m.veto]
=============================================================================
