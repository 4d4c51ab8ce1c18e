-------------------------------- MODULE MCMcp --------------------------------
(* Servers and worlds for TLC: a quiet one, of which one part is varied.    *)
EXTENDS McpAssessment, TLC

\* Versions: 1 and 2, the range ^1 and none; the manifest asks for ==2.
MCRanges  == {"", "^1"}
MCBare    == ("" :> "") @@ ("1" :> "1") @@ ("2" :> "2") @@ ("==2" :> "2") @@ ("^1" :> "^1")
MCOrder   == <<"A", "B", "C", "M", "N">>
MCMalware == {"M", "N"}

NoFile == [ok |-> TRUE, old |-> FALSE, listed |-> <<>>, roots |-> <<>>, beside |-> <<>>]

NoRepo ==
    [locks |-> {}, manifests |-> {}, made |-> {}, manager |-> "package-lock.json",
     order |-> <<"package-lock.json", "yarn.lock", "pnpm-lock.yaml", "bun.lock", "uv.lock",
                 "requirements.txt", "Cargo.lock", "go.mod">>,
     file |-> [k \in Kinds |-> NoFile], asked |-> <<>>, depscan |-> "ok", osv |-> "silent",
     broken |-> FALSE, vdrs |-> <<>>, found |-> <<>>, listed |-> {}]

Page(vulns, next) == [attempts |-> <<"ok">>, vulns |-> vulns, next |-> next]
NoAdvisory == <<Page(<<>>, "")>>

Quiet ==
    [object |-> TRUE,
     server |-> [flag |-> FALSE, stdio |-> FALSE, url |-> "ok", repo_url |-> TRUE,
                 repo_path |-> TRUE, human |-> "none", tools |-> "some", command |-> "npx"],
     github |-> [token |-> TRUE, repo |-> "ok", prs |-> "ok", commit |-> "ok", org |-> "ok"],
     saas |-> "named", match |-> "official",
     net |-> [scheme |-> "https", tls |-> "modern", legacy |-> [v \in {"1.1", "1.0"} |-> FALSE],
              plain |-> "refused", hops |-> <<>>, end |-> "https"],
     auth |-> [smithery |-> FALSE, broken |-> FALSE, known |-> {"known"}, page |-> "answers",
               shows |-> {}, initialize |-> TRUE, list |-> TRUE, replies |-> <<>>, keys |-> TRUE,
               answer |-> "ok", says |-> {"oauth"}, document |-> TRUE,
               pkce |-> {"S256"}, registration |-> TRUE],
     osv |-> [named |-> NoAdvisory, latest |-> NoAdvisory, git |-> NoAdvisory],
     ingest |-> "ok", build |-> "some", tag |-> "ok", enrich |-> "ok", metadata |-> "clean",
     taint |-> [first |-> TRUE, second |-> TRUE, found |-> {}],
     gitleaks |-> "leaks", leaks |-> <<>>, judge |-> "ok", leaky |-> {},
     repo |-> NoRepo]

\* Who runs it and who says so.
Operated ==
    {[Quiet EXCEPT !.server.human = h, !.server.url = u, !.server.repo_url = r, !.server.repo_path = p,
                   !.saas = w[1], !.match = w[2]] :
        h \in {"none", "official", "invalid"}, u \in {"none", "ok"}, r \in BOOLEAN, p \in BOOLEAN,
        w \in {<<"named", "official">>, <<"named", "other">>, <<"named", "empty">>, <<"named", "fails">>,
               <<"unknown", "official">>, <<"fails", "official">>, <<"empty", "official">>}}

\* Answers of GitHub.
Hosted ==
    {[Quiet EXCEPT !.github = [token |-> t, repo |-> a, prs |-> b, commit |-> c, org |-> d]] :
        t \in BOOLEAN, a \in {"ok", "failed"}, b \in {"ok", "garbled"}, c \in {"ok", "garbled"},
        d \in {"ok", "garbled"}}

\* Transports.
Hop(x, s) == [external |-> x, scheme |-> s]
Connected ==
    {[Quiet EXCEPT !.net.scheme = s, !.net.tls = t, !.net.legacy["1.0"] = l] :
        s \in {"http", "https"}, l \in BOOLEAN,
        t \in {"modern", "weak", "badcert", "handshake", "dns", "down"}}
    \cup {[Quiet EXCEPT !.net.plain = "redirects", !.net.hops = h, !.net.end = n] :
        h \in {<<Hop(FALSE, "https")>>, <<Hop(FALSE, "https"), Hop(FALSE, "http")>>,
               <<Hop(TRUE, "https")>>},
        n \in {"https", "http", "loop", "lost"}}
    \cup {[Quiet EXCEPT !.net.plain = p, !.server.url = u] :
        p \in {"answers", "errors"}, u \in {"ok", "nohost", "badport"}}

\* What is known of its authentication.
Authenticated ==
    {[Quiet EXCEPT !.auth.known = {}, !.auth.page = p, !.auth.shows = s, !.auth.keys = k,
                   !.auth.replies = r] :
        p \in {"answers", "lost"}, s \in {{}, {"metadata"}, {"key"}}, k \in BOOLEAN,
        r \in {<<>>, <<"serves", "serves", "demands">>, <<"serves", "fails">>}}
    \cup {[Quiet EXCEPT !.auth.smithery = s, !.auth.broken = b, !.auth.initialize = FALSE,
                        !.auth.pkce = c] :
        s \in BOOLEAN, b \in BOOLEAN, c \in {{}, {"plain", "S256"}}}

\* Tools, local and remote.
Tooled ==
    {[Quiet EXCEPT !.server.tools = t, !.server.flag = l, !.server.repo_path = p,
                   !.metadata = m, !.taint.found = f] :
        t \in {"none", "some", "bad"}, l \in BOOLEAN, p \in BOOLEAN,
        m \in {"clean", "poisoned", "fails"}, f \in {{}, {"t1_08"}, {"t1_09"}, {"t2", "t2_06"}}}
    \cup {[Quiet EXCEPT !.ingest = i, !.build = b, !.enrich = n, !.server.tools = "none",
                        !.server.human = "official"] :
        i \in {"ok", "fails"}, b \in {"none", "some", "fails"}, n \in {"ok", "empty"}}

\* Leaks, and a judge with room for two units of context.
Leak(k, n) == [kind |-> k, size |-> n]
Leaking ==
    {[Quiet EXCEPT !.gitleaks = g, !.leaks = l, !.judge = j, !.leaky = y] :
        g \in {"leaks", "lost"}, j \in {"ok", "fails", "empty"}, y \in {{}, {1}, {2}},
        l \in {<<Leak("code", 1), Leak("code", 2)>>, <<Leak("doc", 1), Leak("code", 2)>>,
               <<Leak("code", 3)>>}}

\* Advisories.
Vuln(id, ids, name, version, high) ==
    [id |-> id, ids |-> ids, slot |-> <<<<"npm", name>>, version>>, transitive |-> FALSE,
     reachable |-> FALSE, used |-> FALSE, high |-> high]
Advised ==
    {[Quiet EXCEPT !.osv.named = n, !.osv.latest = l, !.osv.git = g, !.server.command = c] :
        n \in {NoAdvisory, <<Page(<<Vuln("A", {"A", "B"}, "p", "1", TRUE)>>, "t"),
                             Page(<<Vuln("B", {"B"}, "p", "1", FALSE)>>, "t")>>,
               <<[attempts |-> <<"5xx", "drop">>, vulns |-> <<>>, next |-> ""]>>},
        l \in {<<>>, <<Page(<<Vuln("B", {"B"}, "p", "1", FALSE)>>, "")>>},
        g \in {NoAdvisory, <<[attempts |-> <<"drop", "ok">>, vulns |-> <<Vuln("C", {"C"}, "p", "1", FALSE)>>,
                             next |-> ""]>>},
        c \in {"npx", "npx@", "other"}}

\* Repositories: what depends on p, what is known about it.
Malware == Vuln("M", {"M", "A"}, "p", "1", TRUE)
Grave   == [Vuln("A", {"A", "B"}, "p", "1", TRUE) EXCEPT !.reachable = TRUE]
Mild    == [Vuln("B", {"B"}, "p", "2", TRUE) EXCEPT !.transitive = TRUE]
Other   == [Vuln("A", {"A"}, "p", "2", FALSE) EXCEPT !.used = TRUE]
Locked(listed, beside) ==
    [NoRepo EXCEPT !.locks = {"yarn.lock"}, !.file["yarn.lock"].listed = listed,
                   !.file["yarn.lock"].beside = beside]
Depended ==
    {Locked(l, b) : l \in {<<<<"p", "1">>>>, <<<<"p", "1">>, <<"p", "2">>, <<"q", "^1">>>>,
                           <<<<"p", "^1">>, <<"q", "1">>, <<"p", "1">>>>},
                    b \in {<<>>, <<<<"p", "^1">>>>}}
Several ==
    {[NoRepo EXCEPT !.locks = {k}, !.file[k] = [NoFile EXCEPT !.ok = o, !.old = FALSE,
                        !.listed = <<<<"p", "^1">>, <<"q", "2">>>>, !.roots = s,
                        !.beside = <<<<"p", "1">>>>],
                    !.manifests = {"pyproject.toml"}, !.made = m, !.asked = a, !.listed = {<<"npm", "q">>}] :
        k \in Kinds, o \in BOOLEAN, s \in {<<>>, <<<<"p", "1">>>>}, m \in {{}, {"pyproject.toml"}},
        a \in {<<>>, <<<<"npm", "p", "==2">>, <<"pypi", "q", "">>>>}}
Known ==
    {[Locked(<<<<"p", "1">>, <<"p", "2">>>>, <<<<"p", "^1">>>>)
        EXCEPT !.vdrs = v, !.found = f, !.depscan = d, !.osv = o, !.listed = x] :
        v \in {<<>>, <<<<Grave, Mild>>>>, <<<<Mild, Grave>>, <<Malware>>>>, <<<<Mild>>, <<Grave, Other>>>>},
        f \in {<<>>, <<Malware, Other>>, <<Mild, Malware>>},
        d \in {"ok", "failed", "lost"}, o \in {"json", "silent", "lost"}, x \in {{}, {<<"npm", "p">>}}}
Stored ==
    {[Quiet EXCEPT !.repo = r] : r \in Depended \cup Several \cup Known}
    \cup {[Quiet EXCEPT !.repo.broken = TRUE]}

Worlds ==
    Operated \cup Hosted \cup Connected \cup Authenticated \cup Tooled \cup Leaking \cup Advised \cup Stored
    \cup {[Quiet EXCEPT !.object = FALSE],
          \* two extractors that raise
          [Quiet EXCEPT !.server.human = "invalid", !.server.url = "badport"]}

=============================================================================
