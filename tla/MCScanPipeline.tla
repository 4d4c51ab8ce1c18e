--------------------------- MODULE MCScanPipeline ---------------------------
(* Requests of two reports for TLC, each meeting other intelligence. *)
EXTENDS ScanPipelineInv, TLC

Pair(a, b) == <<a, b>>

\* What analyzing one artifact may give: anything, or nothing suspicious.
Everything == (0..3) \X SUBSET StaticProviders
Quiet      == {0} \X {{}, StaticProviders}

\* Two installations, nothing asked for and nothing known about them.
Plain ==
    [kind |-> Pair("local", "local"), id |-> Pair("a", "a"), bytes |-> Pair(1, 2),
     found |-> Everything, parallel |-> FALSE, dynamic |-> FALSE, providers |-> {},
     feed |-> [x \in Ids |-> Clean], advisories |-> "completed",
     listed |-> [i \in Slots |-> Clean], registry |-> "unavailable",
     flagged |-> [x \in Ids |-> Clean], imported |-> {}, delta |-> [i \in Slots |-> "none"]]

Marketed == [Plain EXCEPT !.kind = Pair("market", "market"), !.id = Pair("a", "b")]
Mixed    == [Plain EXCEPT !.kind = Pair("registry", "remote"), !.id = Pair("a", "b")]

StaticRequests ==
    { [Plain EXCEPT !.parallel = TRUE, !.providers = {"semgrep"}, !.feed["a"] = Malware,
                    !.delta = Pair("grown", "same")],
      [Plain EXCEPT !.registry = "completed", !.flagged["a"] = Review, !.imported = {"a"},
                    !.providers = {"dependency_intelligence"}],
      [Plain EXCEPT !.id = Pair("a", "b"), !.registry = "failed", !.delta = Pair("none", "grown"),
                    !.providers = {"dependency_intelligence"}],
      [Marketed EXCEPT !.advisories = "invalid", !.listed[1] = Malware],
      [Marketed EXCEPT !.listed[2] = Abuse, !.feed["b"] = Review],
      [Mixed EXCEPT !.providers = {"semgrep"}, !.feed["a"] = Malware],
      [Mixed EXCEPT !.listed[2] = Malware] }

Sandboxed == [Plain EXCEPT !.dynamic = TRUE, !.found = Quiet]

RuntimeRequests ==
    { Sandboxed,
      [Sandboxed EXCEPT !.bytes = Pair(1, 1)],
      [Sandboxed EXCEPT !.id = Pair("a", "b"), !.imported = {"b"}, !.providers = {"dynamic_sandbox"}],
      [Sandboxed EXCEPT !.kind = Pair("local", "market")] }

AllRequests      == StaticRequests \cup RuntimeRequests
DuplicateRuntime == { Sandboxed }
NameOnly         == { Mixed }
=============================================================================
