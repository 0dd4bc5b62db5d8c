----------------------------- MODULE MCBuilder ------------------------------
(* Instances of the Builder.  Each behaviour follows one plan: operators on *)
(* the cache alone, two authors with competing drafts, one author whose    *)
(* agents misbehave, one author under a clock that is set back, ...        *)
EXTENDS BuilderAdmission, BoundaryDecision, ExperienceRetrieval, TLC

CONSTANTS a1, a2, ops, t1, t2, x, r

VARIABLE plan

Source(egress) ==
    [ref |-> "pdf", kind |-> "source_document", sha |-> "pdf", parent |-> None,
     parentSha |-> None, acquisition |-> "operator_only", url |-> TRUE, local |-> FALSE,
     rights |-> "cc", egress |-> egress, authority |-> None]
Text(egress) ==
    [ref |-> "txt", kind |-> "derived_text", sha |-> "txt", parent |-> "pdf",
     parentSha |-> "pdf", acquisition |-> "local_derivation_only", url |-> FALSE, local |-> TRUE,
     rights |-> "cc", egress |-> egress, authority |-> "manifest_bound"]

\* The third does not load: its text may go further than its source.
MCManifests ==
    { [sha |-> "m1", entries |-> {Source(2), Text(1)}],
      [sha |-> "m2", entries |-> {Source(2), Text(2)}],
      [sha |-> "m3", entries |-> {Source(1), Text(2)}] }

MCProcessOf == ("o1" :> a1) @@ ("o2" :> a1) @@ ("o3" :> ops)

Honest == (t1 :> [actor |-> "ann", group |-> "g1"]) @@ (t2 :> [actor |-> "bob", group |-> "g2"])
          @@ (x :> [actor |-> "max", group |-> "g1"]) @@ (r :> [actor |-> "rev", group |-> "g1"])
MCIdentities == {Honest[agent] : agent \in {t1, t2, r}}

Cast(signoffs) == [translators |-> <<t1, t2>>, mutator |-> x, reviewer |-> r, signoffs |-> signoffs]
Signoff(by, role, at) ==
    [reviewer |-> by, role |-> role, independent |-> TRUE, accept |-> TRUE, at |-> at]
Research(verifiers) ==
    Cast({Signoff("lib", "library_reviewer", 0), Signoff("dom", "domain_expert", 0)}
             \cup {Signoff(v, "independent_verifier", 0) : v \in verifiers})
MCCasts == { Research({"v1"}), Research({"v1", "v2"}), Cast({}), Cast({Signoff("lib", "library_reviewer", 1)}),
             Cast({Signoff("bob", "library_reviewer", 0)}),
             [Cast({}) EXCEPT !.translators = <<t1, t1>>] }

Kinds == {"quantifier_order", "conclusion", "non_vacuity", "assumption"}
Obliged(kinds) ==
    {[id |-> kind, kind |-> kind, normalized |-> {"n"}, lean |-> {"s", "s2"}] : kind \in kinds}
\* The second leaves an assumption of the text unaccounted for.
MCObligations == { Obliged(Kinds), Obliged(Kinds \ {"assumption"}) }
Proposal(id, statement) == [id |-> id, statement |-> statement, covers |-> Kinds]
MCProposals ==
    { Proposal("c1", "s"), Proposal("c2", "s2"), Proposal("c3", "s3"), [Proposal("c2", "s2") EXCEPT !.covers = {}] }
MCTypeOf == ("s" :> "t") @@ ("s2" :> "t") @@ ("s3" :> "u") @@ ("w" :> "u") @@ ("v" :> "u")
MCSuites == { ("drop" :> "w") @@ ("swap" :> "v"), ("drop" :> "w") @@ ("swap" :> "w"), ("drop" :> "w") }
Judgement(id, actor, statement, accept) ==
    [id |-> id, of |-> [id |-> id, actor |-> actor, statement |-> statement], accept |-> accept,
     equivalent |-> TRUE, obligations |-> [kind \in Kinds |-> accept]]
Verdict(accept, first, statement, swap) ==
    [by |-> "rev", independent |-> TRUE, accept |-> accept, source |-> accept, positive |-> TRUE,
     negative |-> TRUE, nonVacuous |-> TRUE,
     evidence |-> {"source_to_normalized", "positive_example", "negative_example", "non_vacuity", "rationale"},
     candidates |-> {Judgement("c1", first, "s", accept), Judgement("c2", "bob", statement, accept)},
     detected |-> ("drop" :> TRUE) @@ ("swap" :> swap)]
\* Accepted; one mutation missed; rejected; a verdict on another candidate; on
\* a candidate of the reviewer's own; one without a rationale.
MCVerdicts == { Verdict(TRUE, "ann", "s2", TRUE), Verdict(TRUE, "ann", "s2", FALSE),
                Verdict(FALSE, "ann", "s2", TRUE), Verdict(TRUE, "ann", "s3", TRUE),
                Verdict(TRUE, "rev", "s2", TRUE),
                [Verdict(TRUE, "ann", "s2", TRUE) EXCEPT !.evidence = @ \ {"rationale"}] }

Environment(image, lake, policy) ==
    [assurance |-> "local_oci_prefreeze", profile |-> "declaration-type", image |-> image,
     lake |-> lake, policy |-> policy, identity |-> "h", lock |-> lake, archives |-> lake,
     built |-> [lake |-> IF image = "i1" THEN "l1" ELSE "l2", identity |-> "h"]]
Deployed == Environment("i1", "l1", "p1")
Fixture == [Deployed EXCEPT !.assurance = "scripted_fake", !.profile = "scripted-header"]
\* As deployed; under another policy; the Lake manifest updated, but not the
\* image; both updated; the source cache behind the lock.
MCEnvironments ==
    {Deployed, Environment("i1", "l1", "p2"), Environment("i1", "l2", "p1"),
     Environment("i2", "l2", "p1"), [Deployed EXCEPT !.archives = "l0"], Fixture}
MCForm == ("s" :> "header") @@ ("s2" :> "complete") @@ ("s3" :> "header") @@ ("w" :> "other") @@ ("v" :> "header")

Request(statement, endpoints, lake, risk) ==
    [key |-> "k", revision |-> 1, ref |-> "txt", kind |-> "theorem", statement |-> statement,
     type |-> "t", declaration |-> "d", imports |-> {"Mathlib"},
     environment |-> [image |-> "i1", lake |-> lake],
     mathematics |-> [normalized |-> "n", features |-> {"assumption"}, unresolved |-> {}],
     policy |-> [risk |-> risk, experts |-> 1, verifiers |-> 2, quarantined |-> risk = "L3"],
     span |-> [start |-> 0, end |-> 1, excerpt |-> <<"txt", 0, 1>>, located |-> "txt"],
     rights |-> [license |-> "cc", decision |-> "allow", endpoints |-> endpoints,
                 model |-> IF endpoints = {} THEN "deny" ELSE "allow"]]
Conjecture == [Request("s", {"local"}, "l1", "L3") EXCEPT !.kind = "open_conjecture"]
Ambiguous == [Request("s", {"local"}, "l1", "L1") EXCEPT !.mathematics.unresolved = {"order"}]
MCRequests ==
    { Request("s", {"local"}, "l1", "L1"), Request("s2", {"local"}, "l1", "L1"),
      Request("s", {"local", "approved_external"}, "l1", "L1"), Request("s", {}, Unbound, "L2"),
      Conjecture, Ambiguous }

MCRightsRecords == {q.rights : q \in {Request("s", {"local"}, "l1", "L1"), Request("s", {}, "l1", "L1")}}

Passage(id, start, end) == [id |-> id, start |-> start, end |-> end, excerpt |-> <<"txt", start, end>>]

\* Pilot manifests: a definition, a lemma and the theorem that rests on it.
Node(id, depends, state) ==
    [id |-> id, depends |-> depends, state |-> state, evidence |-> state = "accepted",
     anchors |-> {IF depends = {} THEN "s0" ELSE "s1"},
     kind |-> IF depends = {} THEN "textbook_definition" ELSE "lemma"]
Reviewed(role) ==
    [role |-> role, state |-> "accepted", groups |-> 2,
     reviews |-> { [by |-> "v1", group |-> "g1", state |-> "accepted"],
                   [by |-> "v2", group |-> "g2", state |-> "accepted"] }]
Graph(root, lemma, gate) ==
    [id |-> "g", mode |-> "conditional_candidate",
     source |-> [status |-> "verified", proposal |-> None,
                 binding |-> [manifest |-> "m1", ref |-> "txt", sha |-> "txt", parent |-> "pdf",
                              parentSha |-> "pdf", egress |-> 1, scope |-> "work_beginning",
                              prior |-> {}, anchors |-> {Passage("s0", 0, 1), Passage("s1", 1, 3)}, review |-> "accepted"]],
     census |-> [state |-> "accepted", evidence |-> TRUE],
     requirements |-> {Reviewed(role) : role \in RequiredRoles},
     nodes |-> {Node("def", {}, root), Node("lem", {"def"}, lemma), Node("thm", {"lem"}, "accepted")},
     gates |-> {[id |-> "f", target |-> "def", state |-> gate, evidence |-> gate = "accepted"]},
     blockers |-> {}]
Other ==
    [Graph("open", "open", "open") EXCEPT
        !.id = "h", !.mode = "overlap_blocked_reference",
        !.source = [status |-> "proposed", binding |-> None, proposal |-> "p"],
        !.nodes = {[Node("def", {}, "open") EXCEPT !.anchors = {}]}, !.gates = {},
        !.blockers = {[id |-> "b", kind |-> "upstream_overlap", active |-> TRUE]}]
Manifest(graph) == [graphs |-> {graph, Other}]
\* Everything accepted; the definition still open, in two ways; a manifest
\* whose claims rest on each other, which does not load.
MCPilotManifests ==
    { Manifest(Graph("accepted", "accepted", "accepted")), Manifest(Graph("open", "accepted", "open")),
      Manifest(Graph("accepted", "accepted", "open")),
      Manifest([Graph("accepted", "accepted", "accepted") EXCEPT
          !.nodes = {Node("def", {}, "accepted"), Node("lem", {"thm"}, "accepted"), Node("thm", {"lem"}, "accepted")}]) }

\* Calibration rounds on the theorem of the first pilot manifest.
Sealed(id) == LET payload == [id |-> id, revision |-> 1, content |-> id] IN
    [id |-> id, revision |-> 1, content |-> id, seal |-> payload]
Group(role) == IF role = "adversary" THEN "g2" ELSE "g1"
RoleReport(id, role, state) ==
    [id |-> <<id, role>>, candidate |-> id, role |-> role, seal |-> Sealed(id).seal, kind |-> "automated",
     reviewer |-> <<id, role>>, group |-> Group(role), evidence |-> "e", state |-> state, intact |-> TRUE,
     assurance |-> "external",
     identity |-> [evidence |-> "e", reviewer |-> <<id, role>>, group |-> Group(role)]]
\* The Library's files: a module, perhaps another, and those of the root.
MCRank == ("AutoLeanLibrary.lean" :> 1) @@ ("M" :> 2) @@ ("N" :> 3)
          @@ ("lake-manifest.json" :> 4) @@ ("lakefile.lean" :> 5) @@ ("lean-toolchain" :> 6)
MCStripped == ("v4\n" :> "v4") @@ ("v4" :> "v4") @@ ("\n" :> "")
File(bytes) == [link |-> FALSE, bytes |-> bytes]
Checkout ==
    ("AutoLeanLibrary.lean" :> File("a")) @@ ("M" :> File("m1")) @@ ("lake-manifest.json" :> File("l1"))
        @@ ("lakefile.lean" :> File("f1")) @@ ("lean-toolchain" :> File("v4\n"))
TreeOf(checkout) == {[path |-> path, bytes |-> checkout[path].bytes] : path \in DOMAIN checkout}
Evidence(status, tracking) ==
    [status |-> status, exit |-> 0, tree |-> TreeOf(Checkout), lake |-> "l1", toolchain |-> <<"sha", "v4">>,
     mathlib |-> "mm", targets |-> {"M"}, tracked |-> tracking, intact |-> TRUE]
Unlinked(gap) ==
    [id |-> "p", selected |-> None, backlink |-> None, lake |-> "l1", toolchain |-> "v4", fixtures |-> {"k1"},
     source |-> "txt", anchors |-> {"s1"}, gap |-> gap]
TrackedFile(gap) ==
    [id |-> "r", packetId |-> "p", selected |-> None, content |-> Unlinked(gap), tree |-> TreeOf(Checkout),
     exit |-> 0, targets |-> {"M"}, lake |-> "l1", toolchain |-> "v4"]
Packet(gap) == [Unlinked(gap) EXCEPT !.backlink = [path |-> "q", sha |-> TrackedFile(gap)]]
Tracking(gap) ==
    [packetPath |-> "p", receiptPath |-> "q", packetId |-> "p", receiptId |-> "r", content |-> Unlinked(gap),
     packet |-> Packet(gap), receipt |-> TrackedFile(gap)]
Blocker(id, kind, active) == [id |-> id, kind |-> kind, active |-> active, role |-> None]
Spike(state, blocked, receipt) ==
    [candidates |-> {"k1"}, state |-> state, blockers |-> blocked, receipt |-> receipt, intact |-> TRUE]
Complete ==
    [state |-> "complete", pilot |-> Manifest(Graph("accepted", "accepted", "accepted")), graph |-> "g",
     target |-> "thm",
     textbook |-> [ref |-> "txt", sha |-> "txt", parent |-> "pdf", parentSha |-> "pdf", anchors |-> {"s0", "s1"},
                   manifest |-> "m1", rights |-> <<Text(1), Source(2)>>],
     candidates |-> {Sealed("k1"), Sealed("k2")},
     reports |-> {RoleReport(id, role, "verified") : id \in {"k1", "k2"}, role \in Roles},
     blockers |-> {Blocker("b", "spike_not_run", FALSE)},
     lock |-> [toolchain |-> "v4", toolchainSha |-> <<"sha", "v4">>, mathlib |-> "mm", lake |-> "l1"],
     spike |-> Spike("passed", {}, [evidence |-> Evidence("passed", None), assurance |-> "external",
                                    run |-> Evidence("passed", None)]),
     disposition |-> "continue", intact |-> TRUE]
Changed(report, field, value) ==
    [Complete EXCEPT !.reports = (@ \ {report}) \cup {[report EXCEPT ![field] = value]}]
Adversary == RoleReport("k1", "adversary", "verified")
Partial(gap) ==
    [Complete EXCEPT
        !.state = "incomplete", !.disposition = "gap", !.blockers = {Blocker("b", "scope_gap", TRUE)},
        !.spike = Spike("partial", {"b"}, [evidence |-> Evidence("partial", Tracking(gap)),
                                           assurance |-> "self_reported", run |-> None])]
MCRounds ==
    { Complete, Partial("open"), Partial("closed"),
      [Complete EXCEPT !.state = "incomplete", !.disposition = "compile_spike",
          !.blockers = {Blocker("b", "spike_not_run", TRUE)}, !.spike = Spike("not_started", {"b"}, None)],
      [Complete EXCEPT !.pilot = Manifest(Graph("open", "accepted", "open"))],
      [Complete EXCEPT !.blockers = {Blocker("b", "scope_gap", TRUE)}],
      [Complete EXCEPT !.reports = @ \ {Adversary}],
      [Changed(Adversary, "group", "g1") EXCEPT !.reports =
          (@ \ {[Adversary EXCEPT !.group = "g1"]}) \cup
              {[Adversary EXCEPT !.group = "g1", !.identity.group = "g1"]}],
      Changed(Adversary, "reviewer", <<"k1", "architect">>),
      Changed(Adversary, "group", "g3"),
      Changed(Adversary, "state", "rejected"),
      Changed(Adversary, "seal", Sealed("k2").seal) }
\* As compiled; a file edited, one added, one removed, one linked, the module
\* root gone; the tracked files of a closed gap, half of them, none.
Edited(path, bytes) == [Checkout EXCEPT ![path] = File(bytes)]
Library(checkout, packet, receipt) == [root |-> TRUE, files |-> checkout, packet |-> packet, receipt |-> receipt]
Working(checkout) == Library(checkout, Packet("open"), TrackedFile("open"))
Beginnings ==
    {Working(checkout) : checkout \in {Checkout, Edited("lakefile.lean", "f2"), Checkout @@ ("N" :> File("n"))}}
MCLibraries ==
    {Working(checkout) : checkout \in
        { Checkout, Edited("M", "m2"), Edited("lakefile.lean", "f2"), Edited("lean-toolchain", "v4"),
          Edited("lean-toolchain", "\n"), Checkout @@ ("N" :> File("n")), [Checkout EXCEPT !["M"].link = TRUE],
          [path \in DOMAIN Checkout \ {"lean-toolchain"} |-> Checkout[path]] }}
    \cup { Library(Checkout, Packet("closed"), TrackedFile("closed")),
           Library(Checkout, Packet("open"), TrackedFile("closed")), Library(Checkout, None, None),
           [Library([path \in DOMAIN Checkout \ {"M"} |-> Checkout[path]], None, None) EXCEPT !.root = FALSE] }
MCGenuine ==
    {[evidence |-> "e", reviewer |-> <<id, role>>, group |-> g] : id \in {"k1", "k2"}, role \in Roles, g \in {"g1", "g2"}}
        \cup {Evidence("passed", None)}

\* Decisions on the same theorem, with the packet and the receipt of its build.
MCByteLength == ("txt" :> 5) @@ ("pdf" :> 9) @@ ("junk" :> 1)
CompileEnvironment(lake) == [toolchain |-> "v4", mathlib |-> "mm", lake |-> lake]
Build == [release |-> "v4", commit |-> "c"]
Content ==
    [environment |-> CompileEnvironment("l1"), target |-> "M", fixtures |-> {[module |-> "K", result |-> "compiled"]}]
Built(lake, status) ==
    LET report == [targets |-> {"M"}, tree |-> "t1", environment |-> CompileEnvironment(lake),
                   status |-> status, clean |-> TRUE, build |-> Build] IN
    [content |-> Content, tree |-> "t1", reportSha |-> report, report |-> report,
     environment |-> CompileEnvironment(lake), targets |-> {"M"}, exit |-> 0, clean |-> TRUE]
Located(id, start, end, locator) ==
    [id |-> id, start |-> start, end |-> end, excerpt |-> <<"txt", start, end>>, locator |-> locator]
Judged(anchors, packet, receipt) ==
    LET matrix == {[rule |-> s.id, anchors |-> {s.id}, declarations |-> {"k"}, coverage |-> "exact"] : s \in anchors}
        pilot == Manifest(Graph("open", "accepted", "open")) IN
    [manifest |-> pilot, graph |-> "g", graphSeal |-> Graph("open", "accepted", "open"), target |-> "thm",
     closure |-> Graph("open", "accepted", "open").nodes,
     candidate |-> [id |-> "k1", revision |-> 2, predecessor |-> 1, content |-> "k1",
                    seal |-> [id |-> "k1", revision |-> 2, content |-> "k1"]],
     source |-> [manifest |-> "m1", ref |-> "txt", sha |-> "txt", parent |-> "pdf", parentSha |-> "pdf",
                 anchors |-> anchors],
     implementation |-> [module |-> "K", source |-> "K1", declarations |-> {"k"}, chain |-> <<"K", "M">>,
                         packet |-> packet, content |-> Content, receipt |-> receipt,
                         report |-> receipt.report, tree |-> "t1"],
     profile |-> [environment |-> receipt.environment, toolchainSha |-> <<"sha", "v4">>, version |-> "v4",
                  build |-> Build, allowlist |-> {}, seal |-> <<receipt.environment, "v4", Build, {}>>],
     matrix |-> matrix, matrixSeal |-> matrix,
     reviews |-> {[role |-> "architect", by |-> "v1", group |-> "g1"], [role |-> "adversary", by |-> "v2", group |-> "g2"]},
     disposition |-> "gap", blockers |-> {"b"}, nonClaims |-> NonClaims]
Packed(receipt) == [content |-> Content, backlink |-> receipt]
Quoted == {Located("s0", 0, 1, None), Located("s1", 1, 3, None)}
Sound == Judged(Quoted, Packed(Built("l1", "passed")), Built("l1", "passed"))
\* Sound; with a passage more; what the definition rests on left out; a passage
\* nobody can find; a passage that is not in the text; two reviews of one group;
\* a receipt of another environment; one of a failed build; a packet of another
\* receipt; a backup; a decision about another manifest.
MCDecisions ==
    { Sound, Judged(Quoted \cup {Located("s9", 3, 5, "p. 2")}, Packed(Built("l1", "passed")), Built("l1", "passed")),
      Judged({Located("s1", 1, 3, None)}, Packed(Built("l1", "passed")), Built("l1", "passed")),
      Judged(Quoted \cup {Located("s9", 3, 5, None)}, Packed(Built("l1", "passed")), Built("l1", "passed")),
      Judged(Quoted \cup {[Located("s9", 3, 5, "p. 2") EXCEPT !.excerpt = <<"pdf", 3, 5>>]},
             Packed(Built("l1", "passed")), Built("l1", "passed")),
      [Sound EXCEPT !.reviews = {[v EXCEPT !.group = "g1"] : v \in @}],
      Judged(Quoted, Packed(Built("l2", "passed")), Built("l2", "passed")),
      Judged(Quoted, Packed(Built("l1", "failed")), Built("l1", "failed")),
      Judged(Quoted, Packed(Built("l2", "passed")), Built("l1", "passed")),
      [Sound EXCEPT !.disposition = "backup"],
      [Sound EXCEPT !.manifest = Manifest(Graph("accepted", "accepted", "accepted"))] }
FineSpan(requirement, end) ==
    [id |-> requirement, requirement |-> requirement, segment |-> "a", start |-> 0, end |-> end,
     raw |-> <<"txt", 0, end>>]
Attached(d, matrix, spans) ==
    [decision |-> d, candidate |-> "k1", revision |-> 2, matrix |-> matrix, count |-> Len(matrix), spans |-> spans,
     ambiguities |-> {[id |-> "u", requirement |-> "q1", segment |-> "a"]},
     reference |-> [manifest |-> "m1", ref |-> "txt", sha |-> "txt", size |-> 5, parent |-> "pdf", parentSha |-> "pdf"]]
Space(d) ==
    [decision |-> d, source |-> "K1", packet |-> d.implementation.packet, receipt |-> d.implementation.receipt,
     matrix |-> <<"q1">>, attachment |-> None]
With(d, matrix, spans) == [Space(d) EXCEPT !.matrix = matrix, !.attachment = Attached(d, matrix, spans)]
Empty ==
    [decision |-> None, source |-> None, packet |-> None, receipt |-> None, matrix |-> None, attachment |-> None]
\* A decision with its files; the sound one with a file edited or removed; an
\* attachment to it, and to a backup, to a matrix that is edited, of which it
\* locates a part, or with a span beyond the text.
MCWorkspaces ==
    {Space(d) : d \in MCDecisions} \cup
    { Empty, [Space(Sound) EXCEPT !.source = "K2"], [Space(Sound) EXCEPT !.packet = None],
      [Space(Sound) EXCEPT !.receipt = Built("l1", "failed")],
      With(Sound, <<"q1">>, {FineSpan("q1", 2)}), With([Sound EXCEPT !.disposition = "backup"], <<"q1">>, {FineSpan("q1", 2)}),
      [With(Sound, <<"q1">>, {FineSpan("q1", 2)}) EXCEPT !.matrix = <<"q1", "q2">>],
      With(Sound, <<"q1", "q2">>, {FineSpan("q1", 2)}), With(Sound, <<"q1">>, {FineSpan("q1", 7)}) }

\* Experience: sizes at which one digit more of the estimate decides; the last
\* record tells of a gap without evidence and cannot be built.
Experience(hash, size, domain, outside, outcome) ==
    [hash |-> hash, size |-> size, source |-> [spans |-> {"s1"}], traits |-> {}, outcome |-> outcome, evidence |-> {},
     applies |-> [roles |-> {"translator"}, domain |-> domain, frontier |-> {}, conditions |-> {"c"}],
     rights |-> [scope |-> "cc", reviewed |-> outside,
                 endpoints |-> {"local"} \cup IF outside THEN {"approved_external"} ELSE {}]]
MCRecordInputs ==
    { Experience(2, 31, <<"logic", "lk">>, FALSE, "success_pattern"),
      Experience(3, 30, <<"logic">>, TRUE, "success_pattern"),
      Experience(1, 97, <<"logic">>, TRUE, "success_pattern"),
      Experience(4, 10, <<"logic">>, FALSE, "gap") }
Query(endpoint, items, tokens) ==
    [role |-> "translator", domain |-> <<"logic", "lk">>, frontier |-> {"n"}, scope |-> "cc",
     endpoint |-> endpoint, outcomes |-> {"success_pattern", "gap"}, maxItems |-> items,
     maxTokens |-> tokens, size |-> 200]
MCQueryInputs ==
    { Query("local", 3, 1000), Query("local", 1, 1000), Query("approved_external", 2, 1000),
      Query("local", 3, 950), Query("local", 3, 100) }

\* What a plan lets happen besides the authors' work.
Plan(name, authors, requests, casts, events) ==
    [name |-> name, authors |-> authors, requests |-> requests, casts |-> casts, events |-> events]

Plans ==
    { Plan("cache", {}, {}, {}, {"cache", "damage", "die"}),
      Plan("drafts", {a1, a2},
           {Request("s", {"local"}, "l1", "L1"), Request("s2", {"local"}, "l1", "L1")},
           {Cast({})}, {"manifest", "die"}),
      Plan("sources", {a1}, {Request("s", {"local", "approved_external"}, "l1", "L1")},
           {Cast({})}, {"manifest", "damage", "die"}),
      Plan("pilot", {a1}, {Request("s", {"local"}, "l1", "L1")}, {Cast({})}, {"pilot", "die"}),
      Plan("calibration", {a1}, {}, {}, {"calibration", "manifest", "die"}),
      Plan("decision", {a1}, {}, {}, {"decision", "damage", "die"}),
      Plan("experience", {}, {}, {}, {"experience"}),
      Plan("agents", {a1}, {Request("s", {"local"}, "l1", "L1"), Request("s", {}, Unbound, "L2")},
           {c \in MCCasts : \A s \in c.signoffs : s.role = "library_reviewer"}, {"awry"}),
      Plan("research", {a1}, {Conjecture, Ambiguous}, {Research({"v1"}), Research({"v1", "v2"})}, {}),
      Plan("clock", {a1}, {Request("s", {}, "l1", "L2")},
           {Cast({Signoff("lib", "library_reviewer", 1)})}, {"clock"}) }

\* Outside the first plan the sources have been acquired and processes started.
MCInit ==
    /\ plan \in Plans
    /\ tracked \in {m \in MCManifests : ManifestLoads(m)}
    /\ {"cache", "manifest"} \cap plan.events = {} => tracked.sha = "m1"
    /\ IF plan.name = "cache"
         THEN loaded = [p \in Processes |-> None] /\ files = [n \in Names |-> None]
         ELSE /\ loaded = [p \in Processes |-> IF p \in plan.authors THEN tracked ELSE None]
              /\ files = [n \in Names |-> n[2]]
    /\ op = [t \in Threads |-> None]
    /\ damage = 0
    /\ pilotFile \in CASE plan.name = "pilot"       -> PilotManifests \cup {None}
                         [] plan.name = "calibration" -> {q.pilot : q \in Rounds}
                         [] plan.name = "decision"    -> {d.manifest : d \in MCDecisions}
                         [] OTHER                     -> {None}
    /\ pilots = [a \in Harnesses |-> IF pilotFile = None /\ plan.name # "pilot" THEN None ELSE NoHarness]
    /\ receipts = {}
    /\ identity \in {Honest} \cup IF "awry" \in plan.events THEN {[Honest EXCEPT ![t1] = Honest[r]]} ELSE {}
    /\ worker \in {Deployed} \cup IF "awry" \in plan.events THEN {Fixture} ELSE {}
    /\ clock = 0
    /\ runs = [a \in Authors |-> Idle]
    /\ evaluations = [a \in Authors |-> {}]
    /\ CalibrationInit
    /\ ExperienceInit
    /\ DecisionInit
    /\ plan.name # "decision" => workspace = Empty
    /\ plan.name # "calibration" => roundFile = None
    /\ library \in IF plan.name = "calibration" THEN Beginnings ELSE {Working(Checkout)}
    /\ drafts = [a \in Authors |-> None]
    /\ packets = [a \in Authors |-> None]
    /\ ledger = {}
    /\ frozen = [a \in Authors |-> None]
    /\ bundles = {}

\* In all plans but "agents" every agent does what it is asked.
Regularly(a) ==
    /\ \A i \in DOMAIN runs[a].candidates :
           runs[a].candidates[i].id = <<"c1", "c2">>[i] /\ runs[a].candidates[i].statement \in {"s", "s2"}
    /\ runs[a].probes # <<>> => runs[a].probes = ("drop" :> "w") @@ ("swap" :> "v")

Happens(event, v) == event \in plan.events \/ UNCHANGED v

\* Bounds: one run of the fidelity harness at a time (two runs share nothing),
\* one agent goes by another's identity, the worker is replaced between the
\* queries of a run, an author keeps one evaluation and issues one bundle, one
\* receipt is issued, during a load one of the round file, which becomes a complete round,
\* the manifest, both early in the load, and the Library, from one of three
\* states, changes, a load that returns ends the behaviour, a replay of a
\* decision that succeeds ends the behaviour, either the workspace, from or to
\* that of the sound decision, or the cache changes during a replay, one pack is
\* retrieved, by the first reader, which keeps its catalog from then on, its
\* file is edited once (after the catalogs have changed: the order makes no
\* difference), and one replay is accepted.
MCNext ==
    /\ UNCHANGED plan
    /\ IF plan.name = "calibration" THEN TRUE ELSE UNCHANGED calibrationVars
    /\ IF plan.name = "decision" THEN TRUE ELSE UNCHANGED decisionVars
    /\ CASE plan.name = "experience"                  -> ExperienceNext /\ UNCHANGED bvars
         [] plan.name \in {"calibration", "decision"} -> ENext /\ UNCHANGED experienceVars
         [] OTHER                                     -> BuilderStep /\ UNCHANGED experienceVars
    /\ Happens("cache", op)
    /\ Happens("manifest", tracked)
    /\ Happens("damage", damage)
    /\ Happens("pilot", pilotFile)
    /\ "die" \in plan.events \/ \A p \in Processes : loaded[p] # None => loaded'[p] # None
    /\ Happens("clock", clock)
    /\ Happens("awry", <<identity, worker>>)
    /\ Cardinality({agent \in Agents : identity'[agent] # Honest[agent]}) <= 1
    /\ worker' # worker => \E a \in Authors : Running(a, "query")
    /\ "awry" \in plan.events \/
         \A a \in Authors :
             /\ runs'[a] # Idle => Regularly(a)'
             /\ runs[a] # Idle /\ runs'[a] = Idle => evaluations'[a] # {} \/ packets'[a] = None
    /\ \A a \in Authors :
           /\ runs'[a] # Idle => \A b \in Authors \ {a} : runs[b] = Idle
           /\ runs'[a] # Idle => evaluations[a] = {} /\ runs'[a].cast \in plan.casts
           /\ drafts'[a] # None =>
                  /\ a \in plan.authors /\ packets[a] = None
                  /\ \E q \in plan.requests : /\ drafts'[a].contract.statement = q.statement
                                              /\ drafts'[a].contract.rights = q.rights
                                              /\ drafts'[a].contract.policy = q.policy
                                              /\ drafts'[a].contract.kind = q.kind
                                              /\ drafts'[a].contract.mathematics = q.mathematics
    /\ \A p \in Processes \ plan.authors :
           loaded'[p] # loaded[p] => "cache" \in plan.events /\ p # a2
    /\ Cardinality(bundles') <= 2 /\ Cardinality(receipts') <= IF plan.name = "pilot" THEN 1 ELSE 0
    /\ roundFile' \in {roundFile, Complete}
    /\ plan.name = "calibration" =>
           /\ <<roundFile', tracked', library'>> # <<roundFile, tracked, library>> =>
                  \E a \in Harnesses : /\ reading[a] # None /\ reading[a].during \subseteq Beginnings
                                       /\ reading[a].round = roundFile /\ loaded[a] = tracked
           /\ <<roundFile', tracked'>> # <<roundFile, tracked>> =>
                  \E a \in Harnesses : AtStep(a, "identities") \/ AtStep(a, "root")
           /\ returned = {}
    /\ Cardinality(packs') <= 1 /\ Cardinality(replays') <= 1
    /\ packs' # packs => \E kept \in packs' : kept.from = catalog[a1]
    /\ packs # {} => UNCHANGED catalog[a1]
    /\ (\A kept \in packs : packFile # Rendered(kept.pack)) =>
           packFile = NoCatalog \/ UNCHANGED <<catalog, packFile>>
    /\ \A a \in Harnesses : reading'[a] # None => Cardinality(reading'[a].during) <= 2
    /\ \A a \in Harnesses : replaying'[a] # None => Cardinality(replaying'[a].during) <= 2
    /\ replayed = {} \/ plan.name # "decision"
    /\ workspace' # workspace => Space(Sound) \in {workspace, workspace'}
    /\ <<workspace', damage'>> # <<workspace, damage>> /\ plan.name = "decision" =>
           \E a \in Harnesses : replaying[a] # None /\ replaying[a].during = {workspace} /\ damage = 0

MCSpec == MCInit /\ [][MCNext]_<<pilotEvidenceVars, experienceVars, plan>>
=============================================================================
