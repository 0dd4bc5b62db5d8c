--------------------------- MODULE PilotAdmission ---------------------------
(***************************************************************************)
(* Pilot graphs (Builder/src/autolean_builder/pilot_harness.py).  A pilot  *)
(* manifest lists graphs of claims from one textbook each.  A statement    *)
(* may be drafted from such a textbook only with a receipt: the claim and  *)
(* everything it depends on have been reviewed and nothing blocks the      *)
(* graph.  A receipt is recomputed, never trusted, whenever it is used.    *)
(*                                                                         *)
(* The manifest is a file that is republished as reviews come in; a        *)
(* process reads it once, when it builds its harness.  A record stands for *)
(* its hash.                                                               *)
(***************************************************************************)
EXTENDS ReferenceCache

CONSTANTS
    PilotManifests, \* versions of the pilot manifest, valid or not: [graphs]
    RightsRecords,  \* rights reviews: [license, decision, endpoints]
    Harnesses,      \* processes that build a SourceToStatementHarness
    NoHarness

\* PilotGraphV1: its nodes are a tuple, its mode a PilotAdmissionModeV1.
GraphTyped(g) ==
    IsFiniteSet(g.nodes) /\ g.mode \in {"conditional_candidate", "overlap_blocked_reference"}
ASSUME PilotAssumption == \A m \in PilotManifests : \A g \in m.graphs : GraphTyped(g)

VARIABLES
    pilotFile, \* the pilot manifest file, None when there is none
    pilots,    \* process -> NoHarness, None or the manifest its harness read
    receipts   \* receipts issued

pilotVars == <<pilotFile, pilots, receipts>>

PilotInit ==
    /\ pilotFile \in PilotManifests \cup {None}
    /\ pilots = [a \in Harnesses |-> NoHarness]
    /\ receipts = {}

\* Every review ends in a state; an accepted one carries evidence.
Settled(review) == review.state = "accepted"

\* TextbookReferenceBindingV1, TextbookAnchorV1: only a text that starts inside a
\* work has something before it to depend on.
ReferenceValid(binding) ==
    /\ (binding.scope = "work_beginning") <=> (binding.prior = {})
    /\ \A x, y \in binding.anchors : x.start < x.end /\ (x.id = y.id => x = y)

\* PilotSourceAdmissionV1: a cached reference when verified, a proposal before.
SourceValid(source) ==
    /\ (source.status = "verified") <=> (source.binding # None)
    /\ (source.status = "verified") <=> (source.proposal = None)
    /\ source.binding # None => ReferenceValid(source.binding)

\* MathlibCensusGateV1
CensusValid(census) == Settled(census) => census.evidence

\* CalibrationRequirementV1: acceptance takes reviewers of several groups and
\* survives no rejection.
RequirementValid(r) ==
    /\ \A v, w \in r.reviews : v.by = w.by => v = w
    /\ Settled(r) =>
           /\ \A v \in r.reviews : v.state # "rejected"
           /\ Cardinality({v.group : v \in {w \in r.reviews : Settled(w)}}) >= r.groups

\* PilotNodeV1
NodeValid(node) == Settled(node) => node.evidence

\* FeedbackGateV1
GateValid(gate) == Settled(gate) => gate.evidence

Ids(nodes) == {node.id : node \in nodes}

\* _assert_acyclic: Kahn's algorithm visits every node.
Acyclic(nodes) ==
    LET visited[n \in 0 .. Cardinality(nodes)] ==
            IF n = 0 THEN {}
            ELSE {node.id : node \in {x \in nodes : x.depends \subseteq visited[n - 1]}}
    IN  visited[Cardinality(nodes)] = Ids(nodes)

RequiredRoles == {"normalizer", "challenge_author", "semantic_reviewer"}

\* Dependencies stay in the graph, and claims of a verified source cite it.
Anchored(graph, node) ==
    /\ node.depends \subseteq Ids(graph.nodes) \ {node.id}
    /\ IF graph.source.status = "verified"
         THEN node.anchors # {} /\ node.anchors \subseteq {x.id : x \in graph.source.binding.anchors}
         ELSE node.anchors = {}

\* PilotGraphV1.validate_graph
GraphValid(graph) ==
    LET roots == {node \in graph.nodes : node.depends = {}} IN
    /\ SourceValid(graph.source) /\ CensusValid(graph.census)
    /\ \A r, q \in graph.requirements : RequirementValid(r) /\ (r.role = q.role => r = q)
    /\ RequiredRoles \subseteq {r.role : r \in graph.requirements}
    /\ \A m, n \in graph.nodes : m.id = n.id => m = n
    /\ \A node \in graph.nodes : NodeValid(node) /\ Anchored(graph, node)
    /\ Cardinality(roots) = 1 /\ \A node \in roots : node.kind = "textbook_definition"
    /\ Acyclic(graph.nodes)
    /\ \A gate \in graph.gates : GateValid(gate) /\ gate.target \in Ids(graph.nodes)
    /\ graph.mode = "overlap_blocked_reference" =>
           \E b \in graph.blockers : b.kind = "upstream_overlap" /\ b.active

\* PilotManifestV1.validate_manifest, load_pilot_manifest
PilotLoads(manifest) ==
    /\ Cardinality(manifest.graphs) >= 2
    /\ \A g, h \in manifest.graphs : GraphValid(g) /\ (g.id = h.id => g = h)
    /\ \E g \in manifest.graphs : g.mode = "conditional_candidate"

\* Mutant: only the direct dependencies of the target are looked at.
TargetClosureDirect(graph, target) ==
    {node \in graph.nodes : node.id = target \/
        \E t \in graph.nodes : t.id = target /\ node.id \in t.depends}

\* target_closure: what the work list has included when it is empty.
TargetClosure(graph, target) ==
    LET included[n \in 0 .. Cardinality(graph.nodes)] ==
            IF n = 0 THEN {target}
            ELSE included[n - 1] \cup
                     UNION {node.depends : node \in {x \in graph.nodes : x.id \in included[n - 1]}}
    IN  {node \in graph.nodes : node.id \in included[Cardinality(graph.nodes)]}

When(condition, id) == IF condition THEN {id} ELSE {}

\* admission_blocker_ids
Blockers(graph, target) ==
    LET closure == TargetClosure(graph, target)
        binding == graph.source.binding IN
    {<<"blocker", b.id>> : b \in {c \in graph.blockers : c.active}}
        \cup When(graph.source.status # "verified", <<"source", graph.id>>)
        \cup When(binding # None /\ binding.review # "accepted", <<"entry", graph.id>>)
        \cup When(~Settled(graph.census), <<"census", graph.id>>)
        \cup {<<"role", r.role>> : r \in {q \in graph.requirements : ~Settled(q)}}
        \cup {<<"node", node.id>> : node \in {n \in closure : ~Settled(n)}}
        \cup {<<"feedback", gate.id>> :
                 gate \in {g \in graph.gates : g.target \in Ids(closure) /\ ~Settled(g)}}
        \cup When(graph.mode = "overlap_blocked_reference", <<"reference_only", graph.id>>)

\* issue_admission_receipt raises unless the target is ready
\* (assert_ready_for_statement_drafting) and its rights reviewed.
Issuable(graph, target, rights) ==
    /\ target \in Ids(graph.nodes)
    /\ Blockers(graph, target) = {}
    /\ rights.decision \in {"allow", "restricted"}

\* PilotAdmissionReceiptV1
Receipt(manifest, graph, target, rights) ==
    [manifest |-> manifest, id |-> graph.id, graph |-> graph, target |-> target,
     closure |-> TargetClosure(graph, target), rights |-> rights]

\* validate_admission_receipt: issue it again and compare.
ReceiptHolds(manifest, receipt, rights) ==
    \E graph \in manifest.graphs :
        /\ graph.id = receipt.id
        /\ Issuable(graph, receipt.target, rights)
        /\ receipt = Receipt(manifest, graph, receipt.target, rights)

\* SourceToStatementHarness._validate_pilot_admission, receipt None for none.
PilotAdmits(a, ref, receipt, rights) ==
    IF pilots[a] = None THEN receipt = None
    ELSE LET matching == {g \in pilots[a].graphs :
                             g.source.binding # None /\ g.source.binding.ref = ref} IN
         /\ Cardinality(matching) <= 1
         /\ matching = {} => receipt = None
         /\ \A g \in matching : /\ receipt # None /\ receipt.id = g.id
                                /\ ReceiptHolds(pilots[a], receipt, rights)

\* Reviewers republish the manifest (external).
PublishPilot(manifest) ==
    /\ pilotFile # manifest
    /\ pilotFile' = manifest
    /\ UNCHANGED <<pilots, receipts>>

\* SourceToStatementHarness.__init__; a manifest that does not load raises.
OpenHarness(a) ==
    /\ loaded[a] # None /\ pilots[a] = NoHarness
    /\ pilotFile # None => PilotLoads(pilotFile)
    /\ pilots' = [pilots EXCEPT ![a] = pilotFile]
    /\ UNCHANGED <<pilotFile, receipts>>

\* An operator issues a receipt from the file as it is now.
IssueReceipt(graph, target, rights) ==
    /\ PilotLoads(pilotFile)
    /\ Issuable(graph, target, rights)
    /\ receipts' = receipts \cup {Receipt(pilotFile, graph, target, rights)}
    /\ UNCHANGED <<pilotFile, pilots>>

PilotNext ==
    \/ \E manifest \in PilotManifests : PublishPilot(manifest)
    \/ \E a \in Harnesses : OpenHarness(a)
    \/ /\ pilotFile # None
       /\ \E graph \in pilotFile.graphs, rights \in RightsRecords :
              \E target \in Ids(graph.nodes) : IssueReceipt(graph, target, rights)

-----------------------------------------------------------------------------
\* What a claim rests on, said without an algorithm: the claims in every set
\* that holds the target and, with a claim, its dependencies.
Needed(graph, target) ==
    {node \in graph.nodes :
        \A S \in SUBSET Ids(graph.nodes) :
            /\ target \in S
            /\ \A n \in graph.nodes : n.id \in S => n.depends \subseteq S
            => node.id \in S}

\* A draft from a pilot's textbook was permitted by a manifest: the claim it is
\* for, all it rests on and the challenges to them were accepted, by reviewers
\* of enough groups and over no rejection, and nothing blocked the graph.
PilotRespected(manifest, ref, receipt, rights) ==
    \A graph \in manifest.graphs :
        graph.source.binding # None /\ graph.source.binding.ref = ref =>
            /\ receipt # None /\ receipt.target \in Ids(graph.nodes)
            /\ \A node \in Needed(graph, receipt.target) :
                   /\ node.state = "accepted" /\ node.evidence
                   /\ \A gate \in graph.gates : gate.target = node.id => gate.state = "accepted"
            /\ \A r \in graph.requirements :
                   /\ \A v \in r.reviews : v.state # "rejected"
                   /\ Cardinality({v.group : v \in {w \in r.reviews : w.state = "accepted"}}) >= r.groups
            /\ graph.census.evidence /\ graph.source.binding.review = "accepted"
            /\ graph.mode = "conditional_candidate" /\ \A b \in graph.blockers : ~b.active
            /\ receipt.rights = rights
=============================================================================
