-------------------------- MODULE BoundaryDecision --------------------------
(***************************************************************************)
(* Boundary decisions and fine-span attachments (Builder/src/              *)
(* autolean_builder/pilot_harness.py and fine_span_attachment.py).  A      *)
(* decision records, for a pilot target that is not admitted, where its    *)
(* candidate stands: the passages of the textbook it answers to, the Lean  *)
(* source, packet and receipt of its last build, a matrix of rules and     *)
(* what agents reviewed.  An attachment adds finer passages to it.  Both   *)
(* are replayed against the pilot manifest, the cache and the workspace,   *)
(* file by file, while others work there:                                  *)
(*                                                                         *)
(*   decision, pilot | cached text | source | packet | receipt, profile    *)
(*   attachment | decision, references | matrix | cached text              *)
(*                                                                         *)
(* A record stands for its hash; a seal is the record a checksum was       *)
(* computed from.  The three files a decision names are the fields source, *)
(* packet and receipt of the workspace.                                    *)
(***************************************************************************)
EXTENDS SelfCalibration

CONSTANTS
    Workspaces, \* states of the workspace: [decision, source, packet, receipt, attachment, matrix]
    ByteLength  \* digest -> length of the bytes it is of

VARIABLES
    workspace, \* the workspace's files, None for a file that is not there
    replaying, \* process -> None or the replay it is in
    replayed   \* replays that raised nothing (history)

decisionVars == <<workspace, replaying, replayed>>

DecisionInit ==
    /\ workspace \in Workspaces
    /\ replaying = [a \in Harnesses |-> None]
    /\ replayed = {}

NonClaims ==
    {"review", "full_lk", "completeness", "contract", "handoff", "promotion", "open_problem", "egress"}

\* pilot_candidate_binding_sha256
CandidateSeal(c) == [id |-> c.id, revision |-> c.revision, content |-> c.content]

\* PilotCandidateBindingV2
CandidateBound(c) == c.revision # c.predecessor /\ c.seal = CandidateSeal(c)

\* PilotSourceBindingV2, PilotRuleAnchorBindingV2
SourceBound(s) ==
    /\ LET id(anchor) == anchor.id IN Unique(s.anchors, id)
    /\ \A anchor \in s.anchors : anchor.start < anchor.end

\* PilotImplementationEvidenceV2: the chain of modules starts at the source's.
ImplementationBound(i) ==
    /\ Head(i.chain) = i.module
    /\ \A m, n \in DOMAIN i.chain : i.chain[m] = i.chain[n] => m = n

\* pilot_formal_environment_sha256
EnvironmentSeal(p) == <<p.environment, p.version, p.build, p.allowlist>>

\* PilotFormalProfileV2
ProfileBound(p) ==
    /\ p.toolchainSha = <<"sha", p.environment.toolchain>>
    /\ p.seal = EnvironmentSeal(p)

\* PilotRuleMatrixEntryV2: only a gap needs no declaration.
RowValid(row) == row.coverage # "blocking_gap" => row.declarations # {}

\* validate_decision
DecisionValid(d) ==
    /\ CandidateBound(d.candidate) /\ SourceBound(d.source)
    /\ ImplementationBound(d.implementation) /\ ProfileBound(d.profile)
    /\ LET rule(row) == row.rule IN Unique(d.matrix, rule)
    /\ d.matrixSeal = d.matrix
    /\ UNION {row.anchors : row \in d.matrix} = {anchor.id : anchor \in d.source.anchors}
    /\ \A row \in d.matrix : RowValid(row) /\ row.declarations \subseteq d.implementation.declarations
    /\ LET by(v) == v.by group(v) == v.group role(v) == v.role IN
       Unique(d.reviews, by) /\ Unique(d.reviews, group) /\ Unique(d.reviews, role)
    /\ d.nonClaims = NonClaims
    /\ d.blockers # {}

\* assert_binds_manifest: the passages of all the target rests on are there,
\* where the graph has them; others say where a human finds them.
AnchorsBind(d, reference, closure) ==
    /\ UNION {node.anchors : node \in closure} \subseteq {anchor.id : anchor \in d.source.anchors}
    /\ \A anchor \in d.source.anchors :
           LET listed == {x \in reference.anchors : x.id = anchor.id} IN
           /\ \A x \in listed : /\ anchor.start = x.start /\ anchor.end = x.end
                                /\ anchor.excerpt = x.excerpt
           /\ listed = {} => anchor.locator # None

\* assert_binds_manifest
BindsPilot(d, manifest) ==
    /\ d.manifest = manifest
    /\ \E graph \in manifest.graphs :
           /\ graph.id = d.graph /\ graph = d.graphSeal
           /\ d.target \in Ids(graph.nodes)
           /\ d.closure = TargetClosure(graph, d.target)
           /\ graph.source.binding # None
           /\ \A field \in {"manifest", "ref", "sha", "parent", "parentSha"} :
                  d.source[field] = graph.source.binding[field]
           /\ AnchorsBind(d, graph.source.binding, d.closure)

\* assert_matches_reference_cache
MatchesCache(a, source) ==
    /\ loaded[a].sha = source.manifest
    /\ \E e \in Verified(a, source.ref), p \in Verified(a, source.parent) :
           /\ e.sha = source.sha /\ p.sha = source.parentSha
           /\ e.kind = "derived_text" /\ e.parent = source.parent /\ e.parentSha = source.parentSha
    /\ \A anchor \in source.anchors : ExcerptHolds(a, source.ref, anchor)

\* Mutant: the packet is not asked which receipt it goes with.
BacklinkIgnored(packet, receipt, i) == receipt.content = i.content

\* assert_matches_workspace: packet and receipt name each other.
Linked(packet, receipt, i) ==
    /\ packet.content = i.content /\ packet.backlink = i.receipt
    /\ receipt.content = i.content

\* assert_matches_workspace: the receipt tells of a clean build, in one
\* environment, of the chain's last module, and the packet of the first.
CleanBuild(packet, receipt, i) ==
    LET report == receipt.report
        target == i.chain[Len(i.chain)] IN
    /\ receipt.tree = i.tree /\ receipt.reportSha = i.report /\ report = i.report
    /\ packet.content.environment = receipt.environment
    /\ target \in receipt.targets /\ report.targets = receipt.targets
    /\ packet.content.target = target
    /\ report.tree = i.tree /\ report.environment = receipt.environment
    /\ report.status = "passed" /\ receipt.exit = 0 /\ report.clean /\ receipt.clean
    /\ [module |-> i.module, result |-> "compiled"] \in packet.content.fixtures

\* assert_matches_workspace of the decision; _lean_release_version refuses a
\* build whose release it cannot read.
ProfileMatches(receipt, profile) ==
    /\ receipt.environment = profile.environment
    /\ receipt.report.build = profile.build
    /\ profile.build.release # None /\ profile.build.release = profile.version

-----------------------------------------------------------------------------
AtReplay(a, step) == replaying[a] # None /\ replaying[a].step = step

\* The replay of a decision, or that of an attachment.
Begin(a, decision, attachment, step) ==
    /\ replaying' = [replaying EXCEPT ![a] =
           [decision |-> decision, attachment |-> attachment, during |-> {workspace}, step |-> step]]
    /\ UNCHANGED <<workspace, replayed>>

\* A check of the replay: the next step, or the call raises.
Proceed(a, holds, step) ==
    /\ replaying' = [replaying EXCEPT ![a] = IF holds THEN [@ EXCEPT !.step = step] ELSE None]
    /\ UNCHANGED <<workspace, replayed>>

\* The last check of a replay.
Conclude(a, holds) ==
    /\ replayed' = replayed \cup IF holds THEN {replaying[a]} ELSE {}
    /\ replaying' = [replaying EXCEPT ![a] = None]
    /\ UNCHANGED workspace

\* load_pilot_boundary_decision, assert_binds_manifest
LoadDecision(a) ==
    /\ loaded[a] # None /\ pilots[a] \notin {NoHarness, None} /\ replaying[a] = None
    /\ workspace.decision # None
    /\ DecisionValid(workspace.decision) /\ BindsPilot(workspace.decision, pilots[a])
    /\ Begin(a, workspace.decision, None, "text")

MatchText(a) ==
    /\ AtReplay(a, "text")
    /\ Proceed(a, MatchesCache(a, replaying[a].decision.source), "source")

\* assert_matches_workspace reads the three files and compares their digests.
MatchSource(a) ==
    /\ AtReplay(a, "source")
    /\ Proceed(a, workspace.source = replaying[a].decision.implementation.source, "packet")

MatchPacket(a) ==
    /\ AtReplay(a, "packet")
    /\ Proceed(a, workspace.packet # None /\ workspace.packet = replaying[a].decision.implementation.packet,
               "receipt")

MatchReceipt(a) ==
    LET i == replaying[a].decision.implementation IN
    /\ AtReplay(a, "receipt")
    /\ Conclude(a, /\ workspace.receipt # None /\ workspace.receipt = i.receipt
                   /\ Linked(i.packet, i.receipt, i) /\ CleanBuild(i.packet, i.receipt, i)
                   /\ ProfileMatches(i.receipt, replaying[a].decision.profile))

-----------------------------------------------------------------------------
\* FineSourceSpanAttachmentV2, FineSourceSpanV2
AttachmentValid(f) ==
    /\ LET id(s) == s.id segment(s) == <<s.requirement, s.segment>> IN
       Unique(f.spans, id) /\ Unique(f.spans, segment) /\ Unique(f.ambiguities, id)
    /\ \A s \in f.spans : s.start < s.end
    /\ \A m \in f.ambiguities : \E s \in f.spans : s.requirement = m.requirement /\ s.segment = m.segment

\* assert_binds_decision; the disposition of the binding is always a gap.
BindsDecision(f, d) ==
    /\ f.decision = d /\ d.disposition = "gap"
    /\ f.candidate = d.candidate.id /\ f.revision = d.candidate.revision

\* assert_binds_reference_manifest; method and tool of the extraction are
\* compared as its parent is.
BindsExtraction(f, manifest) ==
    /\ manifest.sha = f.reference.manifest
    /\ \E e, p \in manifest.entries :
           /\ e.ref = f.reference.ref /\ e.sha = f.reference.sha
           /\ ByteLength[e.sha] = f.reference.size
           /\ p.ref = f.reference.parent /\ p.sha = f.reference.parentSha
           /\ e.kind = "derived_text" /\ e.local /\ e.parent = p.ref /\ e.parentSha = p.sha

\* load_fine_source_span_attachment
LoadAttachment(a) ==
    /\ loaded[a] # None /\ replaying[a] = None
    /\ workspace.attachment # None /\ AttachmentValid(workspace.attachment)
    /\ Begin(a, None, workspace.attachment, "binding")

\* The decision is loaded for it, with its own checks.
BindAttachment(a) ==
    LET f == replaying[a].attachment IN
    /\ AtReplay(a, "binding")
    /\ Proceed(a, /\ workspace.decision # None /\ DecisionValid(workspace.decision)
                  /\ BindsDecision(f, workspace.decision) /\ BindsExtraction(f, loaded[a]), "matrix")

\* assert_binds_rule_matrix, assert_requirement_coverage
MatrixBinds(f, matrix) ==
    /\ matrix # None /\ matrix = f.matrix
    /\ Len(matrix) = f.count
    /\ \A m, n \in DOMAIN matrix : matrix[m] = matrix[n] => m = n
    /\ {matrix[n] : n \in DOMAIN matrix} = {s.requirement : s \in f.spans}

MatchMatrix(a) ==
    /\ AtReplay(a, "matrix")
    /\ Proceed(a, MatrixBinds(replaying[a].attachment, workspace.matrix), "artifact")

\* assert_matches_source_artifact, on the bytes as they lie in the cache.
ArtifactMatches(f, bytes) ==
    /\ bytes = f.reference.sha
    /\ \A s \in f.spans : s.end <= ByteLength[bytes] /\ s.raw = <<bytes, s.start, s.end>>

MatchArtifact(a) ==
    /\ AtReplay(a, "artifact")
    /\ LET f == replaying[a].attachment IN
       Conclude(a, ArtifactMatches(f, files[<<f.reference.ref, f.reference.sha>>]))

\* Someone works in the workspace (external).
ChangeWorkspace(w) ==
    /\ w # workspace /\ workspace' = w
    /\ replaying' = [a \in Harnesses |->
           IF replaying[a] = None THEN None ELSE [replaying[a] EXCEPT !.during = @ \cup {w}]]
    /\ UNCHANGED replayed

DecisionNext ==
    \/ \E a \in Harnesses : \/ LoadDecision(a) \/ MatchText(a) \/ MatchSource(a) \/ MatchPacket(a)
                            \/ MatchReceipt(a)
                            \/ LoadAttachment(a) \/ BindAttachment(a) \/ MatchMatrix(a) \/ MatchArtifact(a)
    \/ \E w \in Workspaces : ChangeWorkspace(w)

\* Composition with the Builder; a load and a replay die with their process.
pilotEvidenceVars == <<bvars, calibrationVars, decisionVars>>

BuilderStep ==
    /\ BNext
    /\ reading' = [a \in Harnesses |-> IF loaded'[a] = None THEN None ELSE reading[a]]
    /\ replaying' = [a \in Harnesses |-> IF loaded'[a] = None THEN None ELSE replaying[a]]
    /\ UNCHANGED <<roundFile, library, returned, workspace, replayed>>

ENext ==
    \/ CalibrationNext /\ UNCHANGED <<bvars, decisionVars>>
    \/ DecisionNext /\ UNCHANGED <<bvars, calibrationVars>>
    \/ BuilderStep

ESpec == BInit /\ CalibrationInit /\ DecisionInit /\ [][ENext]_pilotEvidenceVars

-----------------------------------------------------------------------------
\* A decision that replays is about what was in front of the reader, although
\* its files were read one after the other.  Everything the target rests on in
\* the pilot is quoted, as the text of that digest has it, and a rule answers to
\* each quotation; the decision's source lay in the workspace, and so did a
\* packet and a receipt that are of one and the same passed build, in the
\* environment of the decision's profile.
DecisionHolds(c) ==
    LET d == c.decision IN
    /\ \E graph \in d.manifest.graphs :
           /\ graph.id = d.graph
           /\ \A id \in UNION {node.anchors : node \in Needed(graph, d.target)} :
                  /\ \E row \in d.matrix : id \in row.anchors
                  /\ \E x \in d.source.anchors :
                         x.id = id /\ x.excerpt = <<graph.source.binding.sha, x.start, x.end>>
    /\ \E w \in c.during : w.source = d.implementation.source
    /\ \E v, w \in c.during :
           /\ v.packet # None /\ w.receipt # None
           /\ v.packet.backlink = w.receipt /\ w.receipt.content = v.packet.content
           /\ w.receipt.report.status = "passed"
           /\ {v.packet.content.environment, w.receipt.environment, w.receipt.report.environment}
                  = {d.profile.environment}

\* An attachment that replays locates, within the text, every requirement of a
\* matrix that lay in the workspace, for a decision that lay there too, open.
AttachmentHolds(c) ==
    LET f == c.attachment IN
    /\ \E w \in c.during : /\ w.decision # None /\ w.decision = f.decision
                           /\ w.decision.disposition = "gap" /\ w.decision.blockers # {}
    /\ \E w \in c.during :
           /\ w.matrix # None
           /\ \A n \in DOMAIN w.matrix :
                  \E s \in f.spans : /\ s.requirement = w.matrix[n]
                                     /\ s.raw = <<f.reference.sha, s.start, s.end>>
                                     /\ s.start < s.end /\ s.end <= ByteLength[f.reference.sha]

DecisionSound == \A c \in replayed : IF c.attachment = None THEN DecisionHolds(c) ELSE AttachmentHolds(c)

\* What the Builder replays for a pilot target, rounds and decisions, can be
\* relied on whoever edits the files meanwhile.
PilotEvidenceSound == CalibrationSound /\ DecisionSound
=============================================================================
