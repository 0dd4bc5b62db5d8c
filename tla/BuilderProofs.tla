--------------------------- MODULE BuilderProofs ----------------------------
(***************************************************************************)
(* Proofs about the Builder: what a bundle says of its source, its draft   *)
(* and its reviewers, and what the control plane makes of it, for every    *)
(* set of manifests, pilots, authors, agents, requests and answers.        *)
(*                                                                         *)
(* The first part shows that the closure of a target holds everything it   *)
(* rests on; the inductive invariant of the second part follows a          *)
(* statement from its source to its bundle.  The last part is about the    *)
(* packs of earlier experience: what an estimate covers, what the sort and *)
(* the selection keep, and what a file that is replayed can be.            *)
(***************************************************************************)
EXTENDS BuilderAdmission, BoundaryDecision, ExperienceRetrieval, InductionProofs

-----------------------------------------------------------------------------
(* The closure of a target *)

\* As many identifiers as nodes at most.
LEMMA IdsFinite ==
  ASSUME NEW nodes, IsFiniteSet(nodes)
  PROVE  /\ IsFiniteSet(Ids(nodes)) /\ Cardinality(Ids(nodes)) <= Cardinality(nodes)
         /\ Cardinality(nodes) \in Nat
  <1>1. PICK f : f = [node \in nodes |-> node.id]
    OBVIOUS
  <1>2. f \in Surjection(nodes, Ids(nodes))
    BY <1>1 DEF Surjection, Ids
  <1> QED
    BY <1>2, FS_Surjection, FS_CardinalityType

\* target_closure: the work list has included what the target rests on.
LEMMA ClosureComplete ==
  ASSUME NEW graph, NEW target, IsFiniteSet(graph.nodes), target \in Ids(graph.nodes),
         \A node \in graph.nodes : node.depends \subseteq Ids(graph.nodes)
  PROVE  Needed(graph, target) \subseteq TargetClosure(graph, target)
  <1>1. PICK nodes, U, N : nodes = graph.nodes /\ U = Ids(graph.nodes) /\ N = Cardinality(graph.nodes)
    OBVIOUS
  <1>2. IsFiniteSet(U) /\ Cardinality(U) <= N /\ N \in Nat
    BY <1>1, IdsFinite
  <1>3. PICK G : G = [S \in SUBSET U |->
                         S \cup UNION {node.depends : node \in {x \in nodes : x.id \in S}}]
    OBVIOUS
  <1>4. Grows(G, U)
    BY <1>1, <1>3 DEF Grows
  <1> DEFINE Included(f) ==
                f = [n \in 0 .. N |->
                        IF n = 0 THEN {target}
                        ELSE f[n - 1] \cup UNION {node.depends : node \in {x \in nodes : x.id \in f[n - 1]}}]
  <1>5. \E f : Included(f)
    <2>1. {target} \in SUBSET U
      BY <1>1
    <2>2. PICK f \in [0 .. N -> SUBSET U] : f[0] = {target} /\ \A n \in 1 .. N : f[n] = G[f[n - 1]]
      <3>1. \E f : Repeats(f, G, {target}, U, N)
        BY <1>2, <1>4, <2>1, Iterated
      <3> QED
        BY <3>1 DEF Repeats
    <2>3. ASSUME NEW n \in 0 .. N
          PROVE  f[n] = IF n = 0 THEN {target}
                        ELSE f[n - 1] \cup UNION {node.depends : node \in {x \in nodes : x.id \in f[n - 1]}}
      <3>1. CASE n = 0
        BY <2>2, <3>1
      <3>2. CASE n # 0
        <4>1. n \in 1 .. N /\ n - 1 \in 0 .. N
          BY <1>2, <3>2
        <4>2. f[n - 1] \in SUBSET U /\ f[n] = G[f[n - 1]]
          BY <2>2, <4>1
        <4> QED
          BY <1>3, <3>2, <4>2
      <3> QED
        BY <3>1, <3>2
    <2>4. Included(f)
      BY <2>2, <2>3
    <2> QED
      BY <2>4
  <1>6. PICK f : f = (CHOOSE g : Included(g))
    OBVIOUS
  <1>7. Included(f)
    BY <1>5, <1>6
  <1>8. TargetClosure(graph, target) = {node \in nodes : node.id \in f[N]}
    BY <1>1, <1>6, Zenon DEF TargetClosure
  <1>9. f \in [0 .. N -> SUBSET U]
    <2> DEFINE In == {n \in Nat : n <= N => f[n] \in SUBSET U}
    <2>1. 0 \in In
      BY <1>1, <1>2, <1>7
    <2>2. ASSUME NEW n \in Nat, n \in In PROVE n + 1 \in In
      <3>1. CASE n + 1 <= N
        <4>1. n + 1 \in 0 .. N /\ n + 1 # 0 /\ (n + 1) - 1 = n /\ n <= N
          BY <1>2, <3>1
        <4>2. f[n + 1] = f[n] \cup UNION {node.depends : node \in {x \in nodes : x.id \in f[n]}}
          BY <1>7, <4>1, ZenonT(30)
        <4>3. f[n] \in SUBSET U
          BY <2>2, <4>1
        <4>4. f[n + 1] \in SUBSET U
          BY <1>1, <4>2, <4>3
        <4> QED
          BY <4>4
      <3> QED
        BY <3>1
    <2> HIDE DEF In
    <2>3. Nat \subseteq In
      BY <2>1, <2>2, SetInduction
    <2>4. \A n \in 0 .. N : f[n] \in SUBSET U
      BY <1>2, <2>3 DEF In
    <2> QED
      BY <1>7, <2>4
  <1>10. f[0] = {target} /\ \A n \in 1 .. N : f[n] = G[f[n - 1]]
    <2>1. f[0] = {target}
      BY <1>2, <1>7
    <2>2. ASSUME NEW n \in 1 .. N
          PROVE  f[n] = G[f[n - 1]]
      <3>1. n \in 0 .. N /\ n # 0 /\ n - 1 \in 0 .. N
        BY <1>2
      <3>2. f[n - 1] \in SUBSET U
        BY <1>9, <3>1
      <3>3. f[n] = f[n - 1] \cup UNION {node.depends : node \in {x \in nodes : x.id \in f[n - 1]}}
        BY <1>7, <3>1
      <3> QED
        BY <1>3, <3>2, <3>3
    <2> QED
      BY <2>1, <2>2
  <1> HIDE DEF Included
  <1>11. G[f[N]] = f[N]
    <2>1. Repeats(f, G, {target}, U, N)
      BY <1>9, <1>10 DEF Repeats
    <2> QED
      BY <1>2, <1>4, <2>1, Saturated
  <1>12. target \in f[N]
    <2> DEFINE In == {n \in Nat : n <= N => target \in f[n]}
    <2>1. 0 \in In
      BY <1>10
    <2>2. ASSUME NEW n \in Nat, n \in In PROVE n + 1 \in In
      <3>1. CASE n + 1 <= N
        <4>1. n + 1 \in 1 .. N /\ (n + 1) - 1 = n /\ n \in 0 .. N
          BY <1>2, <3>1
        <4>2. f[n + 1] = G[f[n]] /\ f[n] \in SUBSET U
          BY <1>9, <1>10, <4>1
        <4>3. target \in f[n]
          BY <2>2, <4>1
        <4> QED
          BY <1>4, <4>2, <4>3 DEF Grows
      <3> QED
        BY <3>1
    <2> HIDE DEF In
    <2>3. N \in In
      BY <1>2, <2>1, <2>2, SetInduction
    <2> QED
      BY <1>2, <2>3 DEF In
  <1>13. PICK S : S = f[N]
    OBVIOUS
  <1>14. S \in SUBSET U /\ target \in S /\ G[S] = S
    BY <1>2, <1>9, <1>11, <1>12, <1>13
  <1>15. \A n \in nodes : n.id \in S => n.depends \subseteq S
    BY <1>3, <1>14
  <1>16. ASSUME NEW node \in Needed(graph, target)
         PROVE  node \in TargetClosure(graph, target)
    <2>1. node \in nodes /\ node.id \in S
      BY <1>1, <1>14, <1>15, <1>16 DEF Needed
    <2> QED
      BY <1>8, <1>13, <2>1
  <1> QED
    BY <1>16

-----------------------------------------------------------------------------
(* The inductive invariant *)

\* Processes hold manifests that loaded.
CacheInv ==
    /\ tracked \in Manifests
    /\ DOMAIN loaded = Processes
    /\ \A p \in Processes : loaded[p] # None => loaded[p] \in Manifests /\ ManifestLoads(loaded[p])

\* A call works on a listed reference, and what it is about to put in place has
\* been inspected.
AcquisitionInv ==
    /\ damage \in Nat
    /\ DOMAIN op = Threads /\ DOMAIN files = Names
    /\ \A t \in Threads : op[t] # None =>
           /\ DOMAIN op[t] = {"entry", "part", "step"}
           /\ Name(op[t].entry) \in Names
           /\ op[t].step = "replace" => op[t].part = op[t].entry.sha

\* Harnesses hold pilot manifests that loaded.
PilotInv ==
    /\ pilotFile # None => \A g \in pilotFile.graphs : GraphTyped(g)
    /\ DOMAIN pilots = Harnesses
    /\ \A a \in Harnesses : pilots[a] \notin {NoHarness, None} =>
           PilotLoads(pilots[a]) /\ \A g \in pilots[a].graphs : GraphTyped(g)

\* A tuple of any length.
Tuple(s) == s \in Seq({s[i] : i \in DOMAIN s})

\* An observation says what Lean prints for its statement, and its two
\* snapshots agree.
Authentic(o) == o.type = TypeOf[o.statement] /\ o.facts.snapshot = o.facts.output.snapshot

\* Candidates are named as their translators were registered.
NamedInv(candidates, translators) ==
    /\ Tuple(candidates)
    /\ \A i \in DOMAIN candidates :
           /\ candidates[i].actor = translators[i].actor
           /\ candidates[i].statement \in Statements

\* What an evaluation says of who took part and of the queries it rests on.
EvaluationInv(e) ==
    /\ NamedInv(e.candidates, e.named.translators)
    /\ DOMAIN e.candidates = DOMAIN e.named.translators
    /\ e.mutator = e.named.mutator
    /\ Authentic(e.gate.reference)
    /\ Tuple(e.gate.observations)
    /\ \A i \in DOMAIN e.gate.observations : Authentic(e.gate.observations[i])

RunFields == {"step", "contract", "task", "generation", "cast", "named",
              "candidates", "reference", "observations", "probes"}

\* The locals of run(), between two of its calls.
RunInv(run) ==
    /\ DOMAIN run = RunFields
    /\ Len(run.cast.translators) \in Nat
    /\ DOMAIN run.named.translators = 1 .. Len(run.cast.translators)
    /\ NamedInv(run.candidates, run.named.translators)
    /\ run.step # "translate" =>
           /\ Len(run.candidates) = Len(run.cast.translators)
           /\ Authentic(run.reference)
    /\ Tuple(run.observations)
    /\ \A i \in DOMAIN run.observations : Authentic(run.observations[i])

FidelityInv ==
    /\ DOMAIN runs = Authors /\ DOMAIN evaluations = Authors
    /\ \A a \in Authors : runs[a] # Idle => RunInv(runs[a])
    /\ \A a \in Authors : \A e \in evaluations[a] : EvaluationInv(e)

\* The policy of the document a draft comes from, and the pilot its process
\* works with, permit it.
EndpointsPermitted(contract) ==
    \E m \in Manifests : m.sha = contract.manifest /\
        \E p \in m.entries :
            /\ p.kind = "source_document" /\ p.sha = contract.parent
            /\ contract.rights.endpoints \subseteq Permitted(p.egress)

\* A frozen contract is the recorded one, and everything it was frozen on holds.
FrozenInv(f) ==
    /\ f.preparation \in ledger /\ PreparationBinds(f.preparation, f.contract)
    /\ f.contract.statement \in Statements
    /\ EndpointsPermitted(f.contract)
    /\ f.pilot # None => PilotRespected(f.pilot, f.ref, f.receipt, f.contract.rights)
    /\ TestOnly
    /\ AssertBinds(f.evaluation, f.contract) /\ EvaluationInv(f.evaluation)

\* A packet has been drafted from a request, in a harness.
PacketInv(a, packet) == packet # None => pilots[a] # NoHarness /\ packet.contract.statement \in Statements

DraftsInv ==
    /\ DOMAIN drafts = Authors /\ DOMAIN packets = Authors /\ DOMAIN frozen = Authors
    /\ \A a \in Authors : PacketInv(a, drafts[a]) /\ PacketInv(a, packets[a])

LedgerInv ==
    /\ \A row, other \in ledger :
           row.contract = other.contract /\ row.revision = other.revision => row = other
    /\ \A a \in Authors : frozen[a] # None => FrozenInv(frozen[a])
    /\ \A b \in bundles : FrozenInv(b.frozen)

\* A statement from its source to its bundle.
BInv == CacheInv /\ AcquisitionInv /\ PilotInv /\ FidelityInv /\ DraftsInv /\ LedgerInv

\* A pilot manifest that loaded.
PilotSound(manifest) == PilotLoads(manifest) /\ \A g \in manifest.graphs : GraphTyped(g)

\* A tree that is being hashed: what has been hashed was there, and what is
\* neither hashed nor still to come was missing, at some moment.
Scanned(tree, unseen, listed, during) ==
    /\ \A e \in tree : \E l \in during : RegularFile(l, e.path) /\ l.files[e.path].bytes = e.bytes
    /\ \A path \in RootFiles \cup ModulePaths :
           path \notin unseen /\ path \notin listed /\ path \notin {e.path : e \in tree} =>
               \E l \in during : path \notin DOMAIN l.files

\* The lock's Lake manifest, and its toolchain.
LakeSeen(round, during) ==
    \E l \in during : /\ "lake-manifest.json" \in DOMAIN l.files
                      /\ l.files["lake-manifest.json"].bytes = round.lock.lake

ToolchainSeen(round, during) == \E l \in during : <<"sha", ToolchainText(l)>> = round.lock.toolchainSha

\* These paths were regular files.
PathsSeen(paths, during) == \A path \in paths : \E l \in during : RegularFile(l, path)

\* The packet a load has parsed was there.
PacketSeen(packet, during) == packet # None /\ \E l \in during : l.packet = packet

LoadFields ==
    {"round", "during", "vouched", "unseen", "listed", "tree", "packet", "receipt", "again", "step"}

\* What a load has seen of the Library by each of its steps.
LookedAt(load) ==
    LET evidence == load.round.spike.receipt.evidence IN
    /\ load.step \in {"identities", "root"} => load.tree = {}
    /\ load.step = "tree" => Scanned(load.tree, load.unseen, load.listed, load.during)
    /\ load.step \notin {"identities", "root", "tree"} =>
           TreeSeen(evidence.tree, load.during) /\ LakeSeen(load.round, load.during)
    /\ load.step \notin {"identities", "root", "tree", "toolchain"} => ToolchainSeen(load.round, load.during)
    /\ load.step = "targets" => PathsSeen(evidence.targets \ load.unseen, load.during)
    /\ load.step \notin {"identities", "root", "tree", "toolchain", "targets"} =>
           PathsSeen(evidence.targets, load.during)
    /\ load.step \in {"parse receipt", "compare"} => PacketSeen(load.packet, load.during)
    /\ load.step = "authority" => evidence.tracked = None
    /\ load.step \in {"packet", "receipt", "parse packet", "parse receipt", "compare"} => evidence.tracked # None

\* A load in progress: its round was checked against the manifests its process
\* still holds, and what it has read of the Library was there.
LoadInv(load, present, pilot, manifest) ==
    /\ DOMAIN load = LoadFields
    /\ manifest # None /\ pilot \notin {NoHarness, None}
    /\ RoundValid(load.round) /\ NeedsLibrary(load.round)
    /\ Binds(load.round, pilot, manifest)
    /\ present \in load.during
    /\ load.step # "identities" /\ load.round.state = "complete" => load.vouched = load.round.reports
    /\ LookedAt(load)

CalibrationInv ==
    /\ DOMAIN reading = Harnesses
    /\ \A a \in Harnesses : reading[a] # None => LoadInv(reading[a], library, pilots[a], loaded[a])
    /\ \A c \in returned : RoundHolds(c)

\* A decision that was loaded for a pilot manifest that loaded.
DecisionBound(d) == DecisionValid(d) /\ BindsPilot(d, d.manifest) /\ PilotSound(d.manifest)

\* A replay in progress: what it has compared so far was as the decision, or
\* the attachment, says when it was read.
ReplayInv(c) ==
    LET d == c.decision f == c.attachment IN
    /\ DOMAIN c = {"decision", "attachment", "during", "step"}
    /\ c.step \in {"text", "source", "packet", "receipt"} => f = None /\ DecisionBound(d)
    /\ c.step \in {"source", "packet", "receipt"} =>
           \A anchor \in d.source.anchors : anchor.excerpt = <<d.source.sha, anchor.start, anchor.end>>
    /\ c.step \in {"packet", "receipt"} => \E w \in c.during : w.source = d.implementation.source
    /\ c.step = "receipt" => \E w \in c.during : w.packet # None /\ w.packet = d.implementation.packet
    /\ c.step \in {"binding", "matrix", "artifact"} => f # None /\ AttachmentValid(f)
    /\ c.step \in {"matrix", "artifact"} =>
           \E w \in c.during : /\ w.decision # None /\ w.decision = f.decision
                               /\ w.decision.disposition = "gap" /\ w.decision.blockers # {}
    /\ c.step = "artifact" =>
           \E w \in c.during : /\ w.matrix # None
                               /\ \A n \in DOMAIN w.matrix : \E s \in f.spans : s.requirement = w.matrix[n]

DecisionInv ==
    /\ DOMAIN replaying = Harnesses
    /\ \A a \in Harnesses : replaying[a] # None => ReplayInv(replaying[a]) /\ workspace \in replaying[a].during
    /\ DecisionSound

\* Loads and replays beside the Builder.
EInv == BInv /\ CalibrationInv /\ DecisionInv

-----------------------------------------------------------------------------
(* What the operators of the model give *)

\* The empty tuple, and one element more.
LEMMA EmptyTuple == Tuple(<<>>) /\ DOMAIN <<>> = {}
  BY DEF Tuple

LEMMA TupleAppend ==
  ASSUME NEW s, Tuple(s), NEW x
  PROVE  /\ Tuple(Append(s, x))
         /\ Len(s) \in Nat /\ DOMAIN s = 1 .. Len(s)
         /\ DOMAIN Append(s, x) = 1 .. Len(s) + 1 /\ Len(Append(s, x)) = Len(s) + 1
         /\ \A i \in 1 .. Len(s) : Append(s, x)[i] = s[i]
         /\ Append(s, x)[Len(s) + 1] = x
  <1>1. PICK S : S = {s[i] : i \in DOMAIN s}
    OBVIOUS
  <1>2. s \in Seq(S)
    BY <1>1 DEF Tuple
  <1>3. Len(s) \in Nat /\ DOMAIN s = 1 .. Len(s)
    BY <1>2
  <1>4. PICK T : T = S \cup {x}
    OBVIOUS
  <1>5. s \in Seq(T) /\ x \in T
    BY <1>2, <1>4
  <1>6. PICK t : t = Append(s, x)
    OBVIOUS
  <1>7. /\ t \in Seq(T)
        /\ DOMAIN t = 1 .. Len(s) + 1 /\ Len(t) = Len(s) + 1
        /\ \A i \in 1 .. Len(s) : t[i] = s[i]
        /\ t[Len(s) + 1] = x
    BY <1>5, <1>6
  <1>8. Tuple(t)
    <2>1. T \subseteq {t[i] : i \in DOMAIN t}
      BY <1>1, <1>3, <1>4, <1>7
    <2> QED
      BY <1>7, <2>1 DEF Tuple
  <1> QED
    BY <1>3, <1>6, <1>7, <1>8

\* Whatever a query is answered with, it is what Lean prints for the statement
\* that was asked about.
LEMMA AnswersAuthentic ==
  ASSUME NEW request, NEW asked, NEW at, NEW result \in QueryAnswers(request, asked, at)
  PROVE  Authentic(Observation(request, result))
  <1>1. CASE at.assurance = "scripted_fake"
    <2>1. result = QueryResult(ScriptedOutput(request), at)
      BY <1>1 DEF QueryAnswers
    <2> QED
      BY <2>1 DEF QueryResult, ScriptedOutput, Authentic, Observation
  <1>2. CASE at.assurance # "scripted_fake"
    <2>1. PICK q, o : /\ q \in asked /\ o \in WorkerOutputs(q, at)
                      /\ Normalizes(request, at, o) /\ result = QueryResult(o, at)
      BY <1>2 DEF QueryAnswers
    <2>2. PICK record \in Printed(q, at) : o = WorkerOutput(q, at, record)
      BY <2>1, Zenon DEF WorkerOutputs
    <2>3. record.type = TypeOf[q.statement]
      BY <2>2 DEF Printed
    <2>4. o.type = TypeOf[q.statement] /\ o.snapshot = RenderedSource(q)
      BY <2>2, <2>3 DEF WorkerOutput
    <2>5. RenderedSource(q) = RenderedSource(request)
      BY <2>1, <2>4 DEF Normalizes
    <2>6. q.statement = request.statement
      <3>1. RenderedSource(q).carrier[2] = q.statement /\ RenderedSource(request).carrier[2] = request.statement
        BY DEF RenderedSource
      <3> QED
        BY <2>5, <3>1
    <2>7. /\ Observation(request, result).type = o.type
          /\ Observation(request, result).statement = request.statement
          /\ Observation(request, result).facts.snapshot = o.snapshot
          /\ Observation(request, result).facts.output = o
      BY <2>1 DEF QueryResult, Observation
    <2> QED
      BY <2>4, <2>6, <2>7 DEF Authentic
  <1> QED
    BY <1>1, <1>2

\* A source that binds permits the endpoints of the contract: the text widens
\* no use of the document it was derived from.
LEMMA SourcePermits ==
  ASSUME CacheInv, NEW a \in Processes, NEW packet, SourceBinds(a, packet)
  PROVE  EndpointsPermitted(packet.contract)
  <1>1. PICK m : m = loaded[a]
    OBVIOUS
  <1>2. m \in Manifests /\ ManifestLoads(m) /\ m.sha = packet.contract.manifest /\ loaded[a] # None
    BY <1>1 DEF CacheInv, SourceBinds
  <1>3. PICK e \in Verified(a, packet.ref) :
           /\ e.kind = "derived_text"
           /\ e.parentSha = packet.contract.parent
           /\ RightsFit(e, packet.contract.rights)
    BY DEF SourceBinds
  <1>4. e \in m.entries
    BY <1>1, <1>2, <1>3 DEF Verified, Listed
  <1>5. PICK p \in m.entries : /\ p.kind = "source_document" /\ p.sha = e.parentSha
                               /\ e.egress <= p.egress
    BY <1>2, <1>3, <1>4 DEF ManifestLoads, DerivationHolds
  <1>6. e.egress \in 0 .. 2 /\ p.egress \in 0 .. 2
    BY <1>2, <1>4, <1>5, ManifestAssumption
  <1>7. Permitted(e.egress) \subseteq Permitted(p.egress)
    BY <1>5, <1>6 DEF Permitted
  <1>8. packet.contract.rights.endpoints \subseteq Permitted(p.egress)
    BY <1>3, <1>7 DEF RightsFit
  <1> QED
    BY <1>2, <1>3, <1>5, <1>8 DEF EndpointsPermitted

\* What the harness of a process admits its pilot manifest permits.
LEMMA PilotPermits ==
  ASSUME PilotInv, NEW a \in Harnesses, pilots[a] \notin {NoHarness, None},
         NEW ref, NEW receipt, NEW rights, PilotAdmits(a, ref, receipt, rights)
  PROVE  PilotRespected(pilots[a], ref, receipt, rights)
  <1>1. PICK m : m = pilots[a]
    OBVIOUS
  <1>2. PilotLoads(m) /\ (\A g \in m.graphs : GraphTyped(g)) /\ m # None
    BY <1>1 DEF PilotInv
  <1>3. SUFFICES ASSUME NEW graph \in m.graphs, graph.source.binding # None, graph.source.binding.ref = ref
                 PROVE  /\ receipt # None /\ receipt.target \in Ids(graph.nodes)
                        /\ \A node \in Needed(graph, receipt.target) :
                               /\ node.state = "accepted" /\ node.evidence
                               /\ \A gate \in graph.gates : gate.target = node.id => gate.state = "accepted"
                        /\ \A r \in graph.requirements :
                               /\ \A v \in r.reviews : v.state # "rejected"
                               /\ Cardinality({v.group : v \in {w \in r.reviews : w.state = "accepted"}}) >= r.groups
                        /\ graph.census.evidence /\ graph.source.binding.review = "accepted"
                        /\ graph.mode = "conditional_candidate" /\ \A b \in graph.blockers : ~b.active
                        /\ receipt.rights = rights
    BY <1>1, Zenon DEF PilotRespected
  <1>4. receipt # None /\ receipt.id = graph.id /\ ReceiptHolds(m, receipt, rights)
    BY <1>1, <1>2, <1>3 DEF PilotAdmits
  <1>5. PICK g \in m.graphs : /\ g.id = receipt.id /\ Issuable(g, receipt.target, rights)
                              /\ receipt = Receipt(m, g, receipt.target, rights)
    BY <1>4 DEF ReceiptHolds
  <1>6. g = graph /\ GraphValid(graph)
    BY <1>2, <1>4, <1>5 DEF PilotLoads
  <1>7. PICK target : target = receipt.target
    OBVIOUS
  <1>8. target \in Ids(graph.nodes) /\ Blockers(graph, target) = {}
    BY <1>5, <1>6, <1>7 DEF Issuable
  <1>9. receipt.rights = rights
    <2>1. Receipt(m, g, target, rights).rights = rights
      BY DEF Receipt
    <2> QED
      BY <1>5, <1>7, <2>1
  <1>10. PICK closure : closure = TargetClosure(graph, target)
    OBVIOUS
  <1>11. /\ graph.source.binding.review = "accepted"
         /\ Settled(graph.census)
         /\ graph.mode # "overlap_blocked_reference"
    BY <1>3, <1>8 DEF Blockers, When
  <1>12. /\ \A b \in graph.blockers : ~b.active
         /\ \A r \in graph.requirements : Settled(r)
         /\ \A n \in closure : Settled(n)
         /\ \A gate \in graph.gates : gate.target \in Ids(closure) => Settled(gate)
    <2>1. /\ {<<"blocker", b.id>> : b \in {c \in graph.blockers : c.active}} = {}
          /\ {<<"role", r.role>> : r \in {q \in graph.requirements : ~Settled(q)}} = {}
          /\ {<<"node", node.id>> : node \in {n \in closure : ~Settled(n)}} = {}
          /\ {<<"feedback", gate.id>> :
                 gate \in {g1 \in graph.gates : g1.target \in Ids(closure) /\ ~Settled(g1)}} = {}
      BY <1>8, <1>10, Zenon DEF Blockers
    <2>2. \A b \in graph.blockers : ~b.active
      BY <2>1
    <2>3. \A r \in graph.requirements : Settled(r)
      BY <2>1
    <2>4. \A n \in closure : Settled(n)
      BY <2>1
    <2>5. \A gate \in graph.gates : gate.target \in Ids(closure) => Settled(gate)
      BY <2>1
    <2> QED
      BY <2>2, <2>3, <2>4, <2>5
  <1>13. Needed(graph, target) \subseteq closure
    <2>1. \A node \in graph.nodes : node.depends \subseteq Ids(graph.nodes)
      BY <1>6 DEF GraphValid, Anchored
    <2>2. IsFiniteSet(graph.nodes)
      BY <1>2 DEF GraphTyped
    <2> QED
      BY <1>8, <1>10, <2>1, <2>2, ClosureComplete
  <1>14. ASSUME NEW node \in Needed(graph, target)
         PROVE  /\ node.state = "accepted" /\ node.evidence
                /\ \A gate \in graph.gates : gate.target = node.id => gate.state = "accepted"
    <2>1. node \in closure /\ node \in graph.nodes
      BY <1>13, <1>14 DEF Needed
    <2>2. NodeValid(node) /\ Settled(node)
      BY <1>6, <1>12, <2>1 DEF GraphValid
    <2>3. node.id \in Ids(closure)
      BY <2>1 DEF Ids
    <2> QED
      BY <1>12, <2>2, <2>3 DEF NodeValid, Settled
  <1>15. ASSUME NEW r \in graph.requirements
         PROVE  /\ \A v \in r.reviews : v.state # "rejected"
                /\ Cardinality({v.group : v \in {w \in r.reviews : w.state = "accepted"}}) >= r.groups
    <2>1. RequirementValid(r) /\ Settled(r)
      BY <1>6, <1>12 DEF GraphValid
    <2> QED
      BY <2>1 DEF RequirementValid, Settled
  <1>16. graph.census.evidence /\ graph.mode = "conditional_candidate"
    BY <1>2, <1>6, <1>11 DEF GraphValid, CensusValid, GraphTyped
  <1> QED
    BY <1>4, <1>7, <1>8, <1>9, <1>11, <1>12, <1>14, <1>15, <1>16

\* Nobody judges what he made: who accepts, in whatever role, was registered
\* neither as a translator nor as the mutation agent.
LEMMA ReviewersApart ==
  ASSUME NEW e, NEW contract, AssertBinds(e, contract), EvaluationInv(e), NEW role
  PROVE  /\ \A i \in DOMAIN e.named.translators : e.named.translators[i].actor \notin Accepting(e.report, role)
         /\ e.named.mutator \notin Accepting(e.report, role)
  <1>1. PICK translators : translators = {e.candidates[i].actor : i \in DOMAIN e.candidates}
    OBVIOUS
  <1>2. /\ e.review.by \notin translators \cup {e.mutator}
        /\ \A s \in e.signoffs : s.independent => s.reviewer \notin translators \cup {e.mutator}
    <2>1. RolesApart(e.candidates, e.mutator, e.review.by, e.signoffs)
      BY DEF AssertBinds
    <2> QED
      BY <1>1, <2>1 DEF RolesApart
  <1>3. PICK own : own.reviewer = e.review.by /\ e.report.signoffs = e.signoffs \cup {own}
    <2>1. PICK evidence, at, report :
             /\ at = e.report.at /\ report = e.report
             /\ report = Report(contract, e.candidates, e.review, e.signoffs, evidence, at)
      BY DEF AssertBinds, ReportBinds
    <2>2. PICK own : own = [reviewer |-> e.review.by, role |-> "semantic_reviewer",
                            independent |-> e.review.independent, accept |-> e.review.accept,
                            at |-> at]
      OBVIOUS
    <2>3. Report(contract, e.candidates, e.review, e.signoffs, evidence, at).signoffs = e.signoffs \cup {own}
      BY <2>2 DEF Report
    <2> QED
      BY <2>1, <2>2, <2>3
  <1>4. \A who \in Accepting(e.report, role) : who \notin translators \cup {e.mutator}
    BY <1>2, <1>3 DEF Accepting
  <1>5. \A i \in DOMAIN e.named.translators : e.named.translators[i].actor \in translators
    BY <1>1 DEF EvaluationInv, NamedInv
  <1>6. e.mutator = e.named.mutator
    BY DEF EvaluationInv
  <1> QED
    BY <1>4, <1>5, <1>6

\* What binds an observation to its request admits it, and it is so.
LEMMA ObservationAdmission ==
  ASSUME NEW contract, NEW environment, NEW subject, NEW statement \in Statements, NEW o, Authentic(o),
         ObservationBinds(o, TypeRequest(subject, statement, contract), environment),
         Observed(contract, environment, o.at, o.type)
  PROVE  /\ ObservationAdmitted(contract, environment, subject, statement, o)
         /\ TypeOf[statement] = contract.type
  <1>1. PICK request : request = TypeRequest(subject, statement, contract)
    OBVIOUS
  <1>2. /\ request.subject = subject /\ request.statement = statement
        /\ request.declaration = contract.declaration /\ request.imports = contract.imports
    BY <1>1 DEF TypeRequest
  <1>3. /\ o.subject = subject /\ o.statement = statement /\ o.declaration = contract.declaration
        /\ RawOutputBinds(o, environment, request)
        /\ o.type = contract.type /\ o.at = environment
    BY <1>1, <1>2 DEF ObservationBinds, Observed
  <1>4. PICK output : output = o.facts.output
    OBVIOUS
  <1>5. o.type = TypeOf[statement] /\ o.facts.snapshot = output.snapshot
    BY <1>3, <1>4 DEF Authentic
  <1>6. CASE environment.assurance = "scripted_fake"
    <2>1. ScriptedOutputBinds(output, o, request)
      BY <1>3, <1>4, <1>6 DEF RawOutputBinds
    <2>2. ScriptedAdmitted(contract, subject, statement, o)
      BY <1>2, <1>4, <1>5, <2>1 DEF ScriptedOutputBinds, ScriptedAdmitted
    <2> QED
      BY <1>3, <1>5, <1>6, <2>2 DEF ObservationAdmitted, OutputAdmitted
  <1>7. CASE environment.assurance # "scripted_fake"
    <2>1. LocalOutputBinds(output, o, environment, request)
      BY <1>3, <1>4, <1>7 DEF RawOutputBinds
    <2>2. Form[statement] \in {"complete", "header"}
      BY <1>2, <2>1, BuilderAssumption DEF LocalOutputBinds, Renders
    <2>3. RenderedForAdmission(contract, statement) = RenderedSource(request)
      BY <1>2, <2>2 DEF RenderedForAdmission, RenderedSource
    <2>4. LocalAdmitted(contract, environment, statement, o)
      BY <1>2, <1>3, <1>4, <1>5, <2>1, <2>2, <2>3 DEF LocalOutputBinds, LocalAdmitted
    <2> QED
      BY <1>3, <1>5, <1>7, <2>4 DEF ObservationAdmitted, OutputAdmitted
  <1> QED
    BY <1>6, <1>7

\* The control plane's reading of the gate's evidence.
LEMMA CheckAdmission ==
  ASSUME NEW e, NEW contract, AssertBinds(e, contract), EvaluationInv(e),
         contract.statement \in Statements, TestOnly
  PROVE  /\ contract.environment.lake # Unbound => CanonicalCheckAdmitted(contract, e)
         /\ TypeOf[contract.statement] = contract.type
         /\ \A i \in DOMAIN e.candidates : TypeOf[e.candidates[i].statement] = contract.type
  <1>1. PICK gate, candidates : gate = e.gate /\ candidates = e.candidates
    OBVIOUS
  <1>2. EvidenceBinds(gate, contract, candidates) /\ CandidatesSound(e.task, e.generation, candidates)
    BY <1>1 DEF AssertBinds
  <1>3. PICK requests : requests = [i \in DOMAIN candidates |-> CandidateRequest(contract, candidates[i])]
    OBVIOUS
  <1>4. /\ gate.contract = contract
        /\ EnvironmentValid(gate.environment) /\ EnvironmentFits(gate.environment, contract)
        /\ Len(gate.observations) = Len(candidates)
        /\ ObservationBinds(gate.reference, ReferenceRequest(contract), gate.environment)
        /\ Observed(contract, gate.environment, gate.reference.at, gate.reference.type)
        /\ \A i \in DOMAIN candidates :
               /\ ObservationBinds(gate.observations[i], requests[i], gate.environment)
               /\ Observed(contract, gate.environment, gate.observations[i].at, gate.observations[i].type)
    BY <1>2, <1>3, Zenon DEF EvidenceBinds
  <1>5. /\ Authentic(gate.reference)
        /\ \A i \in DOMAIN gate.observations : Authentic(gate.observations[i])
        /\ \A i \in DOMAIN candidates : candidates[i].statement \in Statements
        /\ Tuple(gate.observations) /\ Tuple(candidates)
    BY <1>1 DEF EvaluationInv, NamedInv
  <1>6. DOMAIN gate.observations = DOMAIN candidates
    BY <1>4, <1>5, TupleAppend
  <1>7. /\ ObservationAdmitted(contract, gate.environment, ReferenceId, contract.statement, gate.reference)
        /\ TypeOf[contract.statement] = contract.type
    BY <1>4, <1>5, ObservationAdmission DEF ReferenceRequest
  <1>8. ASSUME NEW i \in DOMAIN candidates
        PROVE  /\ ObservationAdmitted(contract, gate.environment, candidates[i].id,
                                      candidates[i].statement, gate.observations[i])
               /\ TypeOf[candidates[i].statement] = contract.type
    <2>1. requests[i] = TypeRequest(candidates[i].id, candidates[i].statement, contract)
      BY <1>3 DEF CandidateRequest
    <2>2. candidates[i].statement \in Statements /\ Authentic(gate.observations[i])
      BY <1>5, <1>6
    <2>3. /\ ObservationBinds(gate.observations[i], TypeRequest(candidates[i].id, candidates[i].statement, contract),
                              gate.environment)
          /\ Observed(contract, gate.environment, gate.observations[i].at, gate.observations[i].type)
      BY <1>4, <2>1
    <2> QED
      BY <2>2, <2>3, ObservationAdmission
  <1>9. ASSUME contract.environment.lake # Unbound
        PROVE  CanonicalCheckAdmitted(contract, e)
    <2>1. EnvironmentAdmitted(contract, gate.environment)
      BY <1>4, <1>9 DEF EnvironmentAdmitted, EnvironmentValid, EnvironmentFits
    <2>2. Distinct([i \in DOMAIN candidates |-> candidates[i].id])
      BY <1>2 DEF CandidatesSound
    <2> QED
      BY <1>1, <1>4, <1>7, <1>8, <2>1, <2>2 DEF CanonicalCheckAdmitted
  <1> QED
    BY <1>1, <1>7, <1>8, <1>9

\* The control plane admits what the Builder froze.
LEMMA HandoffAccepted ==
  ASSUME NEW b, AssertBinds(b.frozen.evaluation, b.frozen.contract), EvaluationInv(b.frozen.evaluation),
         b.frozen.contract.statement \in Statements, TestOnly,
         b.frozen.contract.environment.lake # Unbound
  PROVE  Admits(b)
  <1>1. PICK contract, e : contract = b.frozen.contract /\ e = b.frozen.evaluation
    OBVIOUS
  <1>2. AssertBinds(e, contract) /\ EvaluationInv(e)
    BY <1>1
  <1>3. PICK task, generation : task = e.task /\ generation = e.generation
    OBVIOUS
  <1>4. /\ task.span = contract.span
        /\ task = TranslationTask(contract, task.span, task.obligations)
        /\ ObligationsValid(task, contract)
        /\ generation = GenerationTask(contract, task)
        /\ CandidatesSound(task, generation, e.candidates)
    BY <1>2, <1>3 DEF AssertBinds, ClaimBinds
  <1>5. /\ task.id = contract.id /\ task.revision = contract.revision /\ task.source = contract.source
        /\ task.normalized = contract.mathematics.normalized /\ task.statement = contract.statement
    BY <1>4 DEF TranslationTask
  <1>6. SpanAdmitted(contract, e)
    BY <1>3, <1>4 DEF SpanAdmitted
  <1>7. ObligationsAdmitted(contract, e.task.obligations)
    BY <1>3, <1>4, <1>5 DEF ObligationsAdmitted, ObligationsValid
  <1>8. e.generation = GenerationProjection(contract, e)
    BY <1>3, <1>4, Zenon DEF GenerationProjection, GenerationTask, GenerationEnvelope, GenerationObligation
  <1>9. CandidatesAdmitted(e)
    BY <1>3, <1>4 DEF CandidatesAdmitted, CandidatesSound, Independent
  <1>10. CanonicalCheckAdmitted(contract, e)
    BY <1>1, <1>2, CheckAdmission
  <1> QED
    BY <1>1, <1>3, <1>5, <1>6, <1>7, <1>8, <1>9, <1>10 DEF Admits

-----------------------------------------------------------------------------
(* The steps *)

\* The cache and its processes.
LEMMA CacheKept ==
  ASSUME CacheInv, CacheNext \/ UNCHANGED cacheVars
  PROVE  CacheInv'
  <1>1. CASE UNCHANGED cacheVars
    BY <1>1 DEF CacheInv, cacheVars
  <1>2. CASE \E m \in Manifests : Publish(m)
    BY <1>2 DEF CacheInv, Publish
  <1>3. ASSUME NEW p \in Processes, Load(p)
        PROVE  CacheInv'
    BY <1>3 DEF CacheInv, Load
  <1>4. ASSUME NEW p \in Processes, Die(p)
        PROVE  CacheInv'
    BY <1>4 DEF CacheInv, Die
  <1>5. ASSUME NEW t \in Threads, CacheStep(t)
        PROVE  CacheInv'
    <2>1. UNCHANGED <<tracked, loaded>>
      BY <1>5 DEF CacheStep, Acquire, Copy, Replace, Finish
    <2> QED
      BY <2>1 DEF CacheInv
  <1>6. ASSUME NEW n \in Names, Damage(n)
        PROVE  CacheInv'
    BY <1>6 DEF CacheInv, Damage
  <1> QED
    BY <1>1, <1>2, <1>3, <1>4, <1>5, <1>6 DEF CacheNext

\* A call that goes on.
LEMMA CallKept ==
  ASSUME CacheInv, AcquisitionInv, NEW t \in Threads, CacheStep(t)
  PROVE  AcquisitionInv'
  <1>1. ASSUME NEW ref, NEW how, NEW refresh, Acquire(t, ref, how, refresh)
        PROVE  AcquisitionInv'
    <2>1. PICK e \in Listed(ProcessOf[t], ref) :
              \E step \in {"verify", "copy"} :
                  op' = [op EXCEPT ![t] = [entry |-> e, part |-> None, step |-> step]]
      BY <1>1, Zenon DEF Acquire
    <2>2. PICK step \in {"verify", "copy"} :
              op' = [op EXCEPT ![t] = [entry |-> e, part |-> None, step |-> step]]
      BY <2>1
    <2>3. Name(e) \in Names
      <3>1. ProcessOf[t] \in Processes
        BY ThreadAssumption
      <3>2. \E m \in Manifests : e \in m.entries
        BY <2>1, <3>1 DEF Listed, CacheInv
      <3> QED
        BY <3>2 DEF Names
    <2>4. UNCHANGED <<files, damage>>
      BY <1>1 DEF Acquire
    <2> QED
      BY <2>2, <2>3, <2>4 DEF AcquisitionInv
  <1>2. ASSUME NEW bytes, Copy(t, bytes)
        PROVE  AcquisitionInv'
    BY <1>2 DEF AcquisitionInv, Copy, At
  <1>3. CASE Replace(t)
    <2>1. CASE op' = [op EXCEPT ![t] = None] /\ UNCHANGED files /\ UNCHANGED damage
      BY <2>1 DEF AcquisitionInv
    <2>2. CASE /\ op' = [op EXCEPT ![t].step = "verify"] /\ UNCHANGED damage
               /\ files' = [files EXCEPT ![Name(op[t].entry)] = op[t].part]
      BY <1>3, <2>2 DEF AcquisitionInv, Replace, At
    <2> QED
      BY <1>3, <2>1, <2>2 DEF Replace, Leave
  <1>4. CASE Finish(t)
    BY <1>4 DEF AcquisitionInv, Finish, Leave
  <1> QED
    BY <1>1, <1>2, <1>3, <1>4 DEF CacheStep

\* The calls, the cached files and what others do to them.
LEMMA AcquisitionKept ==
  ASSUME CacheInv, AcquisitionInv, CacheNext \/ UNCHANGED cacheVars
  PROVE  AcquisitionInv'
  <1>1. CASE UNCHANGED <<files, op, damage>>
    BY <1>1 DEF AcquisitionInv
  <1>2. CASE UNCHANGED cacheVars \/ (\E m \in Manifests : Publish(m)) \/ \E p \in Processes : Load(p)
    BY <1>1, <1>2 DEF cacheVars, Publish, Load
  <1>3. ASSUME NEW p \in Processes, Die(p)
        PROVE  AcquisitionInv'
    BY <1>3 DEF AcquisitionInv, Die
  <1>4. ASSUME NEW n \in Names, Damage(n)
        PROVE  AcquisitionInv'
    <2>1. PICK bytes : files' = [files EXCEPT ![n] = bytes]
      BY <1>4 DEF Damage
    <2> QED
      BY <1>4, <2>1 DEF AcquisitionInv, Damage
  <1> QED
    BY <1>2, <1>3, <1>4, CallKept DEF CacheNext

\* The pilot manifests.
LEMMA PilotKept ==
  ASSUME PilotInv, PilotNext \/ UNCHANGED pilotVars
  PROVE  PilotInv'
  <1>1. CASE UNCHANGED pilotVars
    BY <1>1 DEF PilotInv, pilotVars
  <1>2. ASSUME NEW manifest \in PilotManifests, PublishPilot(manifest)
        PROVE  PilotInv'
    <2>1. \A g \in manifest.graphs : GraphTyped(g)
      BY PilotAssumption
    <2> QED
      BY <1>2, <2>1 DEF PilotInv, PublishPilot
  <1>3. ASSUME NEW a \in Harnesses, OpenHarness(a)
        PROVE  PilotInv'
    BY <1>3 DEF PilotInv, OpenHarness
  <1>4. ASSUME NEW graph, NEW target, NEW rights, IssueReceipt(graph, target, rights)
        PROVE  PilotInv'
    BY <1>4 DEF PilotInv, IssueReceipt
  <1> QED
    BY <1>1, <1>2, <1>3, <1>4 DEF PilotNext

\* A run that takes new locals.
LEMMA RunKept ==
  ASSUME FidelityInv, NEW a \in Authors, NEW run, run = Idle \/ RunInv(run),
         runs' = [runs EXCEPT ![a] = run], UNCHANGED evaluations
  PROVE  FidelityInv'
  BY DEF FidelityInv

\* The agents are registered.
LEMMA StartKept ==
  ASSUME FidelityInv, NEW a \in Authors, NEW contract, NEW claim, NEW cast \in Casts, NEW obligations,
         StartRun(a, contract, claim, cast, obligations)
  PROVE  FidelityInv'
  <1>0. PICK task, run :
           /\ run = [step |-> "translate", contract |-> contract, task |-> task,
                     generation |-> GenerationTask(contract, task), cast |-> cast,
                     named |-> Registered(cast), candidates |-> <<>>, reference |-> <<>>,
                     observations |-> <<>>, probes |-> <<>>]
           /\ runs' = [runs EXCEPT ![a] = run]
    BY Zenon DEF StartRun
  <1>1. /\ DOMAIN run = RunFields
        /\ run.step = "translate" /\ run.cast = cast /\ run.named = Registered(cast)
        /\ run.candidates = <<>> /\ run.observations = <<>>
    BY <1>0 DEF RunFields
  <1>2. cast.translators \in Seq(Agents)
    BY CastAssumption
  <1>3. Len(cast.translators) \in Nat /\ DOMAIN cast.translators = 1 .. Len(cast.translators)
    BY <1>2
  <1>4. DOMAIN run.named.translators = 1 .. Len(run.cast.translators)
    BY <1>1, <1>3 DEF Registered
  <1>5. RunInv(run)
    BY <1>1, <1>3, <1>4, EmptyTuple DEF RunInv, NamedInv
  <1> QED
    BY <1>0, <1>5, RunKept DEF StartRun

\* A translator answers.
LEMMA TranslateKept ==
  ASSUME FidelityInv, NEW a \in Authors, NEW proposal \in Proposals, NEW later, Translate(a, proposal, later)
  PROVE  FidelityInv'
  <1>1. PICK run, i : run = runs[a] /\ i = Len(run.candidates) + 1
    OBVIOUS
  <1>2. run # Idle /\ run.step = "translate" /\ UNCHANGED evaluations
    BY <1>1 DEF Translate, Running, Idle
  <1>3. RunInv(run) /\ DOMAIN runs = Authors
    BY <1>1, <1>2 DEF FidelityInv
  <1>4. CASE ~ProposalValid(proposal)
    BY <1>1, <1>2, <1>4, RunKept DEF Translate, Fail
  <1>5. CASE ProposalValid(proposal)
    <2>1. PICK c : c = BoundCandidate(run.task, run.generation, run.named.translators[i], proposal)
      OBVIOUS
    <2>2. PICK candidates : candidates = Append(run.candidates, c)
      OBVIOUS
    <2>3. PICK next : next = [run EXCEPT !.candidates = candidates]
      OBVIOUS
    <2>4. runs' = [runs EXCEPT ![a] = next] /\ i <= Len(run.cast.translators)
      BY <1>1, <1>3, <1>5, <2>1, <2>2, <2>3 DEF Translate
    <2>5. c.actor = run.named.translators[i].actor /\ c.statement \in Statements
      BY <2>1 DEF BoundCandidate, Statements
    <2>6. /\ Tuple(candidates) /\ Len(run.candidates) \in Nat
          /\ DOMAIN run.candidates = 1 .. Len(run.candidates)
          /\ DOMAIN candidates = 1 .. i
          /\ \A j \in 1 .. Len(run.candidates) : candidates[j] = run.candidates[j]
          /\ candidates[i] = c
      BY <1>1, <1>3, <2>2, TupleAppend DEF RunInv, NamedInv
    <2>7. NamedInv(candidates, run.named.translators)
      <3>1. ASSUME NEW j \in 1 .. i
            PROVE  candidates[j].actor = run.named.translators[j].actor /\ candidates[j].statement \in Statements
        <4>1. CASE j = i
          BY <2>5, <2>6, <4>1
        <4>2. CASE j \in 1 .. Len(run.candidates)
          BY <1>3, <2>6, <4>2 DEF RunInv, NamedInv
        <4> QED
          BY <1>1, <2>6, <4>1, <4>2
      <3> QED
        BY <2>6, <3>1 DEF NamedInv
    <2>8. /\ DOMAIN next = RunFields /\ next.candidates = candidates /\ next.step = run.step
          /\ next.cast = run.cast /\ next.named = run.named /\ next.observations = run.observations
          /\ next.reference = run.reference
      BY <1>3, <2>3 DEF RunInv, RunFields
    <2>9. RunInv(next)
      BY <1>2, <1>3, <2>7, <2>8 DEF RunInv
    <2> QED
      BY <1>2, <2>4, <2>9, RunKept
  <1> QED
    BY <1>4, <1>5

\* The query of the selected statement is answered.
LEMMA ReferenceKept ==
  ASSUME FidelityInv, NEW a \in Authors, QueryReference(a)
  PROVE  FidelityInv'
  <1>1. PICK run, request : run = runs[a] /\ request = ReferenceRequest(run.contract)
    OBVIOUS
  <1>2. /\ run # Idle /\ run.step = "translate" /\ UNCHANGED evaluations
        /\ Len(run.candidates) = Len(run.cast.translators)
    BY <1>1 DEF QueryReference, Running, Idle
  <1>3. RunInv(run) /\ DOMAIN runs = Authors
    BY <1>1, <1>2 DEF FidelityInv
  <1>4. PICK result \in QueryAnswers(request, Asked(run), worker) :
           \/ runs' = [runs EXCEPT ![a].step = "query", ![a].reference = Observation(request, result)]
           \/ Fail(a)
    BY <1>1 DEF QueryReference
  <1>5. PICK o : o = Observation(request, result)
    OBVIOUS
  <1>6. Authentic(o)
    BY <1>5, AnswersAuthentic
  <1>7. PICK next : next = [run EXCEPT !.step = "query", !.reference = o]
    OBVIOUS
  <1>8. runs' = [runs EXCEPT ![a] = next] \/ runs' = [runs EXCEPT ![a] = Idle]
    BY <1>1, <1>3, <1>4, <1>5, <1>7 DEF Fail
  <1>9. /\ DOMAIN next = RunFields /\ next.candidates = run.candidates /\ next.step = "query"
        /\ next.cast = run.cast /\ next.named = run.named /\ next.observations = run.observations
        /\ next.reference = o
    BY <1>3, <1>7 DEF RunInv, RunFields
  <1>10. RunInv(next)
    BY <1>2, <1>3, <1>6, <1>9 DEF RunInv
  <1> QED
    BY <1>2, <1>8, <1>10, RunKept

\* The query of a candidate is answered.
LEMMA CandidateKept ==
  ASSUME FidelityInv, NEW a \in Authors, QueryCandidate(a)
  PROVE  FidelityInv'
  <1>1. PICK run, i, request : /\ run = runs[a] /\ i = Len(run.observations) + 1
                               /\ request = CandidateRequest(run.contract, run.candidates[i])
    OBVIOUS
  <1>2. run # Idle /\ run.step = "query" /\ UNCHANGED evaluations
    BY <1>1 DEF QueryCandidate, Running, Idle
  <1>3. RunInv(run) /\ DOMAIN runs = Authors
    BY <1>1, <1>2 DEF FidelityInv
  <1>4. PICK step : step = IF i = Len(run.candidates) THEN "mutate" ELSE "query"
    OBVIOUS
  <1>5. PICK result \in QueryAnswers(request, Asked(run), worker) :
           \/ runs' = [runs EXCEPT ![a].observations = Append(@, Observation(request, result)),
                                   ![a].step = step]
           \/ Fail(a)
    BY <1>1, <1>4 DEF QueryCandidate
  <1>6. PICK o, observations : /\ o = Observation(request, result)
                               /\ observations = Append(run.observations, o)
    OBVIOUS
  <1>7. Authentic(o)
    BY <1>6, AnswersAuthentic
  <1>8. /\ Tuple(observations) /\ DOMAIN observations = 1 .. i
        /\ Len(run.observations) \in Nat /\ DOMAIN run.observations = 1 .. Len(run.observations)
        /\ \A j \in 1 .. Len(run.observations) : observations[j] = run.observations[j]
        /\ observations[i] = o
    BY <1>1, <1>3, <1>6, TupleAppend DEF RunInv
  <1>9. \A j \in DOMAIN observations : Authentic(observations[j])
    <2>1. ASSUME NEW j \in 1 .. i
          PROVE  Authentic(observations[j])
      <3>1. CASE j = i
        BY <1>7, <1>8, <3>1
      <3>2. CASE j \in 1 .. Len(run.observations)
        BY <1>3, <1>8, <3>2 DEF RunInv
      <3> QED
        BY <1>1, <1>8, <3>1, <3>2
    <2> QED
      BY <1>8, <2>1
  <1>10. PICK next : next = [run EXCEPT !.observations = observations, !.step = step]
    OBVIOUS
  <1>11. runs' = [runs EXCEPT ![a] = next] \/ runs' = [runs EXCEPT ![a] = Idle]
    BY <1>1, <1>3, <1>5, <1>6, <1>10 DEF Fail
  <1>12. /\ DOMAIN next = RunFields /\ next.candidates = run.candidates /\ next.step = step
         /\ next.cast = run.cast /\ next.named = run.named /\ next.observations = observations
         /\ next.reference = run.reference
    BY <1>3, <1>10 DEF RunInv, RunFields
  <1>13. RunInv(next)
    BY <1>2, <1>3, <1>8, <1>9, <1>12 DEF RunInv
  <1> QED
    BY <1>2, <1>11, <1>13, RunKept

\* The mutation agent answers.
LEMMA MutateKept ==
  ASSUME FidelityInv, NEW a \in Authors, NEW probes, Mutate(a, probes)
  PROVE  FidelityInv'
  <1>1. PICK run, next : run = runs[a] /\ next = [run EXCEPT !.step = "review", !.probes = probes]
    OBVIOUS
  <1>2. run # Idle /\ run.step = "mutate" /\ UNCHANGED evaluations
    BY <1>1 DEF Mutate, Running, Idle
  <1>3. RunInv(run) /\ DOMAIN runs = Authors
    BY <1>1, <1>2 DEF FidelityInv
  <1>4. runs' = [runs EXCEPT ![a] = next] \/ runs' = [runs EXCEPT ![a] = Idle]
    BY <1>1, <1>3 DEF Mutate, Fail
  <1>5. /\ DOMAIN next = RunFields /\ next.candidates = run.candidates /\ next.step = "review"
        /\ next.cast = run.cast /\ next.named = run.named /\ next.observations = run.observations
        /\ next.reference = run.reference
    BY <1>1, <1>3 DEF RunInv, RunFields
  <1>6. RunInv(next)
    BY <1>2, <1>3, <1>5 DEF RunInv
  <1> QED
    BY <1>2, <1>4, <1>6, RunKept

\* The reviewer answers.
LEMMA ReviewKept ==
  ASSUME FidelityInv, NEW a \in Authors, NEW verdict, Review(a, verdict)
  PROVE  FidelityInv'
  <1>1. PICK run, e : run = runs[a] /\ e = Evaluation(run, verdict)
    OBVIOUS
  <1>2. run # Idle /\ run.step = "review"
    BY <1>1 DEF Review, Running, Idle
  <1>3. RunInv(run) /\ DOMAIN runs = Authors /\ DOMAIN evaluations = Authors
    BY <1>1, <1>2 DEF FidelityInv
  <1>4. /\ e.candidates = run.candidates /\ e.named = run.named /\ e.mutator = run.named.mutator
        /\ e.gate.reference = run.reference /\ e.gate.observations = run.observations
    BY <1>1 DEF Evaluation, GateEvidence
  <1>5. DOMAIN run.candidates = 1 .. Len(run.candidates)
    BY <1>3, TupleAppend DEF RunInv, NamedInv
  <1>6. EvaluationInv(e)
    BY <1>2, <1>3, <1>4, <1>5 DEF EvaluationInv, RunInv
  <1>7. PICK S : S \subseteq evaluations[a] \cup {e} /\ evaluations' = [evaluations EXCEPT ![a] = S]
    <2>1. \/ evaluations' = [evaluations EXCEPT ![a] = @ \cup {e}]
          \/ evaluations' = [evaluations EXCEPT ![a] = @]
      BY <1>1 DEF Review
    <2> QED
      BY <2>1
  <1>8. runs' = [runs EXCEPT ![a] = Idle]
    BY DEF Review, Fail
  <1>9. DOMAIN runs' = Authors /\ DOMAIN evaluations' = Authors
    BY <1>3, <1>7, <1>8
  <1>10. \A v \in Authors : runs'[v] # Idle => RunInv(runs'[v])
    BY <1>3, <1>8 DEF FidelityInv
  <1>11. \A v \in Authors : \A x \in evaluations'[v] : EvaluationInv(x)
    BY <1>3, <1>6, <1>7 DEF FidelityInv
  <1> QED
    BY <1>9, <1>10, <1>11 DEF FidelityInv

\* The steps of the harness.
LEMMA FidelityKept ==
  ASSUME FidelityInv, FidelityNext \/ UNCHANGED fidelityVars
  PROVE  FidelityInv'
  <1>1. CASE UNCHANGED fidelityVars
    BY <1>1 DEF FidelityInv, fidelityVars
  <1>2. ASSUME NEW a \in Authors, Raise(a)
        PROVE  FidelityInv'
    BY <1>2, RunKept DEF Raise, Fail
  <1>3. CASE \E environment : Redeploy(environment)
    BY <1>3 DEF FidelityInv, Redeploy
  <1>4. CASE \E now : Tick(now)
    BY <1>4 DEF FidelityInv, Tick
  <1>5. ASSUME NEW a \in Authors, AgentStep(a)
        PROVE  FidelityInv'
    BY <1>2, <1>5, TranslateKept, ReferenceKept, CandidateKept, MutateKept, ReviewKept DEF AgentStep
  <1> QED
    BY <1>1, <1>3, <1>4, <1>5 DEF FidelityNext

\* A frozen contract stays so: the ledger only grows.
LEMMA FrozenKept ==
  ASSUME NEW f, FrozenInv(f), ledger \subseteq ledger'
  PROVE  FrozenInv(f)'
  BY DEF FrozenInv

\* A step that leaves the Builder's own state alone.
LEMMA BuilderKept ==
  ASSUME DraftsInv, LedgerInv, UNCHANGED builderVars,
         \A a \in Authors : pilots[a] # NoHarness => pilots'[a] # NoHarness
  PROVE  DraftsInv' /\ LedgerInv'
  <1>1. UNCHANGED drafts /\ UNCHANGED packets /\ UNCHANGED ledger /\ UNCHANGED frozen /\ UNCHANGED bundles
    BY DEF builderVars
  <1>2. DraftsInv'
    BY <1>1 DEF DraftsInv, PacketInv
  <1>3. LedgerInv'
    BY <1>1, FrozenKept DEF LedgerInv
  <1> QED
    BY <1>2, <1>3

\* prepare_draft up to the ledger.
LEMMA PrepareKept ==
  ASSUME BInv, NEW a \in Authors, NEW request \in Requests, NEW receipt, Prepare(a, request, receipt)
  PROVE  DraftsInv' /\ LedgerInv'
  <1>1. PICK packet : /\ drafts' = [drafts EXCEPT ![a] = packet]
                      /\ packet.contract.statement = request.statement
    <2>1. PICK e : drafts' = [drafts EXCEPT ![a] = PacketFrom(a, request, e, receipt)]
      BY DEF Prepare
    <2>2. PacketFrom(a, request, e, receipt).contract.statement = request.statement
      BY DEF PacketFrom
    <2> QED
      BY <2>1, <2>2
  <1>2. pilots[a] # NoHarness /\ UNCHANGED pilots /\ UNCHANGED packets /\ UNCHANGED ledger
        /\ UNCHANGED frozen /\ UNCHANGED bundles
    BY DEF Prepare, pilotVars
  <1>3. packet.contract.statement \in Statements
    BY <1>1 DEF Statements
  <1>4. DraftsInv'
    BY <1>1, <1>2, <1>3 DEF BInv, DraftsInv, PacketInv
  <1>5. LedgerInv'
    BY <1>2, FrozenKept DEF BInv, LedgerInv
  <1> QED
    BY <1>4, <1>5

\* The ledger's transaction: one row per contract revision.
LEMMA RecordKept ==
  ASSUME BInv, NEW a \in Authors, Record(a)
  PROVE  DraftsInv' /\ LedgerInv'
  <1>1. /\ UNCHANGED pilots /\ UNCHANGED packets /\ UNCHANGED frozen /\ UNCHANGED bundles
        /\ drafts' = drafts \/ drafts' = [drafts EXCEPT ![a] = None]
    BY DEF Record, pilotVars
  <1>2. PICK record : ledger' = Recorded(ledger, record)
    BY DEF Record
  <1>3. DraftsInv'
    BY <1>1 DEF BInv, DraftsInv, PacketInv
  <1>4. ledger \subseteq ledger'
    BY <1>2 DEF Recorded
  <1>5. \A row, other \in ledger' :
            row.contract = other.contract /\ row.revision = other.revision => row = other
    BY <1>2 DEF Recorded, BInv, LedgerInv
  <1>6. LedgerInv'
    BY <1>1, <1>4, <1>5, FrozenKept DEF BInv, LedgerInv
  <1> QED
    BY <1>3, <1>6

\* prepare_draft after the transaction.
LEMMA DeliverKept ==
  ASSUME BInv, NEW a \in Authors, Deliver(a)
  PROVE  DraftsInv' /\ LedgerInv'
  <1>1. /\ UNCHANGED pilots /\ UNCHANGED ledger /\ UNCHANGED frozen /\ UNCHANGED bundles
        /\ drafts' = [drafts EXCEPT ![a] = None]
        /\ packets' = packets \/ packets' = [packets EXCEPT ![a] = drafts[a]]
    BY DEF Deliver, pilotVars
  <1>2. DraftsInv'
    BY <1>1 DEF BInv, DraftsInv, PacketInv
  <1>3. LedgerInv'
    BY <1>1, FrozenKept DEF BInv, LedgerInv
  <1> QED
    BY <1>2, <1>3

\* revalidate_and_freeze checks everything again before it freezes.
LEMMA FreezeKept ==
  ASSUME BInv, NEW a \in Authors, NEW e \in evaluations[a], Freeze(a, e)
  PROVE  DraftsInv' /\ LedgerInv'
  <1>0. a \in Processes /\ a \in Harnesses
    BY BuilderAssumption
  <1>1. PICK packet, record : packet = packets[a] /\ record = PreparationRecord(packet)
    OBVIOUS
  <1>2. PICK f : /\ f = [contract |-> packet.contract, evaluation |-> e, preparation |-> record,
                         ref |-> packet.ref, receipt |-> packet.receipt, pilot |-> pilots[a], at |-> clock]
                 /\ frozen' = [frozen EXCEPT ![a] = f]
    BY <1>1 DEF Freeze
  <1>3. /\ f.contract = packet.contract /\ f.evaluation = e /\ f.preparation = record
        /\ f.ref = packet.ref /\ f.receipt = packet.receipt /\ f.pilot = pilots[a]
    BY <1>2
  <1>4. /\ UNCHANGED pilots /\ UNCHANGED drafts /\ UNCHANGED packets /\ UNCHANGED ledger /\ UNCHANGED bundles
        /\ packet # None /\ TestOnly /\ PacketHolds(a, packet)
        /\ FreezeAccepts(packet.contract, e, record)
    BY <1>1 DEF Freeze, pilotVars
  <1>5. record \in ledger /\ SourceBinds(a, packet)
        /\ PilotAdmits(a, packet.ref, packet.receipt, packet.contract.rights)
    BY <1>1, <1>4 DEF PacketHolds
  <1>6. PreparationBinds(record, packet.contract) /\ AssertBinds(e, packet.contract)
    BY <1>4 DEF FreezeAccepts
  <1>7. EndpointsPermitted(packet.contract)
    BY <1>0, <1>5, SourcePermits DEF BInv
  <1>8. packet.contract.statement \in Statements /\ pilots[a] # NoHarness
    BY <1>1, <1>4 DEF BInv, DraftsInv, PacketInv
  <1>9. pilots[a] # None => PilotRespected(pilots[a], packet.ref, packet.receipt, packet.contract.rights)
    BY <1>0, <1>5, <1>8, PilotPermits DEF BInv
  <1>10. EvaluationInv(e)
    BY DEF BInv, FidelityInv
  <1>11. FrozenInv(f)
    BY <1>3, <1>4, <1>5, <1>6, <1>7, <1>8, <1>9, <1>10 DEF FrozenInv
  <1>12. DraftsInv'
    BY <1>2, <1>4 DEF BInv, DraftsInv, PacketInv
  <1>13. DOMAIN frozen = Authors
    BY DEF BInv, DraftsInv
  <1>14. LedgerInv'
    BY <1>2, <1>4, <1>11, <1>13, FrozenKept DEF BInv, LedgerInv
  <1> QED
    BY <1>12, <1>14

\* The bundle of what was frozen.
LEMMA BridgeKept ==
  ASSUME BInv, NEW a \in Authors, NEW evidence, Bridge(a, evidence)
  PROVE  DraftsInv' /\ LedgerInv'
  <1>1. PICK f, b : f = frozen[a] /\ b = [frozen |-> f, issued |-> clock]
    OBVIOUS
  <1>2. /\ UNCHANGED pilots /\ UNCHANGED drafts /\ UNCHANGED packets /\ UNCHANGED ledger
        /\ f # None /\ frozen' = [frozen EXCEPT ![a] = None]
        /\ bundles' \subseteq bundles \cup {b}
    BY <1>1 DEF Bridge, pilotVars
  <1>3. b.frozen = f /\ FrozenInv(f) /\ DOMAIN frozen = Authors
    BY <1>1, <1>2 DEF BInv, LedgerInv, DraftsInv
  <1>4. DraftsInv'
    BY <1>2 DEF BInv, DraftsInv, PacketInv
  <1>5. LedgerInv'
    BY <1>2, <1>3, FrozenKept DEF BInv, LedgerInv
  <1> QED
    BY <1>4, <1>5

\* A process dies.
LEMMA DieKept ==
  ASSUME BInv, NEW a \in Authors, DieBuilding(a)
  PROVE  BInv'
  <1>0. a \in Processes /\ a \in Harnesses
    BY BuilderAssumption
  <1>1. CacheInv' /\ AcquisitionInv'
    BY <1>0, CacheKept, AcquisitionKept DEF DieBuilding, CacheNext, BInv
  <1>2. PilotInv'
    BY <1>0 DEF DieBuilding, BInv, PilotInv
  <1>3. FidelityInv'
    BY DEF DieBuilding, BInv, FidelityInv
  <1>4. DraftsInv'
    BY <1>0 DEF DieBuilding, BInv, DraftsInv, PacketInv, PilotInv
  <1>5. UNCHANGED ledger /\ UNCHANGED bundles /\ frozen' = [frozen EXCEPT ![a] = None]
    BY DEF DieBuilding
  <1>6. LedgerInv'
    BY <1>5, FrozenKept DEF BInv, LedgerInv, DraftsInv
  <1> QED
    BY <1>1, <1>2, <1>3, <1>4, <1>6 DEF BInv

\* An author's step.
LEMMA AuthorKept ==
  ASSUME BInv, NEW a \in Authors, AuthorStep(a)
  PROVE  BInv'
  <1>1. CASE DieBuilding(a)
    BY <1>1, DieKept
  <1>2. CASE \E cast \in Casts : RunFidelity(a, cast)
    <2>1. PICK cast \in Casts : RunFidelity(a, cast)
      BY <1>2
    <2>2. UNCHANGED cacheVars /\ UNCHANGED pilotVars /\ UNCHANGED builderVars
      BY <2>1 DEF RunFidelity
    <2>3. FidelityInv'
      BY <2>1, StartKept DEF RunFidelity, BInv
    <2>4. DraftsInv' /\ LedgerInv'
      BY <2>2, BuilderKept DEF BInv, pilotVars
    <2> QED
      BY <2>2, <2>3, <2>4, CacheKept, AcquisitionKept, PilotKept DEF BInv
  <1>3. CASE \/ \E request \in Requests, receipt \in receipts \cup {None} : Prepare(a, request, receipt)
             \/ Record(a) \/ Deliver(a)
             \/ \E e \in evaluations[a] : Freeze(a, e)
             \/ \E evidence \in {e.report.id : e \in evaluations[a]} \cup {None} : Bridge(a, evidence)
    <2>1. UNCHANGED cacheVars /\ UNCHANGED pilotVars /\ UNCHANGED fidelityVars
      BY <1>3 DEF Prepare, Record, Deliver, Freeze, Bridge
    <2>2. DraftsInv' /\ LedgerInv'
      BY <1>3, PrepareKept, RecordKept, DeliverKept, FreezeKept, BridgeKept
    <2> QED
      BY <2>1, <2>2, CacheKept, AcquisitionKept, PilotKept, FidelityKept DEF BInv
  <1> QED
    BY <1>1, <1>2, <1>3 DEF AuthorStep

\* Every step of the Builder.
LEMMA BuilderNext ==
  ASSUME BInv, BNext \/ UNCHANGED bvars
  PROVE  BInv'
  <1>1. ASSUME NEW a \in Authors, AuthorStep(a)
        PROVE  BInv'
    BY <1>1, AuthorKept
  <1>2. CASE PilotNext /\ UNCHANGED <<cacheVars, fidelityVars, builderVars>>
    <2>1. PilotInv'
      BY <1>2, PilotKept DEF BInv
    <2>2. DraftsInv' /\ LedgerInv'
      <3>1. CASE UNCHANGED pilots
        BY <1>2, <3>1, BuilderKept DEF BInv
      <3>2. ASSUME NEW a \in Harnesses, OpenHarness(a)
            PROVE  DraftsInv' /\ LedgerInv'
        <4>1. \A v \in Authors : pilots[v] # NoHarness => pilots'[v] # NoHarness
          BY <3>2, BuilderAssumption DEF OpenHarness, BInv, PilotInv
        <4> QED
          BY <1>2, <4>1, BuilderKept DEF BInv
      <3> QED
        BY <1>2, <3>1, <3>2 DEF PilotNext, PublishPilot, IssueReceipt
    <2> QED
      BY <1>2, <2>1, <2>2, CacheKept, AcquisitionKept, FidelityKept DEF BInv
  <1>3. CASE FidelityNext /\ UNCHANGED <<cacheVars, pilotVars, builderVars>>
    <2>1. DraftsInv' /\ LedgerInv'
      BY <1>3, BuilderKept DEF BInv, pilotVars
    <2> QED
      BY <1>3, <2>1, CacheKept, AcquisitionKept, PilotKept, FidelityKept DEF BInv
  <1>4. CASE (CacheNext \/ UNCHANGED cacheVars) /\ UNCHANGED <<pilotVars, fidelityVars, builderVars>>
    <2>1. DraftsInv' /\ LedgerInv'
      BY <1>4, BuilderKept DEF BInv, pilotVars
    <2> QED
      BY <1>4, <2>1, CacheKept, AcquisitionKept, PilotKept, FidelityKept DEF BInv
  <1> QED
    BY <1>1, <1>2, <1>3, <1>4 DEF BNext, CacheOnly, bvars

-----------------------------------------------------------------------------
(* Self-calibration rounds *)

\* What a round binds to holds of it: the claims of the target are cited, and
\* the text widens no use of its source.
LEMMA BindingHolds ==
  ASSUME NEW round, NEW pilot, NEW manifest, PilotSound(pilot), ManifestLoads(manifest),
         Binds(round, pilot, manifest)
  PROVE  /\ \E graph \in pilot.graphs :
                /\ graph.id = round.graph
                /\ \A node \in Needed(graph, round.target) : node.anchors \subseteq round.textbook.anchors
         /\ \E e, p \in manifest.entries :
                e.ref = round.textbook.ref /\ p.ref = e.parent /\ e.egress <= p.egress
  <1>1. PICK graph \in pilot.graphs :
           /\ graph.id = round.graph /\ round.target \in Ids(graph.nodes)
           /\ round.textbook.anchors = UNION {node.anchors : node \in TargetClosure(graph, round.target)}
    BY DEF Binds, BindsManifest
  <1>2. GraphValid(graph) /\ IsFiniteSet(graph.nodes)
    BY DEF PilotSound, PilotLoads, GraphTyped
  <1>3. \A node \in graph.nodes : node.depends \subseteq Ids(graph.nodes)
    BY <1>2 DEF GraphValid, Anchored
  <1>4. Needed(graph, round.target) \subseteq TargetClosure(graph, round.target)
    BY <1>1, <1>2, <1>3, ClosureComplete
  <1>5. \A node \in Needed(graph, round.target) : node.anchors \subseteq round.textbook.anchors
    BY <1>1, <1>4
  <1>6. PICK e \in manifest.entries : e.ref = round.textbook.ref /\ e.kind = "derived_text"
    BY DEF Binds, BindsReferences
  <1>7. PICK p \in manifest.entries : p.ref = e.parent /\ e.egress <= p.egress
    BY <1>6 DEF ManifestLoads, DerivationHolds
  <1> QED
    BY <1>1, <1>5, <1>6, <1>7

\* validate_round and _validate_complete_state: what the reports of a complete
\* round amount to.
LEMMA CompleteHolds ==
  ASSUME NEW round, RoundValid(round), round.state = "complete"
  PROVE  /\ \A candidate \in round.candidates, role \in Roles :
                \E r \in round.reports :
                    /\ r.candidate = candidate.id /\ r.role = role /\ r.state = "verified"
                    /\ r.seal.content = candidate.content
                    /\ \A q \in round.reports \ {r} : q.reviewer # r.reviewer
         /\ \A candidate \in round.candidates :
                \A r, q \in round.reports :
                    {r.candidate, q.candidate} = {candidate.id} /\ r.role = "architect"
                        /\ q.role = "adversary" => r.group # q.group
         /\ \A b \in round.blockers : ~b.active
         /\ round.spike.receipt.evidence.exit = 0
  <1>1. PICK reports, candidates : reports = round.reports /\ candidates = round.candidates
    OBVIOUS
  <1>2. /\ ReportsBind(round) /\ RolesCovered(round) /\ SpikeBinds(round) /\ CompleteValid(round)
        /\ \A c \in candidates : CandidateValid(c)
        /\ \A c, d \in candidates : c.id = d.id => c = d
    BY <1>1, Zenon DEF RoundValid, Unique
  <1>3. /\ \A r, q \in reports : <<r.candidate, r.role>> = <<q.candidate, q.role>> => r = q
        /\ \A r, q \in reports : r.reviewer = q.reviewer => r = q
        /\ \A r \in reports : \E c \in candidates : r.candidate = c.id /\ r.seal = c.seal
    BY <1>1, <1>2, Zenon DEF ReportsBind, Unique
  <1>4. /\ ActiveBlockers(round) = {} /\ round.spike.state = "passed"
        /\ {<<r.candidate, r.role>> : r \in reports} = {c.id : c \in candidates} \X Roles
        /\ \A r \in reports : r.state = "verified"
    BY <1>1, <1>2 DEF CompleteValid
  <1>5. ASSUME NEW candidate \in candidates, NEW role \in Roles
        PROVE  \E r \in reports :
                    /\ r.candidate = candidate.id /\ r.role = role /\ r.state = "verified"
                    /\ r.seal.content = candidate.content
                    /\ \A q \in reports \ {r} : q.reviewer # r.reviewer
    <2>1. <<candidate.id, role>> \in {<<r.candidate, r.role>> : r \in reports}
      BY <1>4
    <2>2. PICK r \in reports : r.candidate = candidate.id /\ r.role = role
      BY <2>1
    <2>3. r.seal = candidate.seal
      BY <1>2, <1>3, <2>2
    <2>4. r.seal.content = candidate.content
      <3>1. candidate.seal = [id |-> candidate.id, revision |-> candidate.revision, content |-> candidate.content]
        BY <1>2 DEF CandidateValid
      <3>2. candidate.seal.content = candidate.content
        BY <3>1
      <3> QED
        BY <2>3, <3>2
    <2> QED
      BY <1>3, <1>4, <2>2, <2>4
  <1>6. ASSUME NEW candidate \in candidates, NEW r \in reports, NEW q \in reports,
               {r.candidate, q.candidate} = {candidate.id}, r.role = "architect", q.role = "adversary"
        PROVE  r.group # q.group
    <2>1. r.candidate = candidate.id /\ q.candidate = candidate.id
      BY <1>6
    <2>2. PICK r0, q0 : /\ r0 \in ReportsOn(round, candidate) /\ q0 \in ReportsOn(round, candidate)
                        /\ r0.role = "architect" /\ q0.role = "adversary" /\ r0.group # q0.group
      BY <1>1, <1>2 DEF RolesCovered
    <2>3. r0 = r /\ q0 = q
      BY <1>1, <1>3, <1>6, <2>1, <2>2 DEF ReportsOn
    <2> QED
      BY <2>2, <2>3
  <1>7. \A b \in round.blockers : ~b.active
    BY <1>4 DEF ActiveBlockers
  <1>8. round.spike.receipt.evidence.exit = 0
    BY <1>2, <1>4 DEF SpikeBinds, SpikeValid, CompileReceiptValid, EvidenceValid
  <1> QED
    BY <1>1, <1>5, <1>6, <1>7, <1>8

\* A load returns what holds.
LEMMA ReturnsHold ==
  ASSUME NEW round, NEW pilot, NEW manifest, NEW during, NEW vouched, NEW c,
         c = [round |-> round, pilot |-> pilot, manifest |-> manifest, during |-> during, vouched |-> vouched],
         PilotSound(pilot), ManifestLoads(manifest), RoundValid(round), Binds(round, pilot, manifest),
         round.state = "complete" => vouched = round.reports,
         NeedsLibrary(round) => LibrarySeen(round, during),
         round.spike.state = "partial" =>
             \E l \in during :
                 /\ l.packet # None /\ PacketContent(l.packet) = round.spike.receipt.evidence.tracked.content
                 /\ l.packet.gap = "open" /\ l.packet.selected = None
  PROVE  RoundHolds(c)
  <1>1. /\ c.round = round /\ c.pilot = pilot /\ c.manifest = manifest
        /\ c.during = during /\ c.vouched = vouched
    OBVIOUS
  <1>2. /\ \E graph \in c.pilot.graphs :
               /\ graph.id = round.graph
               /\ \A node \in Needed(graph, round.target) : node.anchors \subseteq round.textbook.anchors
        /\ \E e, p \in c.manifest.entries :
               e.ref = round.textbook.ref /\ p.ref = e.parent /\ e.egress <= p.egress
    BY <1>1, BindingHolds
  <1>3. ASSUME round.state = "complete"
        PROVE  /\ \A candidate \in round.candidates, role \in Roles :
                      \E r \in c.vouched :
                          /\ r.candidate = candidate.id /\ r.role = role /\ r.state = "verified"
                          /\ r.seal.content = candidate.content
                          /\ \A q \in round.reports \ {r} : q.reviewer # r.reviewer
               /\ \A candidate \in round.candidates :
                      \A r, q \in round.reports :
                          {r.candidate, q.candidate} = {candidate.id} /\ r.role = "architect"
                              /\ q.role = "adversary" => r.group # q.group
               /\ \A b \in round.blockers : ~b.active
               /\ round.spike.receipt.evidence.exit = 0
    <2>1. c.vouched = round.reports
      BY <1>1, <1>3
    <2> QED
      BY <1>1, <1>3, <2>1, CompleteHolds
  <1>4. NeedsLibrary(round) => LibrarySeen(round, c.during)
    BY <1>1
  <1>5. round.spike.state = "partial" =>
           \E l \in c.during :
               /\ l.packet # None /\ PacketContent(l.packet) = round.spike.receipt.evidence.tracked.content
               /\ l.packet.gap = "open" /\ l.packet.selected = None
    BY <1>1
  <1> QED
    BY <1>1, <1>2, <1>3, <1>4, <1>5 DEF RoundHolds

\* The manifests of a process do not change while it lives.
LEMMA HarnessHeld ==
  ASSUME BInv, BNext, NEW a \in Harnesses, loaded[a] # None, loaded'[a] # None, pilots[a] # NoHarness
  PROVE  loaded'[a] = loaded[a] /\ pilots'[a] = pilots[a]
  <1>0. /\ a \in Authors /\ a \in Processes /\ DOMAIN loaded = Processes /\ DOMAIN pilots = Harnesses
        /\ Authors = Harnesses /\ Authors \subseteq Processes
    BY BuilderAssumption DEF BInv, CacheInv, PilotInv
  <1>1. ASSUME NEW v \in Authors, AuthorStep(v)
        PROVE  loaded'[a] = loaded[a] /\ pilots'[a] = pilots[a]
    <2>1. CASE DieBuilding(v)
      BY <1>0, <2>1 DEF DieBuilding, Die
    <2>2. CASE UNCHANGED cacheVars /\ UNCHANGED pilotVars
      BY <2>2 DEF cacheVars, pilotVars
    <2> QED
      BY <1>1, <2>1, <2>2 DEF AuthorStep, Prepare, Record, Deliver, RunFidelity, Freeze, Bridge
  <1>2. CASE PilotNext /\ UNCHANGED cacheVars
    <2>1. loaded'[a] = loaded[a]
      BY <1>2 DEF cacheVars
    <2>2. pilots'[a] = pilots[a]
      BY <1>0, <1>2 DEF PilotNext, PublishPilot, OpenHarness, IssueReceipt
    <2> QED
      BY <2>1, <2>2
  <1>3. CASE UNCHANGED <<cacheVars, pilotVars>>
    BY <1>3 DEF cacheVars, pilotVars
  <1>4. CASE CacheNext /\ UNCHANGED pilotVars
    <2>1. pilots'[a] = pilots[a]
      BY <1>4 DEF pilotVars
    <2>2. loaded'[a] = loaded[a]
      BY <1>0, <1>4 DEF CacheNext, Publish, Load, Die, CacheStep, Acquire, Copy, Replace, Finish, Damage
    <2> QED
      BY <2>1, <2>2
  <1> QED
    BY <1>1, <1>2, <1>3, <1>4 DEF BNext, CacheOnly

\* A load that takes new locals.
LEMMA LoadKept ==
  ASSUME CalibrationInv, NEW a \in Harnesses, NEW load,
         reading' = [reading EXCEPT ![a] = load], UNCHANGED returned,
         UNCHANGED library, UNCHANGED loaded, UNCHANGED pilots,
         load # None => LoadInv(load, library, pilots[a], loaded[a])
  PROVE  CalibrationInv'
  BY DEF CalibrationInv

\* A load that returns.
LEMMA ReturnKept ==
  ASSUME CalibrationInv, NEW a \in Harnesses, NEW c,
         reading' = [reading EXCEPT ![a] = None], returned' = returned \cup {c}, RoundHolds(c),
         UNCHANGED library, UNCHANGED loaded, UNCHANGED pilots
  PROVE  CalibrationInv'
  BY DEF CalibrationInv

\* A load that looks at something.
LEMMA GoesOnKept ==
  ASSUME CalibrationInv, NEW a \in Harnesses, NEW holds, NEW load, GoesOn(a, holds, load),
         UNCHANGED loaded, UNCHANGED pilots,
         holds => LoadInv(load, library, pilots[a], loaded[a])
  PROVE  CalibrationInv'
  <1>1. UNCHANGED library /\ UNCHANGED returned
    BY DEF GoesOn
  <1>2. CASE holds
    <2>1. reading' = [reading EXCEPT ![a] = load]
      BY <1>2 DEF GoesOn
    <2> QED
      BY <1>1, <1>2, <2>1, LoadKept
  <1>3. CASE ~holds
    <2>1. reading' = [reading EXCEPT ![a] = None]
      BY <1>3 DEF GoesOn
    <2> QED
      BY <1>1, <2>1, LoadKept
  <1> QED
    BY <1>2, <1>3

\* load_self_calibration_round up to the first look outside the file.
LEMMA ReadKept ==
  ASSUME EInv, NEW a \in Harnesses, ReadRound(a), UNCHANGED loaded, UNCHANGED pilots
  PROVE  CalibrationInv'
  <1>1. PICK round, load, pilot, manifest :
           /\ round = roundFile /\ pilot = pilots[a] /\ manifest = loaded[a]
           /\ load = NewLoad
    OBVIOUS
  <1>2. PICK c : c = [round |-> round, pilot |-> pilot, manifest |-> manifest, during |-> {library}, vouched |-> {}]
    OBVIOUS
  <1>3. /\ load.round = round /\ load.during = {library} /\ load.vouched = {}
        /\ load.step = IF round.state = "complete" THEN "identities" ELSE "root"
        /\ DOMAIN load = LoadFields /\ load.tree = {}
    BY <1>1 DEF NewLoad, LoadFields
  <1>4. /\ manifest # None /\ pilot \notin {NoHarness, None} /\ RoundValid(round)
        /\ Binds(round, pilot, manifest) /\ UNCHANGED library
    BY <1>1 DEF ReadRound, GoesOn, Returns
  <1>5. PilotSound(pilot) /\ ManifestLoads(manifest)
    BY <1>1, <1>4, BuilderAssumption DEF EInv, BInv, PilotInv, CacheInv, PilotSound
  <1>6. CASE NeedsLibrary(round)
    <2>1. GoesOn(a, TRUE, load)
      BY <1>1, <1>6, Zenon DEF ReadRound
    <2>2. LookedAt(load)
      BY <1>3 DEF LookedAt
    <2>3. LoadInv(load, library, pilots[a], loaded[a])
      BY <1>1, <1>3, <1>4, <1>6, <2>2 DEF LoadInv
    <2> QED
      BY <2>1, <2>3, GoesOnKept DEF EInv
  <1>7. CASE ~NeedsLibrary(round)
    <2>1. Returns(a, load)
      BY <1>1, <1>7, Zenon DEF ReadRound
    <2>2. reading' = [reading EXCEPT ![a] = None] /\ returned' = returned \cup {c}
      BY <1>1, <1>2, <1>3, <2>1 DEF Returns
    <2>3. round.state # "complete" /\ round.spike.state # "partial"
      <3>1. SpikeBinds(round)
        BY <1>4 DEF RoundValid
      <3> QED
        BY <1>7, <3>1 DEF NeedsLibrary, SpikeBinds, SpikeValid, CompileReceiptValid, EvidenceValid
    <2>4. RoundHolds(c)
      BY <1>2, <1>4, <1>5, <1>7, <2>3, ReturnsHold
    <2> QED
      BY <1>4, <2>2, <2>4, ReturnKept DEF EInv
  <1> QED
    BY <1>6, <1>7

\* The load of a process, and the manifests it holds.
LEMMA Loading ==
  ASSUME EInv, NEW a \in Harnesses, reading[a] # None
  PROVE  /\ LoadInv(reading[a], library, pilots[a], loaded[a])
         /\ PilotSound(pilots[a]) /\ ManifestLoads(loaded[a])
  <1>1. LoadInv(reading[a], library, pilots[a], loaded[a])
    BY DEF EInv, CalibrationInv
  <1>2. pilots[a] \notin {NoHarness, None} /\ loaded[a] # None /\ a \in Processes
    BY <1>1, BuilderAssumption DEF LoadInv
  <1> QED
    BY <1>1, <1>2 DEF EInv, BInv, PilotInv, CacheInv, PilotSound

\* A load that goes on with the round it is of, having looked at what the next
\* step says.
LEMMA StepKept ==
  ASSUME EInv, NEW a \in Harnesses, reading[a] # None, UNCHANGED loaded, UNCHANGED pilots,
         NEW holds, NEW load, GoesOn(a, holds, load),
         DOMAIN load = LoadFields, load.round = reading[a].round, load.during = reading[a].during,
         holds /\ load.round.state = "complete" => load.vouched = load.round.reports,
         holds => LookedAt(load)
  PROVE  CalibrationInv'
  <1>1. LoadInv(reading[a], library, pilots[a], loaded[a])
    BY Loading
  <1>2. holds => LoadInv(load, library, pilots[a], loaded[a])
    BY <1>1 DEF LoadInv
  <1> QED
    BY <1>2, GoesOnKept DEF EInv

\* A step of a load that assigns its step alone.
LEMMA OnlyStep ==
  ASSUME NEW old, NEW load, NEW step, DOMAIN old = LoadFields, load = [old EXCEPT !.step = step]
  PROVE  /\ DOMAIN load = LoadFields /\ load.round = old.round /\ load.during = old.during
         /\ load.vouched = old.vouched /\ load.step = step /\ load.packet = old.packet
  BY DEF LoadFields

\* The identity receipts.
LEMMA IdentitiesKept ==
  ASSUME EInv, NEW a \in Harnesses, VerifyIdentities(a), UNCHANGED loaded, UNCHANGED pilots
  PROVE  CalibrationInv'
  <1>1. PICK old, load, holds :
           /\ old = reading[a] /\ load = [old EXCEPT !.step = "root", !.vouched = old.round.reports]
           /\ holds = (\A r \in old.round.reports : IdentityBinds(r) /\ r.identity \in Genuine)
    OBVIOUS
  <1>2. old # None /\ DOMAIN old = LoadFields /\ old.tree = {} /\ GoesOn(a, holds, load)
    BY <1>1, Loading DEF VerifyIdentities, AtStep, LoadInv, LookedAt
  <1>3. /\ DOMAIN load = LoadFields /\ load.round = old.round /\ load.during = old.during
        /\ load.vouched = old.round.reports /\ load.step = "root" /\ load.tree = {}
    BY <1>1, <1>2 DEF LoadFields
  <1>4. LookedAt(load)
    BY <1>3 DEF LookedAt
  <1> QED
    BY <1>1, <1>2, <1>3, <1>4, StepKept

\* The scan begins: everything is still to be looked for.
LEMMA ModulesKept ==
  ASSUME EInv, NEW a \in Harnesses, OpenModules(a), UNCHANGED loaded, UNCHANGED pilots
  PROVE  CalibrationInv'
  <1>1. PICK old, load :
           old = reading[a] /\ load = [old EXCEPT !.step = "tree", !.listed = RootFiles, !.unseen = ModulePaths]
    OBVIOUS
  <1>2. /\ old # None /\ LoadInv(old, library, pilots[a], loaded[a]) /\ old.step = "root"
        /\ GoesOn(a, library.root, load)
    BY <1>1, Loading DEF OpenModules, AtStep
  <1>3. /\ DOMAIN load = LoadFields /\ load.round = old.round /\ load.during = old.during
        /\ load.vouched = old.vouched /\ load.step = "tree"
        /\ load.unseen = ModulePaths /\ load.listed = RootFiles /\ load.tree = old.tree
    BY <1>1, <1>2 DEF LoadInv, LoadFields
  <1>4. old.tree = {}
    BY <1>2 DEF LoadInv, LookedAt
  <1>5. Scanned(load.tree, load.unseen, load.listed, load.during)
    BY <1>3, <1>4 DEF Scanned
  <1>6. LookedAt(load)
    BY <1>3, <1>5 DEF LookedAt
  <1>7. load.round.state = "complete" => load.vouched = load.round.reports
    BY <1>2, <1>3 DEF LoadInv
  <1> QED
    BY <1>1, <1>2, <1>3, <1>6, <1>7, StepKept

\* A path that is not there has been missing; one that is will be hashed.
LEMMA ListKept ==
  ASSUME EInv, NEW a \in Harnesses, ListModule(a), UNCHANGED loaded, UNCHANGED pilots
  PROVE  CalibrationInv'
  <1>1. PICK old : old = reading[a]
    OBVIOUS
  <1>2. old # None /\ LoadInv(old, library, pilots[a], loaded[a]) /\ old.step = "tree"
    BY <1>1, Loading DEF ListModule, AtStep
  <1>3. PICK path \in old.unseen :
           GoesOn(a, path \in DOMAIN library.files => RegularFile(library, path),
                  [old EXCEPT !.unseen = @ \ {path},
                       !.listed = IF path \in DOMAIN library.files THEN @ \cup {path} ELSE @])
    BY <1>1 DEF ListModule
  <1>4. PICK load, holds :
           /\ load = [old EXCEPT !.unseen = @ \ {path},
                          !.listed = IF path \in DOMAIN library.files THEN @ \cup {path} ELSE @]
           /\ holds = (path \in DOMAIN library.files => RegularFile(library, path))
    OBVIOUS
  <1>5. GoesOn(a, holds, load)
    BY <1>3, <1>4
  <1>6. /\ DOMAIN load = LoadFields /\ load.round = old.round /\ load.during = old.during
        /\ load.vouched = old.vouched /\ load.step = "tree" /\ load.tree = old.tree
        /\ load.unseen = old.unseen \ {path}
        /\ load.listed = IF path \in DOMAIN library.files THEN old.listed \cup {path} ELSE old.listed
    BY <1>2, <1>4 DEF LoadInv, LoadFields
  <1>7. Scanned(old.tree, old.unseen, old.listed, old.during) /\ library \in old.during
    BY <1>2 DEF LoadInv, LookedAt
  <1>8. Scanned(load.tree, load.unseen, load.listed, load.during)
    BY <1>6, <1>7 DEF Scanned
  <1>9. LookedAt(load)
    BY <1>6, <1>8 DEF LookedAt
  <1>10. load.round.state = "complete" => load.vouched = load.round.reports
    BY <1>2, <1>6 DEF LoadInv
  <1> QED
    BY <1>1, <1>2, <1>5, <1>6, <1>9, <1>10, StepKept

\* A file is hashed as it is at that moment.
LEMMA HashKept ==
  ASSUME EInv, NEW a \in Harnesses, HashFile(a), UNCHANGED loaded, UNCHANGED pilots
  PROVE  CalibrationInv'
  <1>1. PICK old : old = reading[a]
    OBVIOUS
  <1>2. old # None /\ LoadInv(old, library, pilots[a], loaded[a]) /\ old.step = "tree"
    BY <1>1, Loading DEF HashFile, AtStep
  <1>3. PICK path \in old.listed :
           GoesOn(a, RegularFile(library, path),
                  [old EXCEPT !.listed = @ \ {path},
                       !.tree = @ \cup {[path |-> path, bytes |-> library.files[path].bytes]}])
    BY <1>1 DEF HashFile
  <1>4. PICK entry : entry = [path |-> path, bytes |-> library.files[path].bytes]
    OBVIOUS
  <1>5. PICK load : load = [old EXCEPT !.listed = @ \ {path}, !.tree = @ \cup {entry}]
    OBVIOUS
  <1>6. GoesOn(a, RegularFile(library, path), load)
    BY <1>3, <1>4, <1>5
  <1>7. /\ DOMAIN load = LoadFields /\ load.round = old.round /\ load.during = old.during
        /\ load.vouched = old.vouched /\ load.step = "tree" /\ load.tree = old.tree \cup {entry}
        /\ load.unseen = old.unseen /\ load.listed = old.listed \ {path}
    BY <1>2, <1>5 DEF LoadInv, LoadFields
  <1>8. Scanned(old.tree, old.unseen, old.listed, old.during) /\ library \in old.during
    BY <1>2 DEF LoadInv, LookedAt
  <1>9. entry.path = path /\ entry.bytes = library.files[path].bytes
    BY <1>4
  <1>10. RegularFile(library, path) => Scanned(load.tree, load.unseen, load.listed, load.during)
    BY <1>7, <1>8, <1>9 DEF Scanned
  <1>11. RegularFile(library, path) => LookedAt(load)
    BY <1>7, <1>10 DEF LookedAt
  <1>12. load.round.state = "complete" => load.vouched = load.round.reports
    BY <1>2, <1>7 DEF LoadInv
  <1> QED
    BY <1>1, <1>2, <1>6, <1>7, <1>11, <1>12, StepKept

\* validate_round: the evidence is of the round's lock.
LEMMA LockBinds ==
  ASSUME NEW round, RoundValid(round), NeedsLibrary(round)
  PROVE  /\ round.spike.receipt.evidence.lake = round.lock.lake
         /\ round.spike.receipt.evidence.toolchain = round.lock.toolchainSha
         /\ round.spike.state = "partial" => round.spike.receipt.evidence.tracked # None
  <1>1. SpikeBinds(round) /\ (round.state = "complete" => CompleteValid(round))
    BY DEF RoundValid
  <1>2. round.spike.receipt # None
    BY <1>1 DEF NeedsLibrary, CompleteValid, SpikeBinds, SpikeValid
  <1> QED
    BY <1>1, <1>2 DEF SpikeBinds, SpikeValid, CompileReceiptValid, EvidenceValid

\* The tree that was hashed is the evidence's, and the Lake manifest the lock's.
LEMMA LakeKept ==
  ASSUME EInv, NEW a \in Harnesses, MatchLake(a), UNCHANGED loaded, UNCHANGED pilots
  PROVE  CalibrationInv'
  <1>1. PICK old, load, holds, evidence :
           /\ old = reading[a] /\ load = [old EXCEPT !.step = "toolchain"]
           /\ evidence = old.round.spike.receipt.evidence
           /\ holds = (/\ TreeAgrees(old.tree, evidence)
                       /\ "lake-manifest.json" \in DOMAIN library.files
                       /\ library.files["lake-manifest.json"].bytes = evidence.lake)
    OBVIOUS
  <1>2. /\ old # None /\ LoadInv(old, library, pilots[a], loaded[a]) /\ old.step = "tree"
        /\ old.unseen = {} /\ old.listed = {} /\ GoesOn(a, holds, load)
    BY <1>1, Loading DEF MatchLake, AtStep, EvidenceOf
  <1>3. DOMAIN old = LoadFields
    BY <1>2 DEF LoadInv
  <1>4. /\ DOMAIN load = LoadFields /\ load.round = old.round /\ load.during = old.during
        /\ load.vouched = old.vouched /\ load.step = "toolchain"
    BY <1>1, <1>3, OnlyStep
  <1>5. /\ Scanned(old.tree, {}, {}, old.during) /\ library \in old.during
        /\ RoundValid(old.round) /\ NeedsLibrary(old.round)
        /\ load.round.state = "complete" => load.vouched = load.round.reports
    BY <1>2, <1>4 DEF LoadInv, LookedAt
  <1>6. ASSUME holds
        PROVE  LookedAt(load)
    <2>1. TreeSeen(old.tree, old.during)
      BY <1>5 DEF Scanned, TreeSeen
    <2>2. TreeSeen(evidence.tree, old.during)
      BY <1>1, <1>6, <2>1 DEF TreeAgrees
    <2>3. evidence.lake = old.round.lock.lake
      BY <1>1, <1>5, LockBinds
    <2>4. LakeSeen(old.round, old.during)
      BY <1>1, <1>5, <1>6, <2>3 DEF LakeSeen
    <2> QED
      BY <1>1, <1>4, <2>2, <2>4 DEF LookedAt
  <1> QED
    BY <1>1, <1>2, <1>4, <1>5, <1>6, StepKept

\* The toolchain is the lock's.
LEMMA ToolchainKept ==
  ASSUME EInv, NEW a \in Harnesses, MatchToolchain(a), UNCHANGED loaded, UNCHANGED pilots
  PROVE  CalibrationInv'
  <1>1. PICK old, load, holds, evidence :
           /\ old = reading[a] /\ evidence = old.round.spike.receipt.evidence
           /\ load = [old EXCEPT !.step = "targets", !.unseen = evidence.targets]
           /\ holds = (/\ ToolchainText(library) \notin {None, ""}
                       /\ evidence.toolchain = <<"sha", ToolchainText(library)>>)
    OBVIOUS
  <1>2. /\ old # None /\ LoadInv(old, library, pilots[a], loaded[a]) /\ old.step = "toolchain"
        /\ GoesOn(a, holds, load)
    BY <1>1, Loading DEF MatchToolchain, AtStep, EvidenceOf
  <1>3. /\ DOMAIN load = LoadFields /\ load.round = old.round /\ load.during = old.during
        /\ load.vouched = old.vouched /\ load.step = "targets" /\ load.unseen = evidence.targets
    BY <1>1, <1>2 DEF LoadInv, LoadFields
  <1>4. /\ library \in old.during /\ RoundValid(old.round) /\ NeedsLibrary(old.round)
        /\ TreeSeen(evidence.tree, old.during) /\ LakeSeen(old.round, old.during)
        /\ load.round.state = "complete" => load.vouched = load.round.reports
    BY <1>1, <1>2, <1>3 DEF LoadInv, LookedAt
  <1>5. ASSUME holds
        PROVE  LookedAt(load)
    <2>1. evidence.toolchain = old.round.lock.toolchainSha
      BY <1>1, <1>4, LockBinds
    <2>2. ToolchainSeen(old.round, old.during)
      BY <1>1, <1>4, <1>5, <2>1 DEF ToolchainSeen
    <2>3. PathsSeen(evidence.targets \ load.unseen, load.during)
      BY <1>3 DEF PathsSeen
    <2> QED
      BY <1>1, <1>3, <1>4, <2>2, <2>3 DEF LookedAt
  <1> QED
    BY <1>1, <1>2, <1>3, <1>4, <1>5, StepKept

\* One more target module is there.
LEMMA TargetKept ==
  ASSUME EInv, NEW a \in Harnesses, MatchTarget(a), UNCHANGED loaded, UNCHANGED pilots
  PROVE  CalibrationInv'
  <1>1. PICK old, evidence : old = reading[a] /\ evidence = old.round.spike.receipt.evidence
    OBVIOUS
  <1>2. old # None /\ LoadInv(old, library, pilots[a], loaded[a]) /\ old.step = "targets"
    BY <1>1, Loading DEF MatchTarget, AtStep
  <1>3. PICK path \in old.unseen :
           GoesOn(a, RegularFile(library, path),
                  [old EXCEPT !.unseen = @ \ {path},
                       !.step = IF old.unseen # {path} THEN "targets"
                                ELSE IF evidence.tracked = None THEN "authority" ELSE "packet"])
    BY <1>1 DEF MatchTarget, EvidenceOf
  <1>4. PICK step : step = IF old.unseen # {path} THEN "targets"
                           ELSE IF evidence.tracked = None THEN "authority" ELSE "packet"
    OBVIOUS
  <1>5. PICK load : load = [old EXCEPT !.unseen = @ \ {path}, !.step = step]
    OBVIOUS
  <1>6. GoesOn(a, RegularFile(library, path), load)
    BY <1>3, <1>4, <1>5
  <1>7. /\ DOMAIN load = LoadFields /\ load.round = old.round /\ load.during = old.during
        /\ load.vouched = old.vouched /\ load.unseen = old.unseen \ {path} /\ load.step = step
    BY <1>2, <1>5 DEF LoadInv, LoadFields
  <1>8. /\ library \in old.during /\ TreeSeen(evidence.tree, old.during) /\ LakeSeen(old.round, old.during)
        /\ ToolchainSeen(old.round, old.during) /\ PathsSeen(evidence.targets \ old.unseen, old.during)
        /\ load.round.state = "complete" => load.vouched = load.round.reports
    BY <1>1, <1>2, <1>7 DEF LoadInv, LookedAt
  <1>9. ASSUME RegularFile(library, path)
        PROVE  LookedAt(load)
    <2>1. PathsSeen(evidence.targets \ load.unseen, old.during)
      BY <1>7, <1>8, <1>9 DEF PathsSeen
    <2>2. CASE step = "targets"
      BY <1>1, <1>7, <1>8, <2>1, <2>2 DEF LookedAt
    <2>3. CASE step # "targets"
      <3>1. old.unseen = {path} /\ step = IF evidence.tracked = None THEN "authority" ELSE "packet"
        BY <1>4, <2>3
      <3>2. load.unseen = {}
        BY <1>7, <3>1
      <3>3. evidence.targets \ load.unseen = evidence.targets
        BY <3>2
      <3>4. PathsSeen(evidence.targets, old.during)
        BY <2>1, <3>3
      <3> QED
        BY <1>1, <1>7, <1>8, <3>1, <3>4 DEF LookedAt
    <2> QED
      BY <2>2, <2>3
  <1> QED
    BY <1>1, <1>2, <1>6, <1>7, <1>8, <1>9, StepKept

\* What holds at the steps after the targets.
CompileSeen(round, during) ==
    /\ TreeSeen(round.spike.receipt.evidence.tree, during) /\ LakeSeen(round, during)
    /\ ToolchainSeen(round, during) /\ PathsSeen(round.spike.receipt.evidence.targets, during)

\* A load past its targets has seen all of it.
LEMMA CompileLooked ==
  ASSUME NEW load, load.step \notin {"identities", "root", "tree", "toolchain", "targets"}, LookedAt(load)
  PROVE  CompileSeen(load.round, load.during) /\ LibrarySeen(load.round, load.during)
  BY DEF LookedAt, CompileSeen, LibrarySeen, LakeSeen, ToolchainSeen, PathsSeen

\* A step between the tracked files forgets none of it.
LEMMA CompileStays ==
  ASSUME NEW load,
         load.step \notin {"identities", "root", "tree", "toolchain", "targets", "authority"},
         CompileSeen(load.round, load.during), load.round.spike.receipt.evidence.tracked # None,
         load.step \in {"parse receipt", "compare"} => PacketSeen(load.packet, load.during)
  PROVE  LookedAt(load)
  BY DEF LookedAt, CompileSeen

\* Packet and receipt, their digests and what they parse to.
LEMMA RecordsKept ==
  ASSUME EInv, NEW a \in Harnesses, UNCHANGED loaded, UNCHANGED pilots,
         MatchPacketFile(a) \/ MatchReceiptFile(a) \/ ParsePacket(a) \/ ParseReceipt(a)
  PROVE  CalibrationInv'
  <1>1. PICK old, evidence : old = reading[a] /\ evidence = old.round.spike.receipt.evidence
    OBVIOUS
  <1>2. /\ old # None /\ LoadInv(old, library, pilots[a], loaded[a])
        /\ old.step \in {"packet", "receipt", "parse packet", "parse receipt"}
    BY <1>1, Loading DEF MatchPacketFile, MatchReceiptFile, ParsePacket, ParseReceipt, AtStep
  <1>3. /\ DOMAIN old = LoadFields /\ library \in old.during /\ LookedAt(old)
        /\ old.round.state = "complete" => old.vouched = old.round.reports
    BY <1>2 DEF LoadInv
  <1>4. CompileSeen(old.round, old.during)
    BY <1>2, <1>3, CompileLooked
  <1>5. evidence.tracked # None
    BY <1>1, <1>2, <1>3 DEF LookedAt
  <1>6. ASSUME NEW step, NEW holds, GoesOn(a, holds, [old EXCEPT !.step = step]), step \in {"receipt", "parse packet"}
        PROVE  CalibrationInv'
    <2>1. PICK load : load = [old EXCEPT !.step = step]
      OBVIOUS
    <2>2. /\ DOMAIN load = LoadFields /\ load.round = old.round /\ load.during = old.during
          /\ load.vouched = old.vouched /\ load.step = step
      BY <1>3, <2>1, OnlyStep
    <2>3. LookedAt(load)
      BY <1>1, <1>4, <1>5, <1>6, <2>2, CompileStays
    <2> QED
      BY <1>1, <1>2, <1>3, <1>6, <2>1, <2>2, <2>3, StepKept
  <1>7. CASE MatchPacketFile(a)
    BY <1>1, <1>6, <1>7 DEF MatchPacketFile
  <1>8. CASE MatchReceiptFile(a)
    BY <1>1, <1>6, <1>8 DEF MatchReceiptFile
  <1>9. CASE ParsePacket(a)
    <2>1. PICK load : load = [old EXCEPT !.step = "parse receipt", !.packet = library.packet]
      OBVIOUS
    <2>2. GoesOn(a, library.packet # None, load)
      BY <1>1, <1>9, <2>1 DEF ParsePacket
    <2>3. /\ DOMAIN load = LoadFields /\ load.round = old.round /\ load.during = old.during
          /\ load.vouched = old.vouched /\ load.step = "parse receipt" /\ load.packet = library.packet
      BY <1>3, <2>1 DEF LoadFields
    <2>4. library.packet # None => PacketSeen(load.packet, load.during)
      BY <1>3, <2>3 DEF PacketSeen
    <2>5. library.packet # None => LookedAt(load)
      BY <1>1, <1>4, <1>5, <2>3, <2>4, CompileStays
    <2> QED
      BY <1>1, <1>2, <1>3, <2>2, <2>3, <2>5, StepKept
  <1>10. CASE ParseReceipt(a)
    <2>1. PICK load : load = [old EXCEPT !.step = "compare", !.receipt = library.receipt]
      OBVIOUS
    <2>2. GoesOn(a, library.receipt # None, load) /\ old.step = "parse receipt"
      BY <1>1, <1>10, <2>1 DEF ParseReceipt, AtStep
    <2>3. /\ DOMAIN load = LoadFields /\ load.round = old.round /\ load.during = old.during
          /\ load.vouched = old.vouched /\ load.step = "compare" /\ load.packet = old.packet
      BY <1>3, <2>1 DEF LoadFields
    <2>4. PacketSeen(load.packet, load.during)
      BY <1>3, <2>2, <2>3 DEF LookedAt
    <2>5. LookedAt(load)
      BY <1>1, <1>4, <1>5, <2>3, <2>4, CompileStays
    <2> QED
      BY <1>1, <1>2, <1>3, <2>2, <2>3, <2>5, StepKept
  <1> QED
    BY <1>7, <1>8, <1>9, <1>10

\* A load at its end returns what holds.
LEMMA EndKept ==
  ASSUME EInv, NEW a \in Harnesses, reading[a] # None, Returns(a, reading[a]),
         UNCHANGED loaded, UNCHANGED pilots,
         reading[a].step \in {"authority", "compare"},
         reading[a].step = "compare" =>
             /\ PacketContent(reading[a].packet) = reading[a].round.spike.receipt.evidence.tracked.content
             /\ reading[a].packet.gap = "open" /\ reading[a].packet.selected = None
  PROVE  CalibrationInv'
  <1>1. PICK load, round : load = reading[a] /\ round = load.round
    OBVIOUS
  <1>2. /\ LoadInv(load, library, pilots[a], loaded[a]) /\ PilotSound(pilots[a]) /\ ManifestLoads(loaded[a])
        /\ UNCHANGED library
    BY <1>1, Loading DEF Returns
  <1>3. PICK c : c = [round |-> round, pilot |-> pilots[a], manifest |-> loaded[a],
                      during |-> load.during, vouched |-> load.vouched]
    OBVIOUS
  <1>4. reading' = [reading EXCEPT ![a] = None] /\ returned' = returned \cup {c}
    BY <1>1, <1>3 DEF Returns
  <1>5. /\ RoundValid(round) /\ NeedsLibrary(round) /\ Binds(round, pilots[a], loaded[a]) /\ LookedAt(load)
        /\ round.state = "complete" => load.vouched = round.reports
    BY <1>1, <1>2 DEF LoadInv
  <1>6. LibrarySeen(round, load.during)
    BY <1>1, <1>5, CompileLooked
  <1>7. ASSUME round.spike.state = "partial"
        PROVE  \E l \in load.during :
                   /\ l.packet # None /\ PacketContent(l.packet) = round.spike.receipt.evidence.tracked.content
                   /\ l.packet.gap = "open" /\ l.packet.selected = None
    <2>1. round.spike.receipt.evidence.tracked # None
      BY <1>5, <1>7, LockBinds
    <2>2. load.step = "compare"
      BY <1>1, <1>5, <2>1 DEF LookedAt
    <2>3. PacketSeen(load.packet, load.during)
      BY <1>5, <2>2 DEF LookedAt
    <2>4. PICK l \in load.during : l.packet = load.packet
      BY <2>3 DEF PacketSeen
    <2> QED
      BY <1>1, <2>2, <2>3, <2>4 DEF PacketSeen
  <1>8. RoundHolds(c)
    BY <1>2, <1>3, <1>5, <1>6, <1>7, ReturnsHold
  <1> QED
    BY <1>2, <1>4, <1>8, ReturnKept DEF EInv

\* The tracked records agree, the first time and the second.
LEMMA TrackedKept ==
  ASSUME EInv, NEW a \in Harnesses, MatchTracked(a), UNCHANGED loaded, UNCHANGED pilots
  PROVE  CalibrationInv'
  <1>1. PICK old, evidence, load, matches :
           /\ old = reading[a] /\ evidence = old.round.spike.receipt.evidence
           /\ load = [old EXCEPT !.step = "packet", !.again = TRUE]
           /\ matches = (/\ TrackedMatches(evidence.tracked, evidence, old.packet, old.receipt, ToolchainText(library))
                         /\ old.again => PacketExpected(old.packet, old.round.spike, old.round.textbook))
    OBVIOUS
  <1>2. /\ old # None /\ LoadInv(old, library, pilots[a], loaded[a]) /\ old.step = "compare"
        /\ \/ matches /\ Returns(a, old)
           \/ GoesOn(a, matches, load)
    BY <1>1, Loading DEF MatchTracked, AtStep, EvidenceOf
  <1>3. CASE matches /\ Returns(a, old)
    <2>1. /\ PacketContent(old.packet) = evidence.tracked.content
          /\ old.packet.gap = "open" /\ old.packet.selected = None
      BY <1>1, <1>3 DEF TrackedMatches
    <2> QED
      BY <1>1, <1>2, <1>3, <2>1, EndKept
  <1>4. CASE GoesOn(a, matches, load)
    <2>1. /\ DOMAIN old = LoadFields /\ LookedAt(old)
          /\ old.round.state = "complete" => old.vouched = old.round.reports
      BY <1>2 DEF LoadInv
    <2>2. /\ DOMAIN load = LoadFields /\ load.round = old.round /\ load.during = old.during
          /\ load.vouched = old.vouched /\ load.step = "packet"
      BY <1>1, <2>1 DEF LoadFields
    <2>3. CompileSeen(old.round, old.during)
      BY <1>2, <2>1, CompileLooked
    <2>4. evidence.tracked # None
      BY <1>1, <1>2, <2>1 DEF LookedAt
    <2>5. LookedAt(load)
      BY <1>1, <2>2, <2>3, <2>4, CompileStays
    <2> QED
      BY <1>1, <1>2, <1>4, <2>1, <2>2, <2>5, StepKept
  <1> QED
    BY <1>2, <1>3, <1>4

\* The authority vouches for the compilation, or the call raises.
LEMMA CompileKept ==
  ASSUME EInv, NEW a \in Harnesses, VerifyCompile(a), UNCHANGED loaded, UNCHANGED pilots
  PROVE  CalibrationInv'
  <1>1. /\ reading[a] # None /\ reading[a].step = "authority"
        /\ Returns(a, reading[a]) \/ GoesOn(a, FALSE, reading[a])
    BY DEF VerifyCompile, AtStep
  <1>2. CASE Returns(a, reading[a])
    BY <1>1, <1>2, EndKept
  <1>3. CASE GoesOn(a, FALSE, reading[a])
    BY <1>3, GoesOnKept DEF EInv
  <1> QED
    BY <1>1, <1>2, <1>3

\* What has been looked at was there, however much longer the load takes.
LEMMA LookedLonger ==
  ASSUME NEW old, NEW load, NEW l, LookedAt(old),
         load.round = old.round, load.during = old.during \cup {l}, load.unseen = old.unseen,
         load.listed = old.listed, load.tree = old.tree, load.packet = old.packet, load.step = old.step
  PROVE  LookedAt(load)
  <1>1. PICK during, longer : during = old.during /\ longer = load.during
    OBVIOUS
  <1>2. \A k : k \in during => k \in longer
    BY <1>1
  <1>3. ASSUME NEW tree, NEW unseen, NEW listed, Scanned(tree, unseen, listed, during)
        PROVE  Scanned(tree, unseen, listed, longer)
    BY <1>2, <1>3 DEF Scanned
  <1>4. ASSUME NEW tree, TreeSeen(tree, during)
        PROVE  TreeSeen(tree, longer)
    BY <1>2, <1>4 DEF TreeSeen
  <1>5. ASSUME NEW round, LakeSeen(round, during)
        PROVE  LakeSeen(round, longer)
    BY <1>2, <1>5 DEF LakeSeen
  <1>6. ASSUME NEW round, ToolchainSeen(round, during)
        PROVE  ToolchainSeen(round, longer)
    BY <1>2, <1>6 DEF ToolchainSeen
  <1>7. ASSUME NEW paths, PathsSeen(paths, during)
        PROVE  PathsSeen(paths, longer)
    BY <1>2, <1>7 DEF PathsSeen
  <1>8. ASSUME NEW packet, PacketSeen(packet, during)
        PROVE  PacketSeen(packet, longer)
    BY <1>2, <1>8 DEF PacketSeen
  <1> QED
    BY <1>1, <1>3, <1>4, <1>5, <1>6, <1>7, <1>8 DEF LookedAt

\* Rounds and the Library change under the loads.
LEMMA CalibrationKept ==
  ASSUME EInv, CalibrationNext, UNCHANGED loaded, UNCHANGED pilots
  PROVE  CalibrationInv'
  <1>1. ASSUME NEW round, EditRound(round)
        PROVE  CalibrationInv'
    BY <1>1 DEF EditRound, EInv, CalibrationInv
  <1>2. ASSUME NEW l, ChangeLibrary(l)
        PROVE  CalibrationInv'
    <2>1. /\ library' = l /\ UNCHANGED returned
          /\ reading' = [a \in Harnesses |->
                            IF reading[a] = None THEN None ELSE [reading[a] EXCEPT !.during = @ \cup {l}]]
      BY <1>2 DEF ChangeLibrary
    <2>2. ASSUME NEW a \in Harnesses, reading'[a] # None
          PROVE  LoadInv(reading'[a], l, pilots[a], loaded[a])
      <3>1. PICK old, load : old = reading[a] /\ load = [old EXCEPT !.during = @ \cup {l}]
        OBVIOUS
      <3>2. old # None /\ reading'[a] = load
        BY <2>1, <2>2, <3>1
      <3>3. LoadInv(old, library, pilots[a], loaded[a])
        BY <3>1, <3>2, Loading
      <3>4. /\ load.round = old.round /\ load.during = old.during \cup {l} /\ load.vouched = old.vouched
            /\ load.unseen = old.unseen /\ load.listed = old.listed /\ load.tree = old.tree
            /\ load.packet = old.packet /\ load.step = old.step /\ DOMAIN load = LoadFields
        BY <3>1, <3>3 DEF LoadInv, LoadFields
      <3>5. LookedAt(old)
        BY <3>3 DEF LoadInv
      <3>6. LookedAt(load)
        BY <3>4, <3>5, LookedLonger
      <3> QED
        BY <3>2, <3>3, <3>4, <3>6 DEF LoadInv
    <2> QED
      BY <2>1, <2>2 DEF EInv, CalibrationInv
  <1> QED
    BY <1>1, <1>2, ReadKept, IdentitiesKept, ModulesKept, ListKept, HashKept, LakeKept, ToolchainKept,
       TargetKept, RecordsKept, TrackedKept, CompileKept DEF CalibrationNext

\* A load dies with its process; nothing else the Builder does disturbs it.
LEMMA CalibrationBeside ==
  ASSUME EInv, BuilderStep
  PROVE  CalibrationInv'
  <1>1. /\ reading' = [a \in Harnesses |-> IF loaded'[a] = None THEN None ELSE reading[a]]
        /\ UNCHANGED library /\ UNCHANGED returned /\ BNext
    BY DEF BuilderStep
  <1>2. ASSUME NEW a \in Harnesses, reading'[a] # None
        PROVE  LoadInv(reading'[a], library', pilots'[a], loaded'[a])
    <2>1. reading'[a] = reading[a] /\ reading[a] # None /\ loaded'[a] # None
      BY <1>1, <1>2
    <2>2. LoadInv(reading[a], library, pilots[a], loaded[a])
      BY <2>1, Loading
    <2>3. loaded[a] # None /\ pilots[a] # NoHarness
      BY <2>2 DEF LoadInv
    <2>4. loaded'[a] = loaded[a] /\ pilots'[a] = pilots[a]
      BY <1>1, <2>1, <2>3, HarnessHeld DEF EInv
    <2> QED
      BY <1>1, <2>1, <2>2, <2>4
  <1> QED
    BY <1>1, <1>2 DEF EInv, CalibrationInv

-----------------------------------------------------------------------------
(* Boundary decisions and attachments *)

\* The passages a decision quotes are those of the text it names: a manifest
\* lists a reference once.
LEMMA ExcerptsMatch ==
  ASSUME CacheInv, NEW a \in Processes, NEW source, MatchesCache(a, source)
  PROVE  \A anchor \in source.anchors : anchor.excerpt = <<source.sha, anchor.start, anchor.end>>
  <1>1. PICK e \in Verified(a, source.ref) : e.sha = source.sha
    BY DEF MatchesCache
  <1>2. loaded[a] # None /\ ManifestLoads(loaded[a])
    BY <1>1 DEF Verified, Listed, CacheInv
  <1>3. \A d \in Verified(a, source.ref) : d = e
    BY <1>1, <1>2 DEF Verified, Listed, ManifestLoads
  <1>4. ASSUME NEW anchor \in source.anchors
        PROVE  anchor.excerpt = <<source.sha, anchor.start, anchor.end>>
    <2>1. PICK d \in Verified(a, source.ref) : anchor.excerpt = <<d.sha, anchor.start, anchor.end>>
      BY DEF MatchesCache, ExcerptHolds
    <2> QED
      BY <1>1, <1>3, <2>1
  <1> QED
    BY <1>4

\* What a decision quotes covers all its target rests on.
LEMMA QuotationsHold ==
  ASSUME NEW d, DecisionBound(d),
         \A anchor \in d.source.anchors : anchor.excerpt = <<d.source.sha, anchor.start, anchor.end>>
  PROVE  \E graph \in d.manifest.graphs :
             /\ graph.id = d.graph
             /\ \A id \in UNION {node.anchors : node \in Needed(graph, d.target)} :
                    /\ \E row \in d.matrix : id \in row.anchors
                    /\ \E anchor \in d.source.anchors :
                           anchor.id = id /\ anchor.excerpt = <<graph.source.binding.sha, anchor.start, anchor.end>>
  <1>1. PICK graph \in d.manifest.graphs :
           /\ graph.id = d.graph /\ d.target \in Ids(graph.nodes)
           /\ d.closure = TargetClosure(graph, d.target)
           /\ \A field \in {"manifest", "ref", "sha", "parent", "parentSha"} :
                  d.source[field] = graph.source.binding[field]
           /\ AnchorsBind(d, graph.source.binding, d.closure)
    BY DEF DecisionBound, BindsPilot
  <1>2. GraphValid(graph) /\ IsFiniteSet(graph.nodes)
    BY DEF DecisionBound, PilotSound, PilotLoads, GraphTyped
  <1>3. \A node \in graph.nodes : node.depends \subseteq Ids(graph.nodes)
    BY <1>2 DEF GraphValid, Anchored
  <1>4. Needed(graph, d.target) \subseteq d.closure
    BY <1>1, <1>2, <1>3, ClosureComplete
  <1>5. d.source.sha = graph.source.binding.sha
    BY <1>1
  <1>6. /\ UNION {node.anchors : node \in d.closure} \subseteq {anchor.id : anchor \in d.source.anchors}
        /\ UNION {row.anchors : row \in d.matrix} = {anchor.id : anchor \in d.source.anchors}
    BY <1>1 DEF AnchorsBind, DecisionBound, DecisionValid
  <1>7. ASSUME NEW id \in UNION {node.anchors : node \in Needed(graph, d.target)}
        PROVE  /\ \E row \in d.matrix : id \in row.anchors
               /\ \E anchor \in d.source.anchors :
                      anchor.id = id /\ anchor.excerpt = <<graph.source.binding.sha, anchor.start, anchor.end>>
    <2>1. id \in {anchor.id : anchor \in d.source.anchors}
      BY <1>4, <1>6
    <2>2. \E row \in d.matrix : id \in row.anchors
      BY <1>6, <2>1
    <2>3. \E anchor \in d.source.anchors :
              anchor.id = id /\ anchor.excerpt = <<graph.source.binding.sha, anchor.start, anchor.end>>
      BY <1>5, <2>1
    <2> QED
      BY <2>2, <2>3
  <1> QED
    BY <1>1, <1>7

\* A replay that takes new locals.
LEMMA ReplayKept ==
  ASSUME DecisionInv, NEW a \in Harnesses, NEW c,
         replaying' = [replaying EXCEPT ![a] = c], UNCHANGED workspace, UNCHANGED replayed,
         c # None => ReplayInv(c) /\ workspace \in c.during
  PROVE  DecisionInv'
  BY DEF DecisionInv, DecisionSound

\* A replay that raised nothing.
LEMMA ReplayEnds ==
  ASSUME DecisionInv, NEW a \in Harnesses, NEW c,
         replaying' = [replaying EXCEPT ![a] = None], UNCHANGED workspace, replayed' = replayed \cup {c},
         IF c.attachment = None THEN DecisionHolds(c) ELSE AttachmentHolds(c)
  PROVE  DecisionInv'
  BY DEF DecisionInv, DecisionSound

\* A replay in progress.
LEMMA Replaying ==
  ASSUME DecisionInv, NEW a \in Harnesses, replaying[a] # None
  PROVE  /\ ReplayInv(replaying[a]) /\ workspace \in replaying[a].during
         /\ DOMAIN replaying[a] = {"decision", "attachment", "during", "step"}
  BY DEF DecisionInv, ReplayInv

\* The next step of a replay.
LEMMA Advanced ==
  ASSUME NEW c, NEW next, NEW step, ReplayInv(c), next = [c EXCEPT !.step = step]
  PROVE  /\ next.decision = c.decision /\ next.attachment = c.attachment /\ next.during = c.during
         /\ next.step = step /\ DOMAIN next = {"decision", "attachment", "during", "step"}
  BY DEF ReplayInv

\* load_pilot_boundary_decision and load_fine_source_span_attachment.
LEMMA BeginKept ==
  ASSUME EInv, NEW a \in Harnesses, LoadDecision(a) \/ LoadAttachment(a)
  PROVE  DecisionInv'
  <1>1. CASE LoadDecision(a)
    <2>1. PICK d, c : /\ d = workspace.decision
                      /\ c = [decision |-> d, attachment |-> None, during |-> {workspace}, step |-> "text"]
      OBVIOUS
    <2>2. /\ replaying' = [replaying EXCEPT ![a] = c] /\ UNCHANGED workspace /\ UNCHANGED replayed
          /\ DecisionValid(d) /\ BindsPilot(d, pilots[a]) /\ pilots[a] \notin {NoHarness, None}
      BY <1>1, <2>1 DEF LoadDecision, Begin
    <2>3. PilotSound(pilots[a])
      BY <2>2 DEF EInv, BInv, PilotInv, PilotSound
    <2>4. d.manifest = pilots[a]
      BY <2>2 DEF BindsPilot
    <2>5. DecisionBound(d)
      BY <2>2, <2>3, <2>4 DEF DecisionBound
    <2>6. /\ c.decision = d /\ c.attachment = None /\ c.during = {workspace} /\ c.step = "text"
          /\ DOMAIN c = {"decision", "attachment", "during", "step"}
      BY <2>1
    <2>7. ReplayInv(c)
      BY <2>5, <2>6 DEF ReplayInv
    <2> QED
      BY <2>2, <2>6, <2>7, ReplayKept DEF EInv
  <1>2. CASE LoadAttachment(a)
    <2>1. PICK f, c : /\ f = workspace.attachment
                      /\ c = [decision |-> None, attachment |-> f, during |-> {workspace}, step |-> "binding"]
      OBVIOUS
    <2>2. /\ replaying' = [replaying EXCEPT ![a] = c] /\ UNCHANGED workspace /\ UNCHANGED replayed
          /\ f # None /\ AttachmentValid(f)
      BY <1>2, <2>1 DEF LoadAttachment, Begin
    <2>3. /\ c.attachment = f /\ c.during = {workspace} /\ c.step = "binding"
          /\ DOMAIN c = {"decision", "attachment", "during", "step"}
      BY <2>1
    <2>4. ReplayInv(c)
      BY <2>2, <2>3 DEF ReplayInv
    <2> QED
      BY <2>2, <2>3, <2>4, ReplayKept DEF EInv
  <1> QED
    BY <1>1, <1>2

\* The cached text, the source and the packet.
LEMMA MatchKept ==
  ASSUME EInv, NEW a \in Harnesses, MatchText(a) \/ MatchSource(a) \/ MatchPacket(a)
  PROVE  DecisionInv'
  <1>1. PICK c, d : c = replaying[a] /\ d = c.decision
    OBVIOUS
  <1>2. /\ c # None /\ ReplayInv(c) /\ workspace \in c.during
        /\ UNCHANGED workspace /\ UNCHANGED replayed
    BY <1>1, Replaying DEF MatchText, MatchSource, MatchPacket, AtReplay, Proceed, EInv
  <1>3. CASE replaying' = [replaying EXCEPT ![a] = None]
    BY <1>2, <1>3, ReplayKept DEF EInv
  <1>4. CASE MatchText(a) /\ replaying' # [replaying EXCEPT ![a] = None]
    <2>1. PICK next : next = [c EXCEPT !.step = "source"]
      OBVIOUS
    <2>2. c.step = "text" /\ MatchesCache(a, d.source) /\ replaying' = [replaying EXCEPT ![a] = next]
      BY <1>1, <1>4, <2>1 DEF MatchText, AtReplay, Proceed
    <2>3. \A anchor \in d.source.anchors : anchor.excerpt = <<d.source.sha, anchor.start, anchor.end>>
      BY <2>2, ExcerptsMatch, BuilderAssumption DEF EInv, BInv
    <2>4. ReplayInv(next) /\ next.during = c.during
      BY <1>1, <1>2, <2>1, <2>2, <2>3, Advanced DEF ReplayInv
    <2> QED
      BY <1>2, <2>2, <2>4, ReplayKept DEF EInv
  <1>5. CASE MatchSource(a) /\ replaying' # [replaying EXCEPT ![a] = None]
    <2>1. PICK next : next = [c EXCEPT !.step = "packet"]
      OBVIOUS
    <2>2. /\ c.step = "source" /\ workspace.source = d.implementation.source
          /\ replaying' = [replaying EXCEPT ![a] = next]
      BY <1>1, <1>5, <2>1 DEF MatchSource, AtReplay, Proceed
    <2>3. ReplayInv(next) /\ next.during = c.during
      BY <1>1, <1>2, <2>1, <2>2, Advanced DEF ReplayInv
    <2> QED
      BY <1>2, <2>2, <2>3, ReplayKept DEF EInv
  <1>6. CASE MatchPacket(a) /\ replaying' # [replaying EXCEPT ![a] = None]
    <2>1. PICK next : next = [c EXCEPT !.step = "receipt"]
      OBVIOUS
    <2>2. /\ c.step = "packet" /\ workspace.packet # None /\ workspace.packet = d.implementation.packet
          /\ replaying' = [replaying EXCEPT ![a] = next]
      BY <1>1, <1>6, <2>1 DEF MatchPacket, AtReplay, Proceed
    <2>3. ReplayInv(next) /\ next.during = c.during
      BY <1>1, <1>2, <2>1, <2>2, Advanced DEF ReplayInv
    <2> QED
      BY <1>2, <2>2, <2>3, ReplayKept DEF EInv
  <1> QED
    BY <1>3, <1>4, <1>5, <1>6

\* The receipt, and the replay of a decision ends.
LEMMA ReceiptKept ==
  ASSUME EInv, NEW a \in Harnesses, MatchReceipt(a)
  PROVE  DecisionInv'
  <1>1. PICK c : c = replaying[a]
    OBVIOUS
  <1> DEFINE d == c.decision
             i == d.implementation
  <1>2. /\ c # None /\ c.step = "receipt" /\ ReplayInv(c) /\ workspace \in c.during
        /\ UNCHANGED workspace /\ replaying' = [replaying EXCEPT ![a] = None]
    BY <1>1, Replaying DEF MatchReceipt, AtReplay, Conclude, EInv
  <1>3. CASE replayed' = replayed
    BY <1>2, <1>3, ReplayKept DEF EInv
  <1>4. CASE replayed' # replayed
    <2>1. /\ replayed' = replayed \cup {c}
          /\ workspace.receipt # None /\ workspace.receipt = i.receipt
          /\ Linked(i.packet, i.receipt, i) /\ CleanBuild(i.packet, i.receipt, i)
          /\ ProfileMatches(i.receipt, d.profile)
      BY <1>1, <1>4 DEF MatchReceipt, Conclude
    <2>2. /\ c.attachment = None /\ DecisionBound(d)
          /\ \A anchor \in d.source.anchors : anchor.excerpt = <<d.source.sha, anchor.start, anchor.end>>
          /\ \E w \in c.during : w.source = i.source
      BY <1>1, <1>2 DEF ReplayInv
    <2>3. PICK v \in c.during : v.packet # None /\ v.packet = i.packet
      BY <1>1, <1>2 DEF ReplayInv
    <2>4. /\ i.packet.backlink = i.receipt /\ i.receipt.content = i.packet.content
          /\ i.receipt.report.status = "passed"
          /\ {i.packet.content.environment, i.receipt.environment, i.receipt.report.environment}
                 = {d.profile.environment}
      BY <2>1 DEF Linked, CleanBuild, ProfileMatches
    <2>5. \E u, w \in c.during :
              /\ u.packet # None /\ w.receipt # None
              /\ u.packet.backlink = w.receipt /\ w.receipt.content = u.packet.content
              /\ w.receipt.report.status = "passed"
              /\ {u.packet.content.environment, w.receipt.environment, w.receipt.report.environment}
                     = {d.profile.environment}
      BY <1>2, <2>1, <2>3, <2>4, Zenon
    <2>6. DecisionHolds(c)
      <3>1. \E graph \in d.manifest.graphs :
                /\ graph.id = d.graph
                /\ \A id \in UNION {node.anchors : node \in Needed(graph, d.target)} :
                       /\ \E row \in d.matrix : id \in row.anchors
                       /\ \E anchor \in d.source.anchors :
                              anchor.id = id /\ anchor.excerpt = <<graph.source.binding.sha, anchor.start, anchor.end>>
        BY <2>2, QuotationsHold, SMTT(30)
      <3>2. \E w \in c.during : w.source = d.implementation.source
        BY <1>1, <2>2
      <3> QED
        BY <2>5, <3>1, <3>2, Zenon DEF DecisionHolds
    <2> QED
      BY <1>2, <2>1, <2>2, <2>6, ReplayEnds DEF EInv
  <1> QED
    BY <1>3, <1>4

\* The decision and the matrix an attachment binds to.
LEMMA BindKept ==
  ASSUME EInv, NEW a \in Harnesses, BindAttachment(a) \/ MatchMatrix(a)
  PROVE  DecisionInv'
  <1>1. PICK c, f : c = replaying[a] /\ f = c.attachment
    OBVIOUS
  <1>2. /\ c # None /\ ReplayInv(c) /\ workspace \in c.during
        /\ UNCHANGED workspace /\ UNCHANGED replayed
    BY <1>1, Replaying DEF BindAttachment, MatchMatrix, AtReplay, Proceed, EInv
  <1>3. CASE replaying' = [replaying EXCEPT ![a] = None]
    BY <1>2, <1>3, ReplayKept DEF EInv
  <1>4. CASE BindAttachment(a) /\ replaying' # [replaying EXCEPT ![a] = None]
    <2>1. PICK next : next = [c EXCEPT !.step = "matrix"]
      OBVIOUS
    <2>2. /\ c.step = "binding" /\ replaying' = [replaying EXCEPT ![a] = next]
          /\ workspace.decision # None /\ DecisionValid(workspace.decision)
          /\ BindsDecision(f, workspace.decision)
      BY <1>1, <1>4, <2>1 DEF BindAttachment, AtReplay, Proceed
    <2>3. /\ workspace.decision = f.decision /\ workspace.decision.disposition = "gap"
          /\ workspace.decision.blockers # {}
      BY <2>2 DEF BindsDecision, DecisionValid
    <2>4. ReplayInv(next) /\ next.during = c.during
      BY <1>1, <1>2, <2>1, <2>2, <2>3, Advanced DEF ReplayInv
    <2> QED
      BY <1>2, <2>2, <2>4, ReplayKept DEF EInv
  <1>5. CASE MatchMatrix(a) /\ replaying' # [replaying EXCEPT ![a] = None]
    <2>1. PICK next : next = [c EXCEPT !.step = "artifact"]
      OBVIOUS
    <2>2. /\ c.step = "matrix" /\ replaying' = [replaying EXCEPT ![a] = next]
          /\ MatrixBinds(f, workspace.matrix)
      BY <1>1, <1>5, <2>1 DEF MatchMatrix, AtReplay, Proceed
    <2>3. /\ workspace.matrix # None
          /\ \A n \in DOMAIN workspace.matrix : \E s \in f.spans : s.requirement = workspace.matrix[n]
      BY <2>2 DEF MatrixBinds
    <2>4. ReplayInv(next) /\ next.during = c.during
      BY <1>1, <1>2, <2>1, <2>2, <2>3, Advanced DEF ReplayInv
    <2> QED
      BY <1>2, <2>2, <2>4, ReplayKept DEF EInv
  <1> QED
    BY <1>3, <1>4, <1>5

\* The bytes, and the replay of an attachment ends.
LEMMA ArtifactKept ==
  ASSUME EInv, NEW a \in Harnesses, MatchArtifact(a)
  PROVE  DecisionInv'
  <1>1. PICK c : c = replaying[a]
    OBVIOUS
  <1> DEFINE f == c.attachment
             bytes == files[<<f.reference.ref, f.reference.sha>>]
  <1>2. /\ c # None /\ c.step = "artifact" /\ ReplayInv(c)
        /\ UNCHANGED workspace /\ replaying' = [replaying EXCEPT ![a] = None]
    BY <1>1, Replaying DEF MatchArtifact, AtReplay, Conclude, EInv
  <1>3. CASE replayed' = replayed
    BY <1>2, <1>3, ReplayKept DEF EInv
  <1>4. CASE replayed' # replayed
    <2>1. replayed' = replayed \cup {c} /\ ArtifactMatches(f, bytes)
      BY <1>1, <1>4 DEF MatchArtifact, Conclude
    <2>2. /\ f # None
          /\ \E w \in c.during : /\ w.decision # None /\ w.decision = f.decision
                                 /\ w.decision.disposition = "gap" /\ w.decision.blockers # {}
      BY <1>1, <1>2 DEF ReplayInv
    <2>3. PICK w \in c.during : /\ w.matrix # None
                                /\ \A n \in DOMAIN w.matrix : \E s \in f.spans : s.requirement = w.matrix[n]
      BY <1>1, <1>2 DEF ReplayInv
    <2>4. \A s \in f.spans : /\ s.raw = <<f.reference.sha, s.start, s.end>>
                             /\ s.start < s.end /\ s.end <= ByteLength[f.reference.sha]
      BY <1>1, <1>2, <2>1 DEF ReplayInv, ArtifactMatches, AttachmentValid
    <2>5. AttachmentHolds(c)
      <3>1. \A n \in DOMAIN w.matrix :
                \E s \in f.spans : /\ s.requirement = w.matrix[n]
                                   /\ s.raw = <<f.reference.sha, s.start, s.end>>
                                   /\ s.start < s.end /\ s.end <= ByteLength[f.reference.sha]
        BY <2>3, <2>4
      <3> QED
        BY <2>2, <2>3, <3>1, Zenon DEF AttachmentHolds
    <2> QED
      BY <1>1, <1>2, <2>1, <2>2, <2>5, ReplayEnds DEF EInv
  <1> QED
    BY <1>3, <1>4

\* A replay whose reader has seen one more state of the workspace.
LEMMA SeenMore ==
  ASSUME NEW c, NEW next, NEW w, ReplayInv(c), next = [c EXCEPT !.during = @ \cup {w}]
  PROVE  ReplayInv(next) /\ w \in next.during
  <1>1. /\ next.decision = c.decision /\ next.attachment = c.attachment /\ next.during = c.during \cup {w}
        /\ next.step = c.step /\ DOMAIN next = {"decision", "attachment", "during", "step"}
    BY DEF ReplayInv
  <1> QED
    BY <1>1 DEF ReplayInv

\* Decisions, attachments and the workspace under them.
LEMMA DecisionKept ==
  ASSUME EInv, DecisionNext
  PROVE  DecisionInv'
  <1>1. ASSUME NEW w, ChangeWorkspace(w)
        PROVE  DecisionInv'
    <2>1. /\ workspace' = w /\ UNCHANGED replayed
          /\ replaying' = [a \in Harnesses |->
                 IF replaying[a] = None THEN None ELSE [replaying[a] EXCEPT !.during = @ \cup {w}]]
      BY <1>1 DEF ChangeWorkspace
    <2>2. ASSUME NEW a \in Harnesses, replaying'[a] # None
          PROVE  ReplayInv(replaying'[a]) /\ w \in replaying'[a].during
      <3>1. PICK c, next : c = replaying[a] /\ next = [c EXCEPT !.during = @ \cup {w}]
        OBVIOUS
      <3>2. c # None /\ replaying'[a] = next
        BY <2>1, <2>2, <3>1
      <3>3. ReplayInv(c)
        BY <3>1, <3>2, Replaying DEF EInv
      <3>4. ReplayInv(next) /\ w \in next.during
        BY <3>1, <3>3, SeenMore
      <3> QED
        BY <3>2, <3>4
    <2> QED
      BY <2>1, <2>2 DEF EInv, DecisionInv, DecisionSound
  <1> QED
    BY <1>1, BeginKept, MatchKept, ReceiptKept, BindKept, ArtifactKept DEF DecisionNext

\* A replay dies with its process; nothing else the Builder does disturbs it.
LEMMA DecisionBeside ==
  ASSUME EInv, BuilderStep
  PROVE  DecisionInv'
  <1>1. /\ replaying' = [a \in Harnesses |-> IF loaded'[a] = None THEN None ELSE replaying[a]]
        /\ UNCHANGED workspace /\ UNCHANGED replayed
    BY DEF BuilderStep
  <1>2. ASSUME NEW a \in Harnesses, replaying'[a] # None
        PROVE  ReplayInv(replaying'[a]) /\ workspace \in replaying'[a].during
    <2>1. replaying'[a] = replaying[a] /\ replaying[a] # None
      BY <1>1, <1>2
    <2> QED
      BY <2>1, Replaying DEF EInv
  <1> QED
    BY <1>1, <1>2 DEF EInv, DecisionInv, DecisionSound


-----------------------------------------------------------------------------
(* The theorems *)

\* The Builder starts with nothing drafted.
LEMMA BuilderStarts ==
  ASSUME BInit
  PROVE  BInv
  <1>1. CacheInv /\ AcquisitionInv
    BY DEF BInit, CacheInit, CacheInv, AcquisitionInv
  <1>2. PilotInv
    <2>1. pilotFile # None => \A g \in pilotFile.graphs : GraphTyped(g)
      BY PilotAssumption DEF BInit, PilotInit
    <2> QED
      BY <2>1 DEF BInit, PilotInit, PilotInv
  <1>3. FidelityInv
    BY DEF BInit, FidelityInit, FidelityInv
  <1>4. DraftsInv /\ LedgerInv
    BY DEF BInit, DraftsInv, PacketInv, LedgerInv
  <1> QED
    BY <1>1, <1>2, <1>3, <1>4 DEF BInv

\* The inductive invariant: whatever authors, agents, operators and reviewers
\* do, and wherever processes die, a bundle rests on one recorded draft of a
\* permitted source and on an evaluation of the very statement.
THEOREM BuilderInvariance == ESpec => []BInv
  <1>1. BInit => BInv
    BY BuilderStarts
  <1>2. BInv /\ [ENext]_pilotEvidenceVars => BInv'
    BY BuilderNext DEF ENext, BuilderStep, pilotEvidenceVars
  <1> QED
    BY <1>1, <1>2, PTL DEF ESpec

\* One draft per contract revision (SourcePreparationLedger): bundles of one
\* revision carry one contract, whoever prepared them.
THEOREM OneDraftAlways == ESpec => []OneDraftPerRevision
  <1>1. BInv => OneDraftPerRevision
    <2> SUFFICES ASSUME BInv, NEW b \in bundles, NEW c \in bundles,
                        b.frozen.contract.id = c.frozen.contract.id,
                        b.frozen.contract.revision = c.frozen.contract.revision
                 PROVE  b.frozen.contract = c.frozen.contract
      BY DEF OneDraftPerRevision
    <2>1. PICK row, other, d, e : /\ row = b.frozen.preparation /\ other = c.frozen.preparation
                                  /\ d = b.frozen.contract /\ e = c.frozen.contract
      OBVIOUS
    <2>2. /\ row \in ledger /\ PreparationBinds(row, d)
          /\ other \in ledger /\ PreparationBinds(other, e)
      BY <2>1 DEF BInv, LedgerInv, FrozenInv
    <2>3. row = other
      BY <2>1, <2>2 DEF PreparationBinds, BInv, LedgerInv
    <2> QED
      BY <2>1, <2>2, <2>3 DEF PreparationBinds
  <1> QED
    BY <1>1, BuilderInvariance, PTL

\* Nobody who was registered as a translator or as the mutation agent of a run
\* is among those who accepted its result (_assert_declared_actor_separation).
THEOREM NobodyReviewsHimself == ESpec => []NoSelfReview
  <1>1. BInv => NoSelfReview
    <2> SUFFICES ASSUME BInv, NEW b \in bundles
                 PROVE  LET e == b.frozen.evaluation
                            made == {e.named.translators[i].actor : i \in DOMAIN e.named.translators}
                                        \cup {e.named.mutator} IN
                        made \cap UNION {Accepting(e.report, role) : role \in
                            {"semantic_reviewer", "library_reviewer", "domain_expert",
                             "independent_verifier"}} = {}
      BY DEF NoSelfReview
    <2>1. PICK e, contract : e = b.frozen.evaluation /\ contract = b.frozen.contract
      OBVIOUS
    <2>2. AssertBinds(e, contract) /\ EvaluationInv(e)
      BY <2>1 DEF BInv, LedgerInv, FrozenInv
    <2>3. \A role : /\ \A i \in DOMAIN e.named.translators :
                          e.named.translators[i].actor \notin Accepting(e.report, role)
                    /\ e.named.mutator \notin Accepting(e.report, role)
      BY <2>2, ReviewersApart
    <2> QED
      BY <2>1, <2>3
  <1> QED
    BY <1>1, BuilderInvariance, PTL

\* The source's policy and the pilot's reviews permitted what a bundle was
\* drafted from (_assert_source_binds, _validate_pilot_admission).
THEOREM SourceAlwaysAdmitted == ESpec => []SourceAdmitted
  <1>1. BInv => SourceAdmitted
    <2> SUFFICES ASSUME BInv, NEW b \in bundles
                 PROVE  /\ EndpointsPermitted(b.frozen.contract)
                        /\ b.frozen.pilot # None =>
                               PilotRespected(b.frozen.pilot, b.frozen.ref, b.frozen.receipt,
                                              b.frozen.contract.rights)
      BY DEF SourceAdmitted, EndpointsPermitted
    <2> QED
      BY DEF BInv, LedgerInv, FrozenInv
  <1> QED
    BY <1>1, BuilderInvariance, PTL

\* What the Builder hands over the control plane's own reading admits, and Lean
\* prints the contract's type for the statement and for every candidate.
THEOREM HandoffAlwaysAdmitted == ESpec => []HandoffAdmitted
  <1>1. BInv => HandoffAdmitted
    <2> SUFFICES ASSUME BInv, NEW b \in bundles
                 PROVE  LET contract == b.frozen.contract candidates == b.frozen.evaluation.candidates IN
                        /\ contract.environment.lake # Unbound => Admits(b)
                        /\ TypeOf[contract.statement] = contract.type
                        /\ \A i \in DOMAIN candidates : TypeOf[candidates[i].statement] = contract.type
      BY DEF HandoffAdmitted
    <2>1. /\ AssertBinds(b.frozen.evaluation, b.frozen.contract) /\ EvaluationInv(b.frozen.evaluation)
          /\ b.frozen.contract.statement \in Statements /\ TestOnly
      BY DEF BInv, LedgerInv, FrozenInv
    <2>2. b.frozen.contract.environment.lake # Unbound => Admits(b)
      BY <2>1, HandoffAccepted
    <2>3. /\ TypeOf[b.frozen.contract.statement] = b.frozen.contract.type
          /\ \A i \in DOMAIN b.frozen.evaluation.candidates :
                 TypeOf[b.frozen.evaluation.candidates[i].statement] = b.frozen.contract.type
      BY <2>1, CheckAdmission
    <2> QED
      BY <2>2, <2>3
  <1> QED
    BY <1>1, BuilderInvariance, PTL

\* What a step of the whole is to the cache.
LEMMA CacheBeside ==
  ASSUME ENext
  PROVE  CacheNext \/ UNCHANGED cacheVars
  <1>1. CASE UNCHANGED bvars
    BY <1>1 DEF bvars
  <1>2. CASE BNext
    <2>1. ASSUME NEW a \in Authors, DieBuilding(a)
          PROVE  CacheNext
      <3>1. a \in Processes /\ Die(a)
        BY <2>1, BuilderAssumption DEF DieBuilding
      <3> QED
        BY <3>1 DEF CacheNext
    <2> QED
      BY <1>2, <2>1 DEF BNext, CacheOnly, AuthorStep, Prepare, Record, Deliver, RunFidelity, Freeze, Bridge
  <1> QED
    BY <1>1, <1>2 DEF ENext, BuilderStep

\* A step that damages nothing keeps a good copy.
LEMMA CopyKept ==
  ASSUME AcquisitionInv, CacheNext, damage' = damage, NEW n \in Names, Good(n)
  PROVE  Good(n)'
  <1>1. CASE UNCHANGED files
    BY <1>1 DEF Good
  <1>2. CASE \E p \in Processes : Load(p) \/ Die(p)
    BY <1>1, <1>2 DEF Load, Die
  <1>3. ASSUME NEW t \in Threads, CacheStep(t)
        PROVE  Good(n)'
    <2>1. CASE files' = [files EXCEPT ![Name(op[t].entry)] = op[t].part] /\ At(t, "replace")
      <3>1. op[t].part = op[t].entry.sha
        BY <2>1 DEF AcquisitionInv, At
      <3>2. Name(op[t].entry)[2] = op[t].entry.sha
        BY DEF Name
      <3> QED
        BY <2>1, <3>1, <3>2 DEF Good, AcquisitionInv
    <2> QED
      BY <1>1, <1>3, <2>1 DEF CacheStep, Acquire, Copy, Replace, Finish
  <1>4. ASSUME NEW m \in Names, Damage(m)
        PROVE  FALSE
    BY <1>4 DEF Damage, AcquisitionInv
  <1> QED
    BY <1>1, <1>2, <1>3, <1>4 DEF CacheNext, Publish

\* Whatever processes acquire at once, fail to download or die on, a good copy
\* of a reference is lost to nobody but others who touch the files
\* (operator_fetch, operator_import_local).
THEOREM GoodCopiesKept == ESpec => KeepsGoodCopies
  <1>1. BInv /\ [ENext]_pilotEvidenceVars =>
            [damage' = damage => \A n \in Names : Good(n) => Good(n)']_cacheVars
    <2> SUFFICES ASSUME BInv, ENext \/ UNCHANGED pilotEvidenceVars, cacheVars' # cacheVars,
                        damage' = damage, NEW n \in Names, Good(n)
                 PROVE  Good(n)'
      BY DEF cacheVars
    <2>1. ENext => CacheNext \/ UNCHANGED cacheVars
      BY CacheBeside
    <2>2. CacheNext
      BY <2>1 DEF pilotEvidenceVars, bvars
    <2> QED
      BY <2>2, CopyKept DEF BInv
  <1> QED
    BY <1>1, BuilderInvariance, PTL DEF ESpec, KeepsGoodCopies

\* Loads and replays, with the Builder they run beside.
THEOREM PilotEvidenceInvariance == ESpec => []EInv
  <1>1. BInit /\ CalibrationInit /\ DecisionInit => EInv
    <2>1. CalibrationInit => CalibrationInv
      BY DEF CalibrationInit, CalibrationInv
    <2>2. DecisionInit => DecisionInv
      BY DEF DecisionInit, DecisionInv, DecisionSound
    <2> QED
      BY <2>1, <2>2, BuilderStarts DEF EInv
  <1>2. EInv /\ [ENext]_pilotEvidenceVars => EInv'
    <2> SUFFICES ASSUME EInv, [ENext]_pilotEvidenceVars
                 PROVE  EInv'
      OBVIOUS
    <2>1. BInv'
      BY BuilderNext DEF EInv, ENext, BuilderStep, pilotEvidenceVars
    <2>2. CASE CalibrationNext /\ UNCHANGED <<bvars, decisionVars>>
      <3>1. UNCHANGED loaded /\ UNCHANGED pilots
        BY <2>2 DEF bvars, cacheVars, pilotVars
      <3>2. CalibrationInv'
        BY <2>2, <3>1, CalibrationKept
      <3>3. DecisionInv'
        BY <2>2 DEF EInv, DecisionInv, DecisionSound, decisionVars
      <3> QED
        BY <2>1, <3>2, <3>3 DEF EInv
    <2>3. CASE DecisionNext /\ UNCHANGED <<bvars, calibrationVars>>
      <3>1. DecisionInv'
        BY <2>3, DecisionKept
      <3>2. CalibrationInv'
        BY <2>3 DEF EInv, CalibrationInv, calibrationVars, bvars, cacheVars, pilotVars
      <3> QED
        BY <2>1, <3>1, <3>2 DEF EInv
    <2>4. CASE BuilderStep
      BY <2>1, <2>4, CalibrationBeside, DecisionBeside DEF EInv
    <2>5. CASE UNCHANGED pilotEvidenceVars
      <3>1. CalibrationInv'
        BY <2>5 DEF EInv, CalibrationInv, pilotEvidenceVars, calibrationVars, bvars, cacheVars, pilotVars
      <3>2. DecisionInv'
        BY <2>5 DEF EInv, DecisionInv, DecisionSound, pilotEvidenceVars, decisionVars
      <3> QED
        BY <2>1, <3>1, <3>2 DEF EInv
    <2> QED
      BY <2>2, <2>3, <2>4, <2>5 DEF ENext
  <1> QED
    BY <1>1, <1>2, PTL DEF ESpec

\* What the Builder replays for a pilot target, rounds and decisions, can be
\* relied on whoever edits the files while they are read
\* (load_self_calibration_round, assert_matches_workspace).
THEOREM PilotEvidenceAlwaysSound == ESpec => []PilotEvidenceSound
  <1>1. EInv => PilotEvidenceSound
    BY DEF EInv, CalibrationInv, DecisionInv, PilotEvidenceSound, CalibrationSound
  <1> QED
    BY <1>1, PilotEvidenceInvariance, PTL

-----------------------------------------------------------------------------
(* The estimate *)

\* The recursion that counts digits.
DigitsOf(m, rest) == IF m < 10 THEN 1 ELSE 1 + rest

\* f counts the digits of the numbers up to N.
CountsTo(f, N) == f \in [0 .. N -> Nat] /\ \A m \in 0 .. N : f[m] = DigitsOf(m, f[m \div 10])

\* f counts digits.
Counts(f) == f = [m \in Nat |-> IF m < 10 THEN 1 ELSE 1 + f[m \div 10]]

\* A number of two digits or more is cut by taking one off.
LEMMA TenthLess ==
  ASSUME NEW m \in Nat
  PROVE  m \div 10 \in Nat /\ m \div 10 <= m /\ (m >= 10 => m \div 10 < m)
  OBVIOUS

\* There is a count up to any number.
LEMMA CountsToExists ==
  ASSUME NEW N \in Nat
  PROVE  \E f : CountsTo(f, N)
  <1> DEFINE Holding == {n \in Nat : \E f : CountsTo(f, n)}
  <1>1. 0 \in Holding
    <2>1. PICK f : f = [m \in 0 .. 0 |-> 1]
      OBVIOUS
    <2>2. f \in [0 .. 0 -> Nat]
      BY <2>1
    <2>3. \A m \in 0 .. 0 : f[m] = 1 /\ m < 10
      BY <2>1
    <2>4. CountsTo(f, 0)
      BY <2>2, <2>3 DEF CountsTo, DigitsOf
    <2> QED
      BY <2>4
  <1>2. ASSUME NEW n \in Nat, n \in Holding
        PROVE  n + 1 \in Holding
    <2>1. PICK f : CountsTo(f, n)
      BY <1>2
    <2>2. PICK g : g = [m \in 0 .. n + 1 |-> IF m = n + 1 THEN DigitsOf(n + 1, f[(n + 1) \div 10]) ELSE f[m]]
      OBVIOUS
    <2>3. ASSUME NEW m \in 0 .. n + 1, m >= 10
          PROVE  m \div 10 \in 0 .. n /\ g[m \div 10] = f[m \div 10]
      <3>1. m \div 10 \in Nat /\ m \div 10 < m
        BY <2>3, TenthLess
      <3>2. m \div 10 \in 0 .. n /\ m \div 10 # n + 1 /\ m \div 10 \in 0 .. n + 1
        BY <3>1
      <3> QED
        BY <2>2, <3>2
    <2>4. ASSUME NEW m \in 0 .. n + 1
          PROVE  g[m] \in Nat /\ g[m] = DigitsOf(m, g[m \div 10])
      <3>1. g[m] = DigitsOf(m, f[m \div 10])
        <4>1. CASE m = n + 1
          BY <2>2, <4>1
        <4>2. CASE m # n + 1
          <5>1. m \in 0 .. n /\ g[m] = f[m]
            BY <2>2, <4>2
          <5> QED
            BY <2>1, <5>1 DEF CountsTo
        <4> QED
          BY <4>1, <4>2
      <3>2. CASE m < 10
        BY <3>1, <3>2 DEF DigitsOf
      <3>3. CASE m >= 10
        <4>1. f[m \div 10] \in Nat /\ g[m \div 10] = f[m \div 10]
          BY <2>1, <2>3, <3>3 DEF CountsTo
        <4> QED
          BY <3>1, <3>3, <4>1 DEF DigitsOf
      <3> QED
        BY <3>2, <3>3
    <2>5. CountsTo(g, n + 1)
      <3>1. g \in [0 .. n + 1 -> Nat]
        BY <2>2, <2>4
      <3> QED
        BY <2>4, <3>1 DEF CountsTo
    <2> QED
      BY <2>5
  <1> HIDE DEF Holding
  <1>3. Nat \subseteq Holding
    BY <1>1, <1>2, SetInduction
  <1>4. N \in Holding
    BY <1>3
  <1> QED
    BY <1>4 DEF Holding

\* Two counts agree where both are defined.
LEMMA CountsToUnique ==
  ASSUME NEW M \in Nat, NEW N \in Nat, NEW f, NEW g, CountsTo(f, M), CountsTo(g, N)
  PROVE  \A n \in Nat : n <= M /\ n <= N => f[n] = g[n]
  <1> SUFFICES ASSUME NEW x \in Nat, x <= M, x <= N, f[x] # g[x] PROVE FALSE
    OBVIOUS
  <1>1. PICK T : T = {n \in Nat : n <= M /\ n <= N /\ f[n] # g[n]}
    OBVIOUS
  <1>2. T \in SUBSET Nat /\ T # {}
    BY <1>1
  <1>3. PICK n \in T : \A k \in T : n <= k
    BY <1>2, LeastNatural
  <1>4. n \in Nat /\ n \in 0 .. M /\ n \in 0 .. N /\ f[n] # g[n]
    BY <1>1, <1>3
  <1>5. f[n] = DigitsOf(n, f[n \div 10]) /\ g[n] = DigitsOf(n, g[n \div 10])
    BY <1>4 DEF CountsTo
  <1>6. CASE n < 10
    BY <1>4, <1>5, <1>6 DEF DigitsOf
  <1>7. CASE n >= 10
    <2>1. PICK k \in Nat : k = n \div 10 /\ k < n
      BY <1>4, <1>7, TenthLess
    <2>2. k \notin T /\ k <= M /\ k <= N
      BY <1>3, <1>4, <2>1
    <2>3. f[k] = g[k]
      BY <1>1, <2>2
    <2> QED
      BY <1>4, <1>5, <2>1, <2>3
  <1> QED
    BY <1>4, <1>6, <1>7

\* There is a count of all numbers.
LEMMA CountsExists == \E f : Counts(f)
  <1>1. PICK c : c = [n \in Nat |-> CHOOSE f : CountsTo(f, n)]
    OBVIOUS
  <1>2. ASSUME NEW n \in Nat PROVE CountsTo(c[n], n)
    BY <1>1, CountsToExists
  <1>3. PICK f : f = [n \in Nat |-> c[n][n]]
    OBVIOUS
  <1>4. ASSUME NEW m \in Nat
        PROVE  f[m] = IF m < 10 THEN 1 ELSE 1 + f[m \div 10]
    <2>1. f[m] = DigitsOf(m, c[m][m \div 10])
      <3>1. c[m][m] = DigitsOf(m, c[m][m \div 10])
        BY <1>2 DEF CountsTo
      <3> QED
        BY <1>3, <3>1
    <2>2. m \div 10 \in Nat /\ m \div 10 <= m
      BY TenthLess
    <2>3. f[m \div 10] = c[m][m \div 10]
      <3>1. PICK k \in Nat : k = m \div 10 /\ k <= m
        BY <2>2
      <3>2. c[k][k] = c[m][k]
        BY <1>2, <3>1, CountsToUnique
      <3> QED
        BY <1>3, <3>1, <3>2
    <2> QED
      BY <2>1, <2>3 DEF DigitsOf
  <1>5. Counts(f)
    <2>1. f = [m \in Nat |-> f[m]]
      BY <1>3
    <2> QED
      BY <1>4, <2>1 DEF Counts
  <1> QED
    BY <1>5

\* The digits of a number in JSON: one at least, no fewer for a larger number,
\* and never many more than the number itself.
LEMMA DigitsCounted ==
  /\ \A n \in Nat : Digits(n) \in Nat /\ 1 <= Digits(n) /\ Digits(n) <= n + 1
  /\ \A m, n \in Nat : m <= n => Digits(m) <= Digits(n)
  <1>1. PICK f : f = (CHOOSE g : Counts(g))
    OBVIOUS
  <1>2. Counts(f)
    BY <1>1, CountsExists
  <1>3. \A n \in Nat : Digits(n) = f[n]
    <2> DEFINE Counted(g) == g = [m \in Nat |-> IF m < 10 THEN 1 ELSE 1 + g[m \div 10]]
    <2>1. \A n \in Nat : Digits(n) = (CHOOSE g : Counted(g))[n]
      BY Zenon DEF Digits
    <2>2. (CHOOSE g : Counted(g)) = (CHOOSE g : Counts(g))
      BY Zenon DEF Counts
    <2> QED
      BY <1>1, <2>1, <2>2
  <1>4. \A m \in Nat : f[m] = IF m < 10 THEN 1 ELSE 1 + f[m \div 10]
    BY <1>2 DEF Counts
  <1>5. ASSUME NEW x \in Nat PROVE f[x] \in Nat /\ 1 <= f[x] /\ f[x] <= x + 1
    <2> SUFFICES ASSUME ~(f[x] \in Nat /\ 1 <= f[x] /\ f[x] <= x + 1) PROVE FALSE
      OBVIOUS
    <2>1. PICK T : T = {n \in Nat : ~(f[n] \in Nat /\ 1 <= f[n] /\ f[n] <= n + 1)}
      OBVIOUS
    <2>2. T \in SUBSET Nat /\ T # {}
      BY <2>1
    <2>3. PICK n \in T : \A k \in T : n <= k
      BY <2>2, LeastNatural
    <2>4. n \in Nat /\ ~(f[n] \in Nat /\ 1 <= f[n] /\ f[n] <= n + 1)
      BY <2>1, <2>3
    <2>5. CASE n < 10
      BY <1>4, <2>4, <2>5
    <2>6. CASE n >= 10
      <3>1. PICK k \in Nat : k = n \div 10 /\ k < n
        BY <2>4, <2>6, TenthLess
      <3>2. k \notin T
        BY <2>3, <2>4, <3>1
      <3>3. f[k] \in Nat /\ 1 <= f[k] /\ f[k] <= k + 1
        BY <2>1, <3>2
      <3>4. f[n] = 1 + f[k]
        BY <1>4, <2>4, <2>6, <3>1
      <3> QED
        BY <2>4, <3>1, <3>3, <3>4
    <2> QED
      BY <2>4, <2>5, <2>6
  <1>6. ASSUME NEW a \in Nat, NEW b \in Nat, a <= b PROVE f[a] <= f[b]
    <2> SUFFICES ASSUME ~(f[a] <= f[b]) PROVE FALSE
      OBVIOUS
    <2>1. PICK T : T = {n \in Nat : \E m \in Nat : m <= n /\ ~(f[m] <= f[n])}
      OBVIOUS
    <2>2. T \in SUBSET Nat /\ T # {}
      BY <1>6, <2>1
    <2>3. PICK n \in T : \A k \in T : n <= k
      BY <2>2, LeastNatural
    <2>4. PICK m \in Nat : n \in Nat /\ m <= n /\ ~(f[m] <= f[n])
      BY <2>1, <2>3
    <2>5. CASE m < 10
      BY <1>4, <1>5, <2>4, <2>5
    <2>6. CASE m >= 10
      <3>1. PICK k \in Nat : k = n \div 10 /\ k < n
        BY <2>4, <2>6, TenthLess
      <3>2. PICK j \in Nat : j = m \div 10
        BY <2>4, TenthLess
      <3>3. j <= k
        BY <2>4, <3>1, <3>2
      <3>4. k \notin T
        BY <2>3, <2>4, <3>1
      <3>5. f[j] <= f[k]
        BY <2>1, <3>3, <3>4
      <3>6. f[m] = 1 + f[j] /\ f[n] = 1 + f[k]
        BY <1>4, <2>4, <2>6, <3>1, <3>2
      <3> QED
        BY <1>5, <2>4, <3>5, <3>6
    <2> QED
      BY <2>4, <2>5, <2>6
  <1> QED
    BY <1>3, <1>5, <1>6

\* _estimate_pack_tokens: the loop ends, at the least estimate that covers its
\* own digits, so an estimate never falls short and a longer pack never gets a
\* smaller one.
LEMMA EstimateCovers ==
  ASSUME NEW size \in Nat
  PROVE  /\ EstimateTokens(size) \in Nat
         /\ size + Digits(EstimateTokens(size)) <= 4 * EstimateTokens(size)
         /\ \A e \in Nat : size + Digits(e) <= 4 * e => EstimateTokens(size) <= e
  <1>1. PICK g : g = [e \in Nat |-> (size + Digits(e) + 3) \div 4]
    OBVIOUS
  <1>2. \A e \in Nat : g[e] = (size + Digits(e) + 3) \div 4 /\ g[e] \in Nat
    <2> SUFFICES ASSUME NEW e \in Nat PROVE g[e] = (size + Digits(e) + 3) \div 4 /\ g[e] \in Nat
      OBVIOUS
    <2>1. PICK d \in Nat : d = Digits(e)
      BY DigitsCounted
    <2>2. (size + d + 3) \div 4 \in Nat
      OBVIOUS
    <2> QED
      BY <1>1, <2>1, <2>2
  <1>3. g \in [Nat -> Nat]
    BY <1>1, <1>2
  <1>4. Monotone(g)
    <2> SUFFICES ASSUME NEW x \in Nat, NEW y \in Nat, x <= y PROVE g[x] <= g[y]
      BY DEF Monotone
    <2>1. PICK c \in Nat, d \in Nat : c = Digits(x) /\ d = Digits(y) /\ c <= d
      BY DigitsCounted
    <2>2. (size + c + 3) \div 4 <= (size + d + 3) \div 4
      BY <2>1
    <2> QED
      BY <1>2, <2>1, <2>2
  <1>5. \A e \in Nat : g[e] <= e <=> size + Digits(e) <= 4 * e
    <2> SUFFICES ASSUME NEW e \in Nat PROVE g[e] <= e <=> size + Digits(e) <= 4 * e
      OBVIOUS
    <2>1. PICK d \in Nat : d = Digits(e)
      BY DigitsCounted
    <2>2. (size + d + 3) \div 4 <= e <=> size + d <= 4 * e
      OBVIOUS
    <2> QED
      BY <1>2, <2>1, <2>2
  <1>6. size + 3 \in Nat /\ g[size + 3] <= size + 3
    <2>1. PICK d \in Nat : d = Digits(size + 3) /\ d <= size + 4
      BY DigitsCounted
    <2>2. size + d <= 4 * (size + 3)
      BY <2>1
    <2> QED
      BY <1>5, <2>1, <2>2
  <1> DEFINE Loop(f) == f = [e \in Nat |->
                               IF (size + Digits(e) + 3) \div 4 = e THEN e
                               ELSE f[(size + Digits(e) + 3) \div 4]]
  <1>7. EstimateTokens(size) = (CHOOSE f : Loop(f))[0]
    BY Zenon DEF EstimateTokens
  <1>8. \A f : Loop(f) <=> IsLoop(f, g)
    <2> SUFFICES ASSUME NEW f PROVE Loop(f) <=> IsLoop(f, g)
      OBVIOUS
    <2>1. [e \in Nat |-> IF (size + Digits(e) + 3) \div 4 = e THEN e
                         ELSE f[(size + Digits(e) + 3) \div 4]]
          = [e \in Nat |-> IF g[e] = e THEN e ELSE f[g[e]]]
      BY <1>2
    <2> QED
      BY <2>1 DEF IsLoop
  <1>9. PICK f : f = (CHOOSE h : Loop(h))
    OBVIOUS
  <1> HIDE DEF Loop
  <1>10. IsLoop(f, g)
    BY <1>3, <1>4, <1>8, <1>9, LoopExists
  <1>11. f[0] \in Nat /\ g[f[0]] = f[0] /\ \A x \in Nat : g[x] <= x => f[0] <= x
    BY <1>3, <1>4, <1>6, <1>10, LoopFinds
  <1>12. EstimateTokens(size) = f[0]
    BY <1>7, <1>9
  <1> QED
    BY <1>5, <1>11, <1>12

\* A longer pack never gets a smaller estimate.
LEMMA EstimateMonotone ==
  ASSUME NEW a \in Nat, NEW b \in Nat, a <= b
  PROVE  EstimateTokens(a) <= EstimateTokens(b)
  <1>1. PICK e \in Nat : e = EstimateTokens(b) /\ b + Digits(e) <= 4 * e
    BY EstimateCovers
  <1>2. PICK d \in Nat : d = Digits(e)
    BY DigitsCounted
  <1>3. a + Digits(e) <= 4 * e
    BY <1>1, <1>2
  <1> QED
    BY <1>1, <1>3, EstimateCovers
-----------------------------------------------------------------------------
(* The bytes of a pack *)

\* The length of a JSON list.
LEMMA ListSizes ==
  ASSUME NEW n \in Nat, NEW f \in [1 .. n -> Nat]
  PROVE  /\ SumFunctionOnSet(f, 1 .. n) \in Nat /\ ListSize(f) \in Nat
         /\ ListSize(f) = SumFunctionOnSet(f, 1 .. n) + (IF n = 0 THEN 0 ELSE n - 1)
  <1>1. f \in Seq(Nat) /\ Len(f) = n /\ DOMAIN f = 1 .. n
    OBVIOUS
  <1>2. f = <<>> <=> n = 0
    BY <1>1
  <1>3. PICK t : t = SumFunctionOnSet(f, 1 .. n)
    OBVIOUS
  <1>4. t \in Nat
    BY <1>3, FS_Interval, SumRemove
  <1>5. SumFunction(f) = t
    BY <1>1, <1>3 DEF SumFunction
  <1>6. ListSize(f) = t + (IF n = 0 THEN 0 ELSE n - 1)
    BY <1>1, <1>2, <1>5 DEF ListSize
  <1> QED
    BY <1>3, <1>4, <1>6

\* One more element makes a list longer by it and by a comma.
LEMMA ListSizeAppend ==
  ASSUME NEW n \in Nat, NEW f \in [1 .. n -> Nat], NEW g \in [1 .. n + 1 -> Nat],
         \A i \in 1 .. n : g[i] = f[i]
  PROVE  ListSize(g) = ListSize(f) + g[n + 1] + (IF n = 0 THEN 0 ELSE 1)
  <1>1. PICK S : S = 1 .. n
    OBVIOUS
  <1>2. IsFiniteSet(S) /\ n + 1 \notin S /\ 1 .. n + 1 = S \cup {n + 1}
    <2>1. IsFiniteSet(S)
      BY <1>1, FS_Interval
    <2>2. n + 1 \notin S /\ \A i : i \in 1 .. n + 1 <=> i \in S \cup {n + 1}
      BY <1>1
    <2> QED
      BY <2>1, <2>2
  <1>3. \A y \in S \cup {n + 1} : g[y] \in Nat
    BY <1>2
  <1>4. SumFunctionOnSet(g, S \cup {n + 1}) = g[n + 1] + SumFunctionOnSet(g, S)
    BY <1>2, <1>3, SumAdd
  <1>5. SumFunctionOnSet(f, S) = SumFunctionOnSet(g, S)
    <2>1. \A x \in S : f[x] \in Nat /\ f[x] = g[x]
      BY <1>1
    <2> QED
      BY <1>2, <2>1, SumSame
  <1>6. PICK t \in Nat : t = SumFunctionOnSet(f, 1 .. n)
    BY ListSizes
  <1>7. ListSize(f) = t + (IF n = 0 THEN 0 ELSE n - 1)
    BY <1>6, ListSizes
  <1>8. SumFunctionOnSet(g, 1 .. n + 1) = g[n + 1] + t
    BY <1>1, <1>2, <1>4, <1>5, <1>6
  <1>9. ListSize(g) = (g[n + 1] + t) + n
    <2>1. PICK k \in Nat : k = n + 1 /\ k # 0 /\ k - 1 = n
      OBVIOUS
    <2>2. g \in [1 .. k -> Nat]
      BY <2>1
    <2>3. ListSize(g) = SumFunctionOnSet(g, 1 .. k) + (IF k = 0 THEN 0 ELSE k - 1)
      BY <2>2, ListSizes
    <2> QED
      BY <1>8, <2>1, <2>3
  <1>10. g[n + 1] \in Nat
    OBVIOUS
  <1> QED
    BY <1>6, <1>7, <1>9, <1>10

\* The bytes of a list of records, each with its digest.
Body(records) == ListSize([i \in DOMAIN records |-> HashSize + records[i].size])

\* A pack is its frame, which only the number of candidates matters for, and its records.
Frame(query, candidates) == EnvelopeSize + query.size + ListSize([i \in DOMAIN candidates |-> HashSize])

\* The records that have a length.
Sized(R) == \A r \in R : r.size \in Nat

\* A pack with more records is longer.
LEMMA BodyGrows ==
  ASSUME NEW R, Sized(R), NEW s \in Seq(R), NEW x \in R
  PROVE  /\ Body(s) \in Nat /\ Body(Append(s, x)) \in Nat
         /\ Body(Append(s, x)) = Body(s) + HashSize + x.size + (IF s = <<>> THEN 0 ELSE 1)
  <1>1. PICK n \in Nat : n = Len(s) /\ DOMAIN s = 1 .. n
    OBVIOUS
  <1>2. PICK t : t = Append(s, x)
    OBVIOUS
  <1>3. t \in Seq(R) /\ DOMAIN t = 1 .. n + 1 /\ t[n + 1] = x /\ \A i \in 1 .. n : t[i] = s[i] /\ t[i] \in R
    BY <1>1, <1>2
  <1>4. PICK f : f = [i \in DOMAIN s |-> HashSize + s[i].size]
    OBVIOUS
  <1>5. PICK g : g = [i \in DOMAIN t |-> HashSize + t[i].size]
    OBVIOUS
  <1>6. HashSize \in Nat
    BY ExperienceAssumption
  <1>7. f \in [1 .. n -> Nat]
    BY <1>1, <1>4, <1>6 DEF Sized
  <1>8. g \in [1 .. n + 1 -> Nat]
    BY <1>3, <1>5, <1>6 DEF Sized
  <1>9. \A i \in 1 .. n : g[i] = f[i]
    BY <1>1, <1>3, <1>4, <1>5
  <1>10. ListSize(g) = ListSize(f) + g[n + 1] + (IF n = 0 THEN 0 ELSE 1)
    BY <1>7, <1>8, <1>9, ListSizeAppend
  <1>11. g[n + 1] = HashSize + x.size /\ x.size \in Nat
    BY <1>3, <1>5 DEF Sized
  <1>12. ListSize(f) \in Nat /\ ListSize(g) \in Nat
    <2>1. ListSize(f) \in Nat
      BY <1>7, ListSizes
    <2>2. PICK m \in Nat : m = n + 1
      OBVIOUS
    <2>3. ListSize(g) \in Nat
      BY <1>8, <2>2, ListSizes
    <2> QED
      BY <2>1, <2>3
  <1>13. s = <<>> <=> n = 0
    BY <1>1
  <1>14. Body(s) = ListSize(f) /\ Body(t) = ListSize(g)
    BY <1>4, <1>5 DEF Body
  <1> QED
    BY <1>2, <1>6, <1>10, <1>11, <1>12, <1>13, <1>14

\* The bytes of a pack, its digest lists included, add up to a number.
LEMMA PackSizes ==
  ASSUME NEW query, query.size \in Nat, NEW n \in Nat,
         NEW candidates, DOMAIN candidates = 1 .. n, NEW R, Sized(R), NEW s \in Seq(R)
  PROVE  /\ Frame(query, candidates) \in Nat /\ Body(s) \in Nat
         /\ PackSize(query, candidates, s) = Frame(query, candidates) + Body(s)
         /\ PackSize(query, candidates, s) \in Nat
  <1>1. EnvelopeSize \in Nat /\ HashSize \in Nat
    BY ExperienceAssumption
  <1>2. [i \in DOMAIN candidates |-> HashSize] \in [1 .. n -> Nat]
    BY <1>1
  <1>3. ListSize([i \in DOMAIN candidates |-> HashSize]) \in Nat
    BY <1>2, ListSizes
  <1>4. Body(s) \in Nat
    <2>1. PICK m \in Nat : m = Len(s) /\ DOMAIN s = 1 .. m
      OBVIOUS
    <2>2. [i \in DOMAIN s |-> HashSize + s[i].size] \in [1 .. m -> Nat]
      BY <1>1, <2>1 DEF Sized
    <2> QED
      BY <2>1, <2>2, ListSizes DEF Body
  <1>5. Frame(query, candidates) \in Nat
    BY <1>1, <1>3 DEF Frame
  <1>6. PackSize(query, candidates, s) = Frame(query, candidates) + Body(s)
    BY DEF PackSize, Frame, Body
  <1> QED
    BY <1>4, <1>5, <1>6

\* A record that no longer fits never fits again: with more records a pack
\* costs no fewer tokens.
LEMMA TokensGrow ==
  ASSUME NEW query, query.size \in Nat, NEW n \in Nat,
         NEW candidates, DOMAIN candidates = 1 .. n,
         NEW R, Sized(R), NEW s \in Seq(R), NEW x \in R, NEW r \in R
  PROVE  /\ Tokens(query, candidates, s) \in Nat
         /\ Tokens(query, candidates, Append(s, r)) \in Nat
         /\ Tokens(query, candidates, Append(Append(s, x), r)) \in Nat
         /\ Tokens(query, candidates, Append(s, r)) <= Tokens(query, candidates, Append(Append(s, x), r))
  <1>1. PICK t : t = Append(s, x)
    OBVIOUS
  <1>2. t \in Seq(R) /\ t # <<>> /\ Append(s, r) \in Seq(R) /\ Append(t, r) \in Seq(R)
    BY <1>1
  <1>3. PICK a \in Nat, b \in Nat, c \in Nat : a = Body(s) /\ b = Body(t) /\ c = Body(Append(t, r))
    BY <1>1, <1>2, BodyGrows
  <1>4. HashSize \in Nat /\ x.size \in Nat /\ r.size \in Nat
    BY ExperienceAssumption DEF Sized
  <1>5. b = a + HashSize + x.size + (IF s = <<>> THEN 0 ELSE 1)
    BY <1>1, <1>3, BodyGrows
  <1>6. c = b + HashSize + r.size + 1
    BY <1>2, <1>3, BodyGrows
  <1>7. Body(Append(s, r)) = a + HashSize + r.size + (IF s = <<>> THEN 0 ELSE 1)
    BY <1>3, BodyGrows
  <1>8. PICK f \in Nat : f = Frame(query, candidates)
    BY <1>2, PackSizes
  <1>9. ASSUME NEW w \in Seq(R) PROVE PackSize(query, candidates, w) = f + Body(w) /\ Body(w) \in Nat
    BY <1>8, PackSizes
  <1>10. PICK u, v : u = Append(s, r) /\ v = Append(t, r) /\ u \in Seq(R) /\ v \in Seq(R)
    BY <1>2
  <1>11. PICK d \in Nat : d = Body(u) /\ d <= c
    <2>1. PICK h \in Nat, k \in Nat, l \in Nat, comma \in Nat :
            h = HashSize /\ k = x.size /\ l = r.size /\ comma = (IF s = <<>> THEN 0 ELSE 1)
      BY <1>4
    <2>2. b = a + h + k + comma /\ c = b + h + l + 1 /\ Body(u) = a + h + l + comma
      BY <1>5, <1>6, <1>7, <1>10, <2>1
    <2>3. b = a + h + k + comma /\ c = b + h + l + 1
      BY <2>2
    <2>4. a + h + l + comma \in Nat /\ a + h + l + comma <= c
      BY <2>3
    <2> QED
      BY <2>2, <2>4
  <1>12. f + a \in Nat /\ f + d \in Nat /\ f + c \in Nat /\ f + d <= f + c
    BY <1>11
  <1>13. EstimateTokens(f + a) \in Nat /\ EstimateTokens(f + d) \in Nat /\ EstimateTokens(f + c) \in Nat
    BY <1>12, EstimateCovers
  <1>14. EstimateTokens(f + d) <= EstimateTokens(f + c)
    BY <1>12, EstimateMonotone
  <1>15. /\ PackSize(query, candidates, s) = f + a
         /\ PackSize(query, candidates, u) = f + d
         /\ PackSize(query, candidates, v) = f + c
    BY <1>3, <1>9, <1>10, <1>11
  <1> QED
    BY <1>1, <1>10, <1>13, <1>14, <1>15 DEF Tokens
-----------------------------------------------------------------------------
(* The candidates *)

\* The numbers a record is ranked by, all of them naturals.
LEMMA RankNumbers ==
  ASSUME NEW r \in RecordInputs
  PROVE  /\ Len(r.applies.domain) \in Nat /\ Cardinality(r.applies.frontier) \in Nat
         /\ Cardinality(r.applies.conditions) \in Nat /\ r.hash \in Nat
  <1>1. Len(r.applies.domain) \in Nat /\ r.hash \in Nat
    BY ExperienceAssumption
  <1>2. IsFiniteSet(r.applies.frontier) /\ IsFiniteSet(r.applies.conditions)
    BY ExperienceAssumption
  <1> QED
    BY <1>1, <1>2, FS_CardinalityType

\* Number by number: the domain, the frontier, the conditions and the digest.
ComparesBefore(r, s) ==
    \/ Len(s.applies.domain) < Len(r.applies.domain)
    \/ /\ Len(s.applies.domain) = Len(r.applies.domain)
       /\ \/ Cardinality(s.applies.frontier) < Cardinality(r.applies.frontier)
          \/ /\ Cardinality(s.applies.frontier) = Cardinality(r.applies.frontier)
             /\ \/ Cardinality(s.applies.conditions) < Cardinality(r.applies.conditions)
                \/ /\ Cardinality(s.applies.conditions) = Cardinality(r.applies.conditions)
                   /\ r.hash < s.hash

\* _rank_key compares number by number.
LEMMA RanksBeforeIs ==
  ASSUME NEW r, NEW s
  PROVE  RanksBefore(r, s) <=> ComparesBefore(r, s)
  <1>0. PICK a1, a2, a3, a4, b1, b2, b3, b4 :
            /\ a1 = Len(s.applies.domain) /\ b1 = Len(r.applies.domain)
            /\ a2 = Cardinality(s.applies.frontier) /\ b2 = Cardinality(r.applies.frontier)
            /\ a3 = Cardinality(s.applies.conditions) /\ b3 = Cardinality(r.applies.conditions)
            /\ a4 = r.hash /\ b4 = s.hash
    OBVIOUS
  <1>1. PICK key, other : key = <<a1, a2, a3, a4>> /\ other = <<b1, b2, b3, b4>>
    OBVIOUS
  <1>2. key[1] = a1 /\ key[2] = a2 /\ key[3] = a3 /\ key[4] = a4
    BY <1>1
  <1>3. other[1] = b1 /\ other[2] = b2 /\ other[3] = b3 /\ other[4] = b4
    BY <1>1
  <1>4. RanksBefore(r, s) <=>
            \E i \in 1 .. 4 : key[i] < other[i] /\ \A j \in 1 .. i - 1 : key[j] = other[j]
    BY <1>0, <1>1 DEF RanksBefore
  <1>5. \A i : i \in 1 .. 4 <=> i \in {1, 2, 3, 4}
    OBVIOUS
  <1>6. /\ 1 .. (1 - 1) = {} /\ 1 .. (2 - 1) = {1}
        /\ 1 .. (3 - 1) = {1, 2} /\ 1 .. (4 - 1) = {1, 2, 3}
    OBVIOUS
  <1>7. RanksBefore(r, s) <=>
            \E i \in {1, 2, 3, 4} : key[i] < other[i] /\ \A j \in 1 .. i - 1 : key[j] = other[j]
    BY <1>4, <1>5
  <1>8. RanksBefore(r, s) <=>
            \/ a1 < b1
            \/ a1 = b1 /\ a2 < b2
            \/ a1 = b1 /\ a2 = b2 /\ a3 < b3
            \/ a1 = b1 /\ a2 = b2 /\ a3 = b3 /\ a4 < b4
    BY <1>2, <1>3, <1>6, <1>7
  <1> QED
    BY <1>0, <1>8 DEF ComparesBefore

\* The pairs of records of which the first ranks before the second.
Ranking(E) == {p \in E \X E : RanksBefore(p[1], p[2])}

\* The ranking leaves nothing open: the digest decides at last.
LEMMA RankingOrders ==
  ASSUME NEW E \in SUBSET RecordInputs
  PROVE  Orders(Ranking(E), E)
  <1>0. \A x, y \in E : <<x, y>> \in Ranking(E) <=> RanksBefore(x, y)
    BY DEF Ranking
  <1>1. ASSUME NEW x \in E, NEW y \in E, NEW z \in E
        PROVE  /\ ~ RanksBefore(x, x)
               /\ RanksBefore(x, y) /\ RanksBefore(y, z) => RanksBefore(x, z)
               /\ x = y \/ RanksBefore(x, y) \/ RanksBefore(y, x)
    <2>1. PICK x1 \in Nat, x2 \in Nat, x3 \in Nat, x4 \in Nat :
             /\ x1 = Len(x.applies.domain) /\ x2 = Cardinality(x.applies.frontier)
             /\ x3 = Cardinality(x.applies.conditions) /\ x4 = x.hash
      BY RankNumbers
    <2>2. PICK y1 \in Nat, y2 \in Nat, y3 \in Nat, y4 \in Nat :
             /\ y1 = Len(y.applies.domain) /\ y2 = Cardinality(y.applies.frontier)
             /\ y3 = Cardinality(y.applies.conditions) /\ y4 = y.hash
      BY RankNumbers
    <2>3. PICK z1 \in Nat, z2 \in Nat, z3 \in Nat, z4 \in Nat :
             /\ z1 = Len(z.applies.domain) /\ z2 = Cardinality(z.applies.frontier)
             /\ z3 = Cardinality(z.applies.conditions) /\ z4 = z.hash
      BY RankNumbers
    <2>4. RanksBefore(x, x) <=> \/ x1 < x1
                                \/ x1 = x1 /\ x2 < x2
                                \/ x1 = x1 /\ x2 = x2 /\ x3 < x3
                                \/ x1 = x1 /\ x2 = x2 /\ x3 = x3 /\ x4 < x4
      BY <2>1, RanksBeforeIs DEF ComparesBefore
    <2>5. RanksBefore(x, y) <=> \/ y1 < x1
                                \/ y1 = x1 /\ y2 < x2
                                \/ y1 = x1 /\ y2 = x2 /\ y3 < x3
                                \/ y1 = x1 /\ y2 = x2 /\ y3 = x3 /\ x4 < y4
      BY <2>1, <2>2, RanksBeforeIs DEF ComparesBefore
    <2>6. RanksBefore(y, x) <=> \/ x1 < y1
                                \/ x1 = y1 /\ x2 < y2
                                \/ x1 = y1 /\ x2 = y2 /\ x3 < y3
                                \/ x1 = y1 /\ x2 = y2 /\ x3 = y3 /\ y4 < x4
      BY <2>1, <2>2, RanksBeforeIs DEF ComparesBefore
    <2>7. RanksBefore(y, z) <=> \/ z1 < y1
                                \/ z1 = y1 /\ z2 < y2
                                \/ z1 = y1 /\ z2 = y2 /\ z3 < y3
                                \/ z1 = y1 /\ z2 = y2 /\ z3 = y3 /\ y4 < z4
      BY <2>2, <2>3, RanksBeforeIs DEF ComparesBefore
    <2>8. RanksBefore(x, z) <=> \/ z1 < x1
                                \/ z1 = x1 /\ z2 < x2
                                \/ z1 = x1 /\ z2 = x2 /\ z3 < x3
                                \/ z1 = x1 /\ z2 = x2 /\ z3 = x3 /\ x4 < z4
      BY <2>1, <2>3, RanksBeforeIs DEF ComparesBefore
    <2>9. x4 = y4 => x = y
      BY <2>1, <2>2, ExperienceAssumption
    <2>10. ~ RanksBefore(x, x)
      BY <2>4
    <2>11. RanksBefore(x, y) /\ RanksBefore(y, z) => RanksBefore(x, z)
      BY <2>5, <2>7, <2>8
    <2>12. x = y \/ RanksBefore(x, y) \/ RanksBefore(y, x)
      BY <2>5, <2>6, <2>9
    <2> QED
      BY <2>10, <2>11, <2>12
  <1> QED
    BY <1>0, <1>1 DEF Orders

\* The records of a catalog that a query asks for.
EligibleIn(records, query) == {r \in records : Eligible(r, query)}

\* The sort loses no candidate and repeats none.
LEMMA CandidatesComplete ==
  ASSUME NEW records \in SUBSET RecordInputs, IsFiniteSet(records), NEW query
  PROVE  \E n \in Nat :
             /\ Candidates(records, query) \in [1 .. n -> EligibleIn(records, query)]
             /\ \A i, j \in 1 .. n :
                    Candidates(records, query)[i] = Candidates(records, query)[j] => i = j
             /\ \A r \in EligibleIn(records, query) :
                    \E i \in 1 .. n : Candidates(records, query)[i] = r
  <1>1. PICK E : E = EligibleIn(records, query)
    OBVIOUS
  <1>2. E \in SUBSET RecordInputs /\ E \in SUBSET records /\ IsFiniteSet(E)
    <2>1. E \in SUBSET records /\ E \in SUBSET RecordInputs
      BY <1>1 DEF EligibleIn
    <2> QED
      BY <2>1, FS_Subset
  <1>3. PICK n \in Nat : n = Cardinality(E)
    BY <1>2, FS_CardinalityType
  <1>4. PICK R : R = Ranking(E)
    OBVIOUS
  <1>5. /\ \A x \in E : Cardinality(Lower(R, E, x)) \in Nat /\ Cardinality(Lower(R, E, x)) < n
        /\ \A i \in 1 .. n :
               \E x \in E : /\ Cardinality(Lower(R, E, x)) = i - 1
                            /\ \A y \in E : Cardinality(Lower(R, E, y)) = i - 1 => y = x
    <2>1. Orders(R, E)
      BY <1>2, <1>4, RankingOrders
    <2> QED
      BY <1>2, <1>3, <2>1, RankTaken
  <1>6. \A r \in E : {s \in E : RanksBefore(s, r)} = Lower(R, E, r)
    BY <1>4 DEF Lower, Ranking
  <1>7. PICK c : c = [i \in 1 .. n |-> CHOOSE r \in E : Cardinality({s \in E : RanksBefore(s, r)}) = i - 1]
    OBVIOUS
  <1>8. c = Candidates(records, query)
    BY <1>1, <1>3, <1>7 DEF Candidates, EligibleIn
  <1>9. ASSUME NEW i \in 1 .. n
        PROVE  c[i] \in E /\ Cardinality(Lower(R, E, c[i])) = i - 1
    <2>1. \E x \in E : Cardinality({s \in E : RanksBefore(s, x)}) = i - 1
      BY <1>5, <1>6
    <2>2. c[i] \in E /\ Cardinality({s \in E : RanksBefore(s, c[i])}) = i - 1
      BY <1>7, <2>1
    <2> QED
      BY <1>6, <2>2
  <1>10. c \in [1 .. n -> E]
    BY <1>7, <1>9
  <1>11. \A i, j \in 1 .. n : c[i] = c[j] => i = j
    <2> SUFFICES ASSUME NEW i \in 1 .. n, NEW j \in 1 .. n, c[i] = c[j] PROVE i = j
      OBVIOUS
    <2>1. i - 1 = j - 1
      BY <1>9
    <2> QED
      BY <2>1
  <1>12. ASSUME NEW r \in E PROVE \E i \in 1 .. n : c[i] = r
    <2>1. PICK m \in Nat : m = Cardinality(Lower(R, E, r)) /\ m < n
      BY <1>5
    <2>2. PICK i \in 1 .. n : i - 1 = m
      <3>1. m + 1 \in 1 .. n /\ (m + 1) - 1 = m
        BY <1>3, <2>1
      <3> QED
        BY <3>1
    <2>3. PICK x \in E : \A y \in E : Cardinality(Lower(R, E, y)) = i - 1 => y = x
      BY <1>5
    <2>4. c[i] = x /\ r = x
      BY <1>9, <2>1, <2>2, <2>3
    <2> QED
      BY <2>4
  <1> QED
    BY <1>1, <1>8, <1>10, <1>11, <1>12
-----------------------------------------------------------------------------
(* The selection *)

\* What retrieve does with the n-th candidate.
Tried(query, candidates, n, s) ==
    IF /\ Len(Append(s, candidates[n])) <= query.maxItems
       /\ Tokens(query, candidates, Append(s, candidates[n])) <= query.maxTokens
      THEN Append(s, candidates[n]) ELSE s

\* Candidate j is left out for a reason that holds of the whole pack.
LeftOut(query, candidates, s, j) ==
    \/ Len(s) = query.maxItems
    \/ Tokens(query, candidates, Append(s, candidates[j])) > query.maxTokens

\* What s is when k candidates have been tried.
Chosen(query, candidates, R, k, s) ==
    /\ s \in Seq(R)
    /\ Len(s) <= query.maxItems
    /\ Tokens(query, candidates, s) <= query.maxTokens
    /\ \A i \in 1 .. Len(s) : \E j \in 1 .. k : s[i] = candidates[j]
    /\ \A i, j \in 1 .. Len(s) : s[i] = s[j] => i = j
    /\ \A j \in 1 .. k : (\E i \in 1 .. Len(s) : s[i] = candidates[j]) \/ LeftOut(query, candidates, s, j)

\* The candidates of a query that can be asked, each once.
Askable(query, candidates, R, n) ==
    /\ query.size \in Nat /\ query.maxItems \in Nat /\ query.maxTokens \in Nat
    /\ candidates \in [1 .. n -> R] /\ Sized(R)
    /\ \A i, j \in 1 .. n : candidates[i] = candidates[j] => i = j

\* Trying one more candidate keeps the pack within its limits, and the reasons
\* for which others were left out.
LEMMA TriedChosen ==
  ASSUME NEW query, NEW candidates, NEW R, NEW n \in Nat, Askable(query, candidates, R, n),
         NEW k \in 1 .. n, NEW s, Chosen(query, candidates, R, k - 1, s)
  PROVE  Chosen(query, candidates, R, k, Tried(query, candidates, k, s))
  <1>1. PICK x \in R : x = candidates[k]
    BY DEF Askable
  <1>2. PICK t : t = Append(s, x)
    OBVIOUS
  <1>3. PICK m \in Nat : m = Len(s) /\ s \in Seq(R)
    BY DEF Chosen
  <1>4. t \in Seq(R) /\ Len(t) = m + 1 /\ t[m + 1] = x /\ \A i \in 1 .. m : t[i] = s[i]
    BY <1>1, <1>2, <1>3
  <1>5. PICK items \in Nat, budget \in Nat : items = query.maxItems /\ budget = query.maxTokens
    BY DEF Askable
  <1>6. \A r \in R : /\ Tokens(query, candidates, Append(s, r)) \in Nat
                     /\ Tokens(query, candidates, Append(t, r)) \in Nat
                     /\ Tokens(query, candidates, Append(s, r)) <= Tokens(query, candidates, Append(t, r))
    <2>1. query.size \in Nat /\ DOMAIN candidates = 1 .. n /\ Sized(R)
      BY DEF Askable
    <2> QED
      BY <1>1, <1>2, <1>3, <2>1, TokensGrow
  <1>7. \A j \in 1 .. k : candidates[j] \in R
    BY DEF Askable
  <1>8. CASE Len(t) <= items /\ Tokens(query, candidates, t) <= budget
    <2>1. Tried(query, candidates, k, s) = t
      BY <1>1, <1>2, <1>5, <1>8 DEF Tried
    <2>2. Len(t) <= query.maxItems /\ Tokens(query, candidates, t) <= query.maxTokens
      BY <1>5, <1>8
    <2>3. ASSUME NEW i \in 1 .. Len(t) PROVE \E j \in 1 .. k : t[i] = candidates[j]
      <3>1. CASE i = m + 1
        BY <1>1, <1>4, <3>1
      <3>2. CASE i # m + 1
        <4>1. i \in 1 .. Len(s) /\ t[i] = s[i]
          BY <1>3, <1>4, <3>2
        <4>2. PICK j \in 1 .. k - 1 : s[i] = candidates[j]
          BY <4>1 DEF Chosen
        <4> QED
          BY <4>1, <4>2
      <3> QED
        BY <3>1, <3>2
    <2>4. ASSUME NEW i \in 1 .. m PROVE t[i] # x
      <3>1. i \in 1 .. Len(s) /\ t[i] = s[i]
        BY <1>3, <1>4
      <3>2. PICK j \in 1 .. k - 1 : s[i] = candidates[j]
        BY <3>1 DEF Chosen
      <3>3. j \in 1 .. n /\ j # k
        OBVIOUS
      <3>4. candidates[j] # candidates[k]
        BY <3>3 DEF Askable
      <3> QED
        BY <1>1, <3>1, <3>2, <3>4
    <2>5. ASSUME NEW i \in 1 .. Len(t), NEW j \in 1 .. Len(t), t[i] = t[j] PROVE i = j
      <3>1. (i \in 1 .. m \/ i = m + 1) /\ (j \in 1 .. m \/ j = m + 1)
        BY <1>4
      <3>2. CASE i \in 1 .. m /\ j \in 1 .. m
        BY <1>3, <1>4, <2>5, <3>2 DEF Chosen
      <3>3. CASE ~(i \in 1 .. m /\ j \in 1 .. m)
        BY <1>4, <2>4, <2>5, <3>1, <3>3
      <3> QED
        BY <3>2, <3>3
    <2>6. ASSUME NEW j \in 1 .. k
          PROVE  (\E i \in 1 .. Len(t) : t[i] = candidates[j]) \/ LeftOut(query, candidates, t, j)
      <3>1. CASE j = k
        BY <1>1, <1>4, <3>1
      <3>2. CASE j # k
        <4>1. j \in 1 .. k - 1
          BY <3>2
        <4>2. CASE \E i \in 1 .. Len(s) : s[i] = candidates[j]
          <5>1. PICK i \in 1 .. Len(s) : s[i] = candidates[j]
            BY <4>2
          <5>2. i \in 1 .. Len(t) /\ t[i] = candidates[j]
            BY <1>3, <1>4, <5>1
          <5> QED
            BY <5>2
        <4>3. CASE LeftOut(query, candidates, s, j)
          <5>1. Len(s) # query.maxItems
            BY <1>3, <1>4, <1>5, <1>8
          <5>2. Tokens(query, candidates, Append(s, candidates[j])) > query.maxTokens
            BY <4>3, <5>1 DEF LeftOut
          <5>3. Tokens(query, candidates, Append(t, candidates[j])) > query.maxTokens
            BY <1>5, <1>6, <1>7, <5>2
          <5> QED
            BY <5>3 DEF LeftOut
        <4> QED
          BY <4>1, <4>2, <4>3 DEF Chosen
      <3> QED
        BY <3>1, <3>2
    <2>7. Chosen(query, candidates, R, k, t)
      BY <1>4, <2>2, <2>3, <2>5, <2>6 DEF Chosen
    <2> QED
      BY <2>1, <2>7
  <1>9. CASE ~(Len(t) <= items /\ Tokens(query, candidates, t) <= budget)
    <2>1. Tried(query, candidates, k, s) = s
      BY <1>1, <1>2, <1>5, <1>9 DEF Tried
    <2>2. LeftOut(query, candidates, s, k)
      <3>1. Len(s) <= query.maxItems
        BY DEF Chosen
      <3>2. CASE ~(Len(t) <= items)
        BY <1>3, <1>4, <1>5, <3>1, <3>2 DEF LeftOut
      <3>3. CASE ~(Tokens(query, candidates, t) <= budget)
        <4>1. Tokens(query, candidates, t) \in Nat
          BY <1>1, <1>2, <1>6
        <4> QED
          BY <1>1, <1>2, <1>5, <3>3, <4>1 DEF LeftOut
      <3> QED
        BY <1>9, <3>2, <3>3
    <2>3. ASSUME NEW j \in 1 .. k
          PROVE  (\E i \in 1 .. Len(s) : s[i] = candidates[j]) \/ LeftOut(query, candidates, s, j)
      <3>1. j = k \/ j \in 1 .. k - 1
        OBVIOUS
      <3> QED
        BY <2>2, <3>1 DEF Chosen
    <2>4. \A i \in 1 .. Len(s) : \E j \in 1 .. k : s[i] = candidates[j]
      <3>1. \A j \in 1 .. k - 1 : j \in 1 .. k
        OBVIOUS
      <3> QED
        BY <3>1 DEF Chosen
    <2>5. Chosen(query, candidates, R, k, s)
      BY <2>3, <2>4 DEF Chosen
    <2> QED
      BY <2>1, <2>5
  <1> QED
    BY <1>8, <1>9

\* retrieve: when all candidates have been tried.
LEMMA SelectionChosen ==
  ASSUME NEW query, NEW candidates, NEW R, NEW n \in Nat, Askable(query, candidates, R, n),
         Tokens(query, candidates, <<>>) <= query.maxTokens
  PROVE  Chosen(query, candidates, R, n, Selection(query, candidates))
  <1>1. PICK D : D = Seq(R)
    OBVIOUS
  <1>2. PICK G : G = [m \in 1 .. n |-> [s \in D |-> Tried(query, candidates, m, s)]]
    OBVIOUS
  <1>3. \A m \in 1 .. n : candidates[m] \in R
    BY DEF Askable
  <1>4. ASSUME NEW m \in 1 .. n, NEW s \in D PROVE Tried(query, candidates, m, s) \in D
    BY <1>1, <1>3 DEF Tried
  <1>5. G \in [1 .. n -> [D -> D]]
    BY <1>2, <1>4
  <1>6. n = Len(candidates)
    BY DEF Askable
  <1> DEFINE Selects(f) ==
                f = [m \in 0 .. n |-> IF m = 0 THEN <<>> ELSE Tried(query, candidates, m, f[m - 1])]
  <1>7. \E f : Selects(f)
    <2>1. <<>> \in D
      BY <1>1
    <2>2. PICK f \in [0 .. n -> D] : f[0] = <<>> /\ \A m \in 1 .. n : f[m] = G[m][f[m - 1]]
      <3>1. \E f : Steps(f, G, <<>>, D, n)
        BY <1>5, <2>1, StepsExist
      <3> QED
        BY <3>1 DEF Steps
    <2>3. ASSUME NEW m \in 0 .. n
          PROVE  f[m] = IF m = 0 THEN <<>> ELSE Tried(query, candidates, m, f[m - 1])
      <3>1. CASE m = 0
        BY <2>2, <3>1
      <3>2. CASE m # 0
        <4>1. m \in 1 .. n /\ f[m - 1] \in D
          BY <2>2, <3>2
        <4> QED
          BY <1>2, <2>2, <3>2, <4>1
      <3> QED
        BY <3>1, <3>2
    <2>4. Selects(f)
      BY <2>2, <2>3
    <2> QED
      BY <2>4
  <1>8. PICK f : f = (CHOOSE g : Selects(g))
    OBVIOUS
  <1>9. Selection(query, candidates) = f[n]
    BY <1>6, <1>8, Zenon DEF Selection, Tried
  <1>10. Selects(f)
    BY <1>7, <1>8
  <1>11. f[0] = <<>>
    BY <1>10
  <1>12. ASSUME NEW m \in 1 .. n PROVE f[m] = Tried(query, candidates, m, f[m - 1])
    <2>1. m \in 0 .. n /\ m # 0
      OBVIOUS
    <2> QED
      BY <1>10, <2>1
  <1> HIDE DEF Selects
  <1> DEFINE Held == {m \in Nat : m <= n => Chosen(query, candidates, R, m, f[m])}
  <1>13. 0 \in Held
    <2>1. Chosen(query, candidates, R, 0, <<>>)
      <3>1. <<>> \in Seq(R) /\ Len(<<>>) = 0 /\ 0 <= query.maxItems
        BY DEF Askable
      <3> QED
        BY <3>1 DEF Chosen
    <2> QED
      BY <1>11, <2>1
  <1>14. ASSUME NEW m \in Nat, m \in Held PROVE m + 1 \in Held
    <2> SUFFICES ASSUME m + 1 <= n PROVE Chosen(query, candidates, R, m + 1, f[m + 1])
      OBVIOUS
    <2>1. PICK k \in 1 .. n : k = m + 1 /\ k - 1 = m
      OBVIOUS
    <2>2. Chosen(query, candidates, R, k - 1, f[k - 1])
      BY <1>14, <2>1
    <2>3. Chosen(query, candidates, R, k, Tried(query, candidates, k, f[k - 1]))
      BY <2>2, TriedChosen
    <2> QED
      BY <1>12, <2>1, <2>3
  <1> HIDE DEF Held
  <1>15. Nat \subseteq Held
    BY <1>13, <1>14, SetInduction
  <1>16. n \in Held
    BY <1>15
  <1> QED
    BY <1>9, <1>16 DEF Held
-----------------------------------------------------------------------------
(* Packs *)

\* The records of a catalog.
CatalogOK(records) ==
    records \in SUBSET RecordInputs /\ IsFiniteSet(records) /\ \A r \in records : RecordValid(r)

\* A query that the dataclass and the loader of a file accept.
QueryOK(query) == query.size \in Nat /\ QueryParses(query)

\* Retrieve can answer the query from the catalog.
Answers(records, query) == CatalogOK(records) /\ QueryOK(query) /\ EnvelopeFits(records, query)

\* The candidates are as many as their digests, and that is all that a size depends on.
LEMMA DigestsCost ==
  ASSUME NEW query, NEW candidates, NEW s
  PROVE  /\ PackSize(query, Hashes(candidates), s) = PackSize(query, candidates, s)
         /\ Tokens(query, Hashes(candidates), s) = Tokens(query, candidates, s)
  <1>1. DOMAIN Hashes(candidates) = DOMAIN candidates
    BY DEF Hashes
  <1>2. PackSize(query, Hashes(candidates), s) = PackSize(query, candidates, s)
    BY <1>1 DEF PackSize
  <1> QED
    BY <1>2 DEF Tokens

\* What retrieve returns: the fields of the pack, its n candidates c, and its records s.
IsAnswer(records, query, n, c, s) ==
    /\ n \in Nat /\ c = Candidates(records, query) /\ s = Selection(query, c)
    /\ Askable(query, c, EligibleIn(records, query), n)
    /\ \A r \in EligibleIn(records, query) : \E i \in 1 .. n : c[i] = r
    /\ Chosen(query, c, EligibleIn(records, query), n, s)
    /\ Retrieved(records, query) =
          [query |-> query, querySha |-> query, candidates |-> Hashes(c), records |-> s,
           tokens |-> Tokens(query, c, s)]

\* retrieve: the answer to any query.
LEMMA RetrieveAnswers ==
  ASSUME NEW records, NEW query, Answers(records, query)
  PROVE  \E n, c, s : IsAnswer(records, query, n, c, s)
  <1>1. CatalogOK(records) /\ QueryOK(query) /\ EnvelopeFits(records, query)
    BY DEF Answers
  <1>2. PICK E, c : E = EligibleIn(records, query) /\ c = Candidates(records, query)
    OBVIOUS
  <1>3. PICK n \in Nat : /\ c \in [1 .. n -> E] /\ \A i, j \in 1 .. n : c[i] = c[j] => i = j
                         /\ \A r \in E : \E i \in 1 .. n : c[i] = r
    BY <1>1, <1>2, CandidatesComplete DEF CatalogOK
  <1>4. Sized(E)
    <2>1. E \in SUBSET RecordInputs
      BY <1>1, <1>2 DEF EligibleIn, CatalogOK
    <2> QED
      BY <2>1, ExperienceAssumption DEF Sized
  <1>5. query.size \in Nat /\ query.maxItems \in Nat /\ query.maxTokens \in Nat
    <2>1. LeastBudget \in Nat /\ LargestBudget \in Nat
      BY DEF LeastBudget, LargestBudget
    <2>2. QueryValid(query) /\ query.size \in Nat
      BY <1>1 DEF QueryOK, QueryParses
    <2>3. query.maxItems \in 1 .. 64 /\ query.maxTokens \in LeastBudget .. LargestBudget
      BY <2>2 DEF QueryValid
    <2>4. \A k \in LeastBudget .. LargestBudget : k \in Nat
      BY <2>1
    <2>5. \A k \in 1 .. 64 : k \in Nat
      OBVIOUS
    <2> QED
      BY <2>2, <2>3, <2>4, <2>5, Zenon
  <1>6. Askable(query, c, E, n)
    BY <1>3, <1>4, <1>5 DEF Askable
  <1>7. Tokens(query, c, <<>>) <= query.maxTokens
    BY <1>1, <1>2 DEF EnvelopeFits
  <1>8. PICK s : s = Selection(query, c)
    OBVIOUS
  <1>9. Chosen(query, c, E, n, s)
    BY <1>6, <1>7, <1>8, SelectionChosen
  <1>10. Retrieved(records, query) =
          [query |-> query, querySha |-> query, candidates |-> Hashes(c), records |-> s,
           tokens |-> Tokens(query, c, s)]
    BY <1>2, <1>8 DEF Retrieved
  <1>11. IsAnswer(records, query, n, c, s)
    BY <1>2, <1>3, <1>6, <1>8, <1>9, <1>10 DEF IsAnswer
  <1> QED
    BY <1>11

\* The limits a pack of records keeps: what is in it may be shown, it costs no
\* more than the budget, and what is not in it would not have fitted.
Within(records, pack) ==
    LET q == pack.query IN
    /\ \A i \in DOMAIN pack.records :
           LET record == pack.records[i] IN
           /\ q.role \in record.applies.roles /\ record.rights.scope = q.scope
           /\ q.endpoint = "approved_external" => record.rights.reviewed
    /\ PackSize(q, pack.candidates, pack.records) + Digits(pack.tokens) <= 4 * q.maxTokens
    /\ \A r \in records : Eligible(r, q) /\ r \notin Range(pack.records) =>
           \/ Len(pack.records) = q.maxItems
           \/ Tokens(q, pack.candidates, Append(pack.records, r)) > q.maxTokens

\* retrieve stays within them.
LEMMA RetrievedWithin ==
  ASSUME NEW records, NEW query, Answers(records, query)
  PROVE  Within(records, Retrieved(records, query))
  <1>1. PICK n, c, s : IsAnswer(records, query, n, c, s)
    BY RetrieveAnswers
  <1>2. PICK E : E = EligibleIn(records, query)
    OBVIOUS
  <1>3. n \in Nat /\ Askable(query, c, E, n) /\ Chosen(query, c, E, n, s)
    BY <1>1, <1>2 DEF IsAnswer
  <1>4. PICK pack : pack = Retrieved(records, query)
    OBVIOUS
  <1>5. /\ pack.query = query /\ pack.candidates = Hashes(c) /\ pack.records = s
        /\ pack.tokens = Tokens(query, c, s)
    BY <1>1, <1>4 DEF IsAnswer
  <1>6. s \in Seq(E) /\ DOMAIN s = 1 .. Len(s)
    BY <1>3 DEF Chosen
  <1>7. ASSUME NEW i \in DOMAIN s
        PROVE  /\ query.role \in s[i].applies.roles /\ s[i].rights.scope = query.scope
               /\ query.endpoint = "approved_external" => s[i].rights.reviewed
    <2>1. PICK r \in E : r = s[i]
      BY <1>6
    <2>2. r \in records /\ Eligible(r, query)
      BY <1>2 DEF EligibleIn
    <2>3. RightsValid(r.rights)
      BY <2>2 DEF Answers, CatalogOK, RecordValid
    <2>4. query.role \in r.applies.roles /\ r.rights.scope = query.scope /\ query.endpoint \in r.rights.endpoints
      BY <2>2 DEF Eligible
    <2>5. query.endpoint = "approved_external" => r.rights.reviewed
      BY <2>3, <2>4 DEF RightsValid
    <2> QED
      BY <2>1, <2>4, <2>5
  <1>8. PackSize(query, Hashes(c), s) + Digits(Tokens(query, c, s)) <= 4 * query.maxTokens
    <2>1. PICK b \in Nat : b = query.maxTokens
      BY <1>3 DEF Askable
    <2>2. DOMAIN c = 1 .. n /\ query.size \in Nat /\ Sized(E)
      BY <1>3 DEF Askable
    <2>3. PICK size \in Nat : size = PackSize(query, c, s)
      BY <1>3, <1>6, <2>2, PackSizes
    <2>4. PICK e \in Nat : e = EstimateTokens(size) /\ size + Digits(e) <= 4 * e
      BY EstimateCovers
    <2>5. e = Tokens(query, c, s) /\ e <= b
      BY <1>3, <2>1, <2>3, <2>4 DEF Tokens, Chosen
    <2>6. PICK d \in Nat : d = Digits(e)
      BY DigitsCounted
    <2>7. size + d <= 4 * b
      BY <2>4, <2>5, <2>6
    <2> QED
      BY <2>1, <2>3, <2>5, <2>6, <2>7, DigestsCost
  <1>9. ASSUME NEW r \in records, Eligible(r, query), r \notin Range(s)
        PROVE  Len(s) = query.maxItems \/ Tokens(query, Hashes(c), Append(s, r)) > query.maxTokens
    <2>1. r \in E
      BY <1>2, <1>9 DEF EligibleIn
    <2>2. PICK j \in 1 .. n : c[j] = r
      BY <1>1, <1>2, <2>1 DEF IsAnswer
    <2>3. ~ \E i \in 1 .. Len(s) : s[i] = c[j]
      BY <1>6, <1>9, <2>2 DEF Range
    <2>4. LeftOut(query, c, s, j)
      BY <1>3, <2>3 DEF Chosen
    <2> QED
      BY <2>2, <2>4, DigestsCost DEF LeftOut
  <1> QED
    BY <1>4, <1>5, <1>7, <1>8, <1>9 DEF Within

\* A pack with its fields.
PackOf(query, sha, candidates, s, tokens) ==
    [query |-> query, querySha |-> sha, candidates |-> candidates, records |-> s, tokens |-> tokens]

\* render loses nothing: a pack can be read back.
LEMMA ParsedRendered ==
  ASSUME NEW query, NEW sha, NEW candidates, NEW S, NEW s \in Seq(S), NEW tokens
  PROVE  Parsed(Rendered(PackOf(query, sha, candidates, s, tokens))) = PackOf(query, sha, candidates, s, tokens)
  <1>1. PICK pack : pack = PackOf(query, sha, candidates, s, tokens)
    OBVIOUS
  <1>2. /\ pack.query = query /\ pack.querySha = sha /\ pack.candidates = candidates
        /\ pack.records = s /\ pack.tokens = tokens
    BY <1>1 DEF PackOf
  <1>3. PICK entries : entries = [i \in DOMAIN s |-> [record |-> s[i], sha |-> s[i].hash]]
    OBVIOUS
  <1>4. PICK content : content = Rendered(pack)
    OBVIOUS
  <1>5. /\ content.query = query /\ content.querySha = sha /\ content.candidates = candidates
        /\ content.records = entries /\ content.tokens = tokens
    BY <1>2, <1>3, <1>4 DEF Rendered
  <1>6. [i \in DOMAIN entries |-> entries[i].record] = s
    <2>1. DOMAIN entries = DOMAIN s /\ \A i \in DOMAIN s : entries[i].record = s[i]
      BY <1>3
    <2>2. s = [i \in DOMAIN s |-> s[i]]
      OBVIOUS
    <2> QED
      BY <2>1, <2>2
  <1>7. Parsed(content) = PackOf(query, sha, candidates, s, tokens)
    BY <1>5, <1>6 DEF Parsed, PackOf
  <1> QED
    BY <1>1, <1>4, <1>7

\* A digest stands for one record.
LEMMA DigestTells ==
  ASSUME NEW r \in RecordInputs, NEW s \in RecordInputs, r.hash = s.hash
  PROVE  r = s
  BY ExperienceAssumption

\* retrieve never builds a pack that its own validation or a later load refuses.
LEMMA RetrievedLoads ==
  ASSUME NEW records, NEW query, Answers(records, query)
  PROVE  FromBytes(Rendered(Retrieved(records, query)))
  <1>1. PICK n, c, s : IsAnswer(records, query, n, c, s)
    BY RetrieveAnswers
  <1>2. PICK E : E = EligibleIn(records, query)
    OBVIOUS
  <1>3. n \in Nat /\ Askable(query, c, E, n) /\ Chosen(query, c, E, n, s)
    BY <1>1, <1>2 DEF IsAnswer
  <1>4. PICK pack : pack = Retrieved(records, query)
    OBVIOUS
  <1>5. PICK tokens : tokens = Tokens(query, c, s)
    OBVIOUS
  <1>6. pack = PackOf(query, query, Hashes(c), s, tokens)
    BY <1>1, <1>4, <1>5 DEF IsAnswer, PackOf
  <1>7. /\ pack.query = query /\ pack.querySha = query /\ pack.candidates = Hashes(c)
        /\ pack.records = s /\ pack.tokens = tokens
    BY <1>6 DEF PackOf
  <1>8. s \in Seq(E) /\ DOMAIN s = 1 .. Len(s) /\ \A i \in DOMAIN s : s[i] \in E
    BY <1>3 DEF Chosen
  <1>9. E \in SUBSET RecordInputs /\ E \in SUBSET records /\ \A r \in E : RecordValid(r)
    BY <1>2 DEF EligibleIn, Answers, CatalogOK
  <1>10. c \in [1 .. n -> E] /\ DOMAIN c = 1 .. n /\ DOMAIN Hashes(c) = 1 .. n
    BY <1>3 DEF Askable, Hashes
  <1>11. PICK content : content = Rendered(pack)
    OBVIOUS
  <1>12. Parsed(content) = pack
    BY <1>6, <1>8, <1>11, ParsedRendered
  <1>13. PackValid(pack)
    <2>1. IsInjective(Hashes(c))
      <3> SUFFICES ASSUME NEW i \in 1 .. n, NEW j \in 1 .. n, Hashes(c)[i] = Hashes(c)[j] PROVE i = j
        BY <1>10 DEF IsInjective
      <3>1. c[i] \in RecordInputs /\ c[j] \in RecordInputs /\ c[i].hash = c[j].hash
        BY <1>9, <1>10 DEF Hashes
      <3>2. c[i] = c[j]
        BY <3>1, DigestTells
      <3> QED
        BY <1>3, <3>2 DEF Askable
    <2>2. IsInjective(Hashes(s))
      <3>1. DOMAIN Hashes(s) = 1 .. Len(s)
        BY <1>8 DEF Hashes
      <3> SUFFICES ASSUME NEW i \in 1 .. Len(s), NEW j \in 1 .. Len(s), Hashes(s)[i] = Hashes(s)[j] PROVE i = j
        BY <3>1 DEF IsInjective
      <3>2. s[i] \in RecordInputs /\ s[j] \in RecordInputs /\ s[i].hash = s[j].hash
        BY <1>8, <1>9 DEF Hashes
      <3>3. s[i] = s[j]
        BY <3>2, DigestTells
      <3> QED
        BY <1>3, <3>3 DEF Chosen
    <2>3. ASSUME NEW i \in DOMAIN s PROVE s[i].hash \in Range(Hashes(c))
      <3>1. PICK j \in 1 .. n : s[i] = c[j]
        BY <1>3, <1>8 DEF Chosen
      <3>2. Hashes(c)[j] = s[i].hash
        BY <1>10, <3>1 DEF Hashes
      <3> QED
        BY <1>10, <3>2 DEF Range
    <2>4. tokens = Tokens(query, Hashes(c), s)
      BY <1>5, DigestsCost
    <2>5. Len(s) <= query.maxItems /\ tokens <= query.maxTokens
      BY <1>3, <1>5 DEF Chosen
    <2> QED
      BY <1>7, <2>1, <2>2, <2>3, <2>4, <2>5 DEF PackValid
  <1>14. PICK entries : entries = [i \in DOMAIN s |-> [record |-> s[i], sha |-> s[i].hash]]
    OBVIOUS
  <1>15. /\ content.canonical /\ content.untrusted /\ content.query = query
         /\ content.candidateSet = content.candidates /\ content.records = entries
    BY <1>7, <1>11, <1>14 DEF Rendered
  <1>16. QueryParses(content.query)
    BY <1>15 DEF Answers, QueryOK
  <1>17. ASSUME NEW i \in DOMAIN entries
         PROVE  RecordParses(entries[i].record) /\ entries[i].sha = entries[i].record.hash
    <2>1. PICK r \in E : entries[i].record = r /\ entries[i].sha = r.hash
      BY <1>8, <1>14
    <2>2. RecordParses(r)
      BY <1>9, ExperienceAssumption DEF RecordParses
    <2> QED
      BY <2>1, <2>2
  <1>18. FromBytes(content)
    BY <1>11, <1>12, <1>13, <1>15, <1>16, <1>17 DEF FromBytes
  <1> QED
    BY <1>4, <1>11, <1>18
-----------------------------------------------------------------------------
(* The experience packs that are kept *)

\* A pack that is kept is the answer of the catalog it was retrieved from or replayed on.
Origin(kept) ==
    /\ Answers(kept.from, kept.pack.query)
    /\ kept.pack = Retrieved(kept.from, kept.pack.query)

\* The file of a pack, whatever was done to it.
FileOK(content) ==
    /\ "query" \in DOMAIN content /\ "size" \in DOMAIN content.query
    /\ content.query.size \in Nat

\* The inductive invariant of the retrieval: catalogs hold valid records, and
\* a pack is what its catalog answers, be it retrieved or read from a file.
ExperienceInv ==
    /\ DOMAIN catalog = Readers
    /\ \A p \in Readers : catalog[p] # NoCatalog => CatalogOK(catalog[p])
    /\ \A kept \in packs \cup replays : Origin(kept)
    /\ packFile # NoCatalog => FileOK(packFile)

\* render tells packs apart.
LEMMA RenderedTells ==
  ASSUME NEW records, NEW query, Answers(records, query), NEW content,
         Rendered(Retrieved(records, query)) = Rendered(Parsed(content))
  PROVE  Parsed(content) = Retrieved(records, query)
  <1>1. PICK n, c, s : IsAnswer(records, query, n, c, s)
    BY RetrieveAnswers
  <1>2. PICK pack, tokens : pack = PackOf(query, query, Hashes(c), s, tokens) /\ pack = Retrieved(records, query)
    BY <1>1 DEF IsAnswer, PackOf
  <1>3. PICK S : s \in Seq(S)
    BY <1>1 DEF IsAnswer, Chosen
  <1>4. PICK f : f = [i \in DOMAIN content.records |-> content.records[i].record]
    OBVIOUS
  <1>5. PICK other : other = Parsed(content) /\ other =
          PackOf(content.query, content.querySha, content.candidates, f, content.tokens)
    BY <1>4 DEF Parsed, PackOf
  <1>6. /\ pack.query = query /\ pack.querySha = query /\ pack.candidates = Hashes(c)
        /\ pack.records = s /\ pack.tokens = tokens
    BY <1>2 DEF PackOf
  <1>7. /\ other.query = content.query /\ other.querySha = content.querySha
        /\ other.candidates = content.candidates /\ other.records = f /\ other.tokens = content.tokens
    BY <1>5 DEF PackOf
  <1>8. PICK a, b : /\ a = [i \in DOMAIN s |-> [record |-> s[i], sha |-> s[i].hash]]
                    /\ b = [i \in DOMAIN f |-> [record |-> f[i], sha |-> f[i].hash]]
    OBVIOUS
  <1>9. PICK u, v : u = Rendered(pack) /\ v = Rendered(other)
    OBVIOUS
  <1>10. u = v
    BY <1>2, <1>5, <1>9
  <1>11. u.query = query /\ u.querySha = query /\ u.candidates = Hashes(c) /\ u.tokens = tokens /\ u.records = a
    BY <1>6, <1>8, <1>9 DEF Rendered
  <1>12. /\ v.query = content.query /\ v.querySha = content.querySha /\ v.candidates = content.candidates
         /\ v.tokens = content.tokens /\ v.records = b
    BY <1>7, <1>8, <1>9 DEF Rendered
  <1>13. a = b
    BY <1>10, <1>11, <1>12
  <1>14. f = s
    <2>1. DOMAIN s = DOMAIN f
      BY <1>8, <1>13
    <2>2. ASSUME NEW i \in DOMAIN s PROVE f[i] = s[i]
      <3>1. a[i].record = s[i] /\ b[i].record = f[i]
        BY <1>8, <2>1
      <3> QED
        BY <1>13, <3>1
    <2>3. s = [i \in DOMAIN s |-> s[i]]
      BY <1>3
    <2>4. f = [i \in DOMAIN f |-> f[i]]
      BY <1>4
    <2> QED
      BY <2>1, <2>2, <2>3, <2>4
  <1>15. other = pack
    BY <1>2, <1>5, <1>10, <1>11, <1>12, <1>14
  <1> QED
    BY <1>2, <1>5, <1>15

\* No edit takes the query out of the file.
LEMMA EditsKeepQuery ==
  ASSUME NEW content, FileOK(content), NEW edited \in Edits(content)
  PROVE  FileOK(edited)
  <1> DEFINE elsewhere == [content.query EXCEPT !.endpoint = "approved_external"]
             Same(c) == /\ DOMAIN c = DOMAIN content
                        /\ c["query"] = content["query"] \/ c["query"] = elsewhere
             shorter == [content EXCEPT !.records = Front(@)]
             fewer == [shorter EXCEPT !.candidates = Hashes(Parsed(shorter).records), !.candidateSet = @]
             swapped(record, sha) == [content EXCEPT !.records[1] = [record |-> record, sha |-> sha]]
             settled(c) == [c EXCEPT !.candidateSet = c.candidates, !.querySha = c.query,
                                     !.tokens = Tokens(c.query, c.candidates, Parsed(c).records)]
             moved == [content EXCEPT !.query.endpoint = "approved_external"]
             more == [content EXCEPT !.tokens = @ + 1]
             loose == [content EXCEPT !.canonical = FALSE]
  <1>1. Edits(content) =
          {more, loose, moved, settled(moved)} \cup
          (IF content.records = <<>> THEN {}
           ELSE {shorter, settled(shorter), fewer, settled(fewer)} \cup
                UNION {{swapped(r, r.hash), settled(swapped(r, r.hash)), swapped(r, content.records[1].sha)} :
                           r \in RecordInputs})
    BY Zenon DEF Edits
  <1>2. \A c : Same(c) => FileOK(c)
    BY DEF FileOK
  <1>3. Same(moved)
    BY DEF FileOK
  <1>4. Same(shorter) /\ \A r, sha : Same(swapped(r, sha))
    BY DEF FileOK
  <1>5. Same(more) /\ Same(loose)
    BY DEF FileOK
  <1>6. \A c : Same(c) => Same(settled(c))
    BY DEF FileOK
  <1>7. Same(fewer)
    BY <1>4 DEF FileOK
  <1> HIDE DEF Same, more, loose, shorter, fewer, swapped, settled, moved, elsewhere
  <1>8. Same(edited)
    <2>1. CASE edited \in {more, loose, moved, settled(moved)}
      BY <1>3, <1>5, <1>6, <2>1
    <2>2. CASE edited \in {shorter, settled(shorter), fewer, settled(fewer)}
      BY <1>4, <1>6, <1>7, <2>2
    <2>3. ASSUME NEW r \in RecordInputs,
                 edited \in {swapped(r, r.hash), settled(swapped(r, r.hash)), swapped(r, content.records[1].sha)}
          PROVE  Same(edited)
      BY <1>4, <1>6, <2>3
    <2> QED
      BY <1>1, <2>1, <2>2, <2>3
  <1> QED
    BY <1>2, <1>8

\* The invariant is inductive.
LEMMA ExperienceInductive ==
  /\ ExperienceInit => ExperienceInv
  /\ ExperienceInv /\ [ExperienceNext]_experienceVars => ExperienceInv'
  <1>1. ExperienceInit => ExperienceInv
    <2> SUFFICES ASSUME ExperienceInit PROVE ExperienceInv
      OBVIOUS
    <2>1. DOMAIN catalog = Readers /\ \A p \in Readers : catalog[p] = NoCatalog
      BY DEF ExperienceInit
    <2>2. packs \cup replays = {} /\ packFile = NoCatalog
      BY DEF ExperienceInit
    <2> QED
      BY <2>1, <2>2 DEF ExperienceInv
  <1>2. ASSUME ExperienceInv, [ExperienceNext]_experienceVars PROVE ExperienceInv'
    <2>0. /\ DOMAIN catalog = Readers
          /\ \A p \in Readers : catalog[p] # NoCatalog => CatalogOK(catalog[p])
          /\ \A kept \in packs \cup replays : Origin(kept)
          /\ packFile # NoCatalog => FileOK(packFile)
      BY <1>2 DEF ExperienceInv
    <2>1. ASSUME NEW p \in Readers, NEW records \in SUBSET RecordInputs, OpenCatalog(p, records)
          PROVE  ExperienceInv'
      <3>1. CatalogOK(records)
        BY <2>1 DEF OpenCatalog, CatalogOK
      <3>2. catalog' = [catalog EXCEPT ![p] = records] /\ packFile' = packFile /\ packs' = packs /\ replays' = replays
        BY <2>1 DEF OpenCatalog
      <3>3. DOMAIN catalog' = Readers /\ \A q \in Readers : catalog'[q] = IF q = p THEN records ELSE catalog[q]
        BY <2>0, <3>2
      <3>4. \A q \in Readers : catalog'[q] # NoCatalog => CatalogOK(catalog'[q])
        BY <2>0, <3>1, <3>3
      <3>5. \A kept \in packs' \cup replays' : Origin(kept)
        BY <2>0, <3>2
      <3>6. packFile' # NoCatalog => FileOK(packFile')
        BY <2>0, <3>2
      <3> QED
        BY <3>3, <3>4, <3>5, <3>6 DEF ExperienceInv
    <2>2. ASSUME NEW p \in Readers, CloseCatalog(p) PROVE ExperienceInv'
      <3>1. /\ catalog' = [catalog EXCEPT ![p] = NoCatalog]
            /\ packFile' = packFile /\ packs' = packs /\ replays' = replays
        BY <2>2 DEF CloseCatalog
      <3>2. DOMAIN catalog' = Readers /\ \A q \in Readers : catalog'[q] = IF q = p THEN NoCatalog ELSE catalog[q]
        BY <2>0, <3>1
      <3>3. \A q \in Readers : catalog'[q] # NoCatalog => CatalogOK(catalog'[q])
        BY <2>0, <3>2
      <3>4. \A kept \in packs' \cup replays' : Origin(kept)
        BY <2>0, <3>1
      <3>5. packFile' # NoCatalog => FileOK(packFile')
        BY <2>0, <3>1
      <3> QED
        BY <3>2, <3>3, <3>4, <3>5 DEF ExperienceInv
    <2>3. ASSUME NEW p \in Readers, NEW query \in QueryInputs, Retrieve(p, query) PROVE ExperienceInv'
      <3>1. PICK records, pack : records = catalog[p] /\ pack = Retrieved(records, query)
        OBVIOUS
      <3>2. /\ records # NoCatalog /\ QueryValid(query) /\ EnvelopeFits(records, query)
            /\ packs' = packs \cup {[from |-> records, pack |-> pack]} /\ packFile' = Rendered(pack)
            /\ catalog' = catalog /\ replays' = replays
        BY <2>3, <3>1 DEF Retrieve
      <3>3. Answers(records, query)
        <4>1. QueryOK(query)
          BY <3>2, ExperienceAssumption DEF QueryOK, QueryParses
        <4>2. CatalogOK(records)
          BY <2>0, <3>1, <3>2
        <4> QED
          BY <3>2, <4>1, <4>2 DEF Answers
      <3>4. pack.query = query
        BY <3>1 DEF Retrieved
      <3>5. PICK new : new = [from |-> records, pack |-> pack]
        OBVIOUS
      <3>6. new.from = records /\ new.pack = pack
        BY <3>5
      <3>7. Origin(new)
        BY <3>1, <3>3, <3>4, <3>6 DEF Origin
      <3>8. \A kept \in packs' \cup replays' : Origin(kept)
        BY <2>0, <3>2, <3>5, <3>7
      <3>9. FileOK(packFile')
        <4>1. PICK content : content = Rendered(pack)
          OBVIOUS
        <4>2. "query" \in DOMAIN content /\ content.query = query
          BY <3>4, <4>1 DEF Rendered
        <4>3. "size" \in DOMAIN query /\ query.size \in Nat
          BY ExperienceAssumption
        <4> QED
          BY <3>2, <4>1, <4>2, <4>3 DEF FileOK
      <3> QED
        BY <2>0, <3>2, <3>8, <3>9 DEF ExperienceInv
    <2>4. ASSUME NEW p \in Readers, Replay(p) PROVE ExperienceInv'
      <3>1. PICK records, query : records = catalog[p] /\ query = packFile.query
        OBVIOUS
      <3>2. PICK pack, read : pack = Retrieved(records, query) /\ read = Parsed(packFile)
        OBVIOUS
      <3>3. /\ records # NoCatalog /\ packFile # NoCatalog /\ FromBytes(packFile)
            /\ EnvelopeFits(records, query) /\ Rendered(pack) = Rendered(read)
            /\ replays' = replays \cup {[from |-> records, pack |-> read]}
            /\ catalog' = catalog /\ packs' = packs /\ packFile' = packFile
        BY <2>4, <3>1, <3>2 DEF Replay
      <3>4. Answers(records, query)
        <4>1. QueryParses(query)
          BY <3>1, <3>3 DEF FromBytes
        <4>2. query.size \in Nat
          BY <2>0, <3>1, <3>3 DEF FileOK
        <4>3. CatalogOK(records)
          BY <2>0, <3>1, <3>3
        <4> QED
          BY <3>3, <4>1, <4>2, <4>3 DEF Answers, QueryOK
      <3>5. read = pack
        BY <3>2, <3>3, <3>4, RenderedTells
      <3>6. pack.query = query
        BY <3>2 DEF Retrieved
      <3>7. PICK new : new = [from |-> records, pack |-> read]
        OBVIOUS
      <3>8. new.from = records /\ new.pack = pack
        BY <3>5, <3>7
      <3>9. Origin(new)
        BY <3>2, <3>4, <3>6, <3>8 DEF Origin
      <3>10. \A kept \in packs' \cup replays' : Origin(kept)
        BY <2>0, <3>3, <3>7, <3>9
      <3> QED
        BY <2>0, <3>3, <3>10 DEF ExperienceInv
    <2>5. ASSUME packFile # NoCatalog, NEW content \in Edits(packFile), EditPack(content) PROVE ExperienceInv'
      <3>1. packFile' = content /\ catalog' = catalog /\ packs' = packs /\ replays' = replays
        BY <2>5 DEF EditPack
      <3>2. FileOK(content)
        BY <2>0, <2>5, EditsKeepQuery
      <3> QED
        BY <2>0, <3>1, <3>2 DEF ExperienceInv
    <2>6. CASE UNCHANGED experienceVars
      <3>1. packFile' = packFile /\ catalog' = catalog /\ packs' = packs /\ replays' = replays
        BY <2>6 DEF experienceVars
      <3> QED
        BY <2>0, <3>1 DEF ExperienceInv
    <2> QED
      BY <1>2, <2>1, <2>2, <2>3, <2>4, <2>5, <2>6 DEF ExperienceNext
  <1> QED
    BY <1>1, <1>2

\* Two catalogs that give the same digests to a query have the same records for it.
LEMMA SameCandidates ==
  ASSUME NEW a, NEW b, NEW query, Answers(a, query), Answers(b, query),
         Retrieved(a, query) = Retrieved(b, query)
  PROVE  \A r : r \in EligibleIn(a, query) => r \in EligibleIn(b, query)
  <1>1. PICK m, c, s : IsAnswer(a, query, m, c, s)
    BY RetrieveAnswers
  <1>2. PICK n, d, t : IsAnswer(b, query, n, d, t)
    BY RetrieveAnswers
  <1>3. Hashes(c) = Hashes(d)
    <2>1. Retrieved(a, query).candidates = Hashes(c)
      BY <1>1 DEF IsAnswer
    <2>2. Retrieved(b, query).candidates = Hashes(d)
      BY <1>2 DEF IsAnswer
    <2> QED
      BY <2>1, <2>2
  <1> SUFFICES ASSUME NEW r \in EligibleIn(a, query) PROVE r \in EligibleIn(b, query)
    OBVIOUS
  <1>4. DOMAIN c = 1 .. m /\ DOMAIN d = 1 .. n /\ d \in [1 .. n -> EligibleIn(b, query)]
    BY <1>1, <1>2 DEF IsAnswer, Askable
  <1>5. PICK i \in 1 .. m : c[i] = r
    BY <1>1 DEF IsAnswer
  <1>6. i \in 1 .. n /\ c[i].hash = d[i].hash
    <2>1. DOMAIN Hashes(c) = 1 .. m /\ DOMAIN Hashes(d) = 1 .. n
      BY <1>4 DEF Hashes
    <2>2. i \in 1 .. n
      BY <1>3, <2>1
    <2>3. Hashes(c)[i] = c[i].hash /\ Hashes(d)[i] = d[i].hash
      BY <1>4, <2>2 DEF Hashes
    <2> QED
      BY <1>3, <2>2, <2>3
  <1>7. d[i] \in EligibleIn(b, query)
    BY <1>4, <1>6
  <1>8. r \in RecordInputs /\ d[i] \in RecordInputs
    BY <1>7 DEF EligibleIn, Answers, CatalogOK
  <1>9. r = d[i]
    BY <1>5, <1>6, <1>8, DigestTells
  <1> QED
    BY <1>7, <1>9

\* The invariant says what may be shown.
LEMMA ExperienceInvSound == ExperienceInv => ExperienceSound
  <1> SUFFICES ASSUME ExperienceInv PROVE ExperienceSound
    OBVIOUS
  <1>1. \A kept \in packs \cup replays : Origin(kept)
    BY DEF ExperienceInv
  <1>2. ASSUME NEW kept \in packs \cup replays PROVE Within(kept.from, kept.pack)
    <2>1. Origin(kept)
      BY <1>1
    <2> QED
      BY <2>1, RetrievedWithin DEF Origin
  <1>3. ASSUME NEW kept \in packs, NEW replay \in replays, kept.pack = replay.pack
        PROVE  {r \in replay.from : Eligible(r, kept.pack.query)} =
               {r \in kept.from : Eligible(r, kept.pack.query)}
    <2>1. PICK a, b, query : a = kept.from /\ b = replay.from /\ query = kept.pack.query
      OBVIOUS
    <2>2. Origin(kept) /\ Origin(replay)
      BY <1>1
    <2>3. Answers(a, query) /\ Answers(b, query) /\ Retrieved(a, query) = Retrieved(b, query)
      BY <1>3, <2>1, <2>2 DEF Origin
    <2>4. EligibleIn(a, query) = EligibleIn(b, query)
      <3>1. \A r : r \in EligibleIn(a, query) => r \in EligibleIn(b, query)
        BY <2>3, SameCandidates
      <3>2. \A r : r \in EligibleIn(b, query) => r \in EligibleIn(a, query)
        BY <2>3, SameCandidates
      <3> QED
        BY <3>1, <3>2
    <2> QED
      BY <2>1, <2>4 DEF EligibleIn
  <1>4. ASSUME NEW p \in Readers, NEW query \in QueryInputs,
               catalog[p] # NoCatalog, QueryValid(query), EnvelopeFits(catalog[p], query)
        PROVE  FromBytes(Rendered(Retrieved(catalog[p], query)))
    <2>1. QueryOK(query)
      BY <1>4, ExperienceAssumption DEF QueryOK, QueryParses
    <2>2. CatalogOK(catalog[p])
      BY <1>4 DEF ExperienceInv
    <2>3. Answers(catalog[p], query)
      BY <1>4, <2>1, <2>2 DEF Answers
    <2> QED
      BY <2>3, RetrievedLoads
  <1> QED
    BY <1>2, <1>3, <1>4 DEF ExperienceSound, Within

\* ExperienceRetriever: for any records, queries and readers, and whatever is
\* done to the file of a pack, a pack retrieved or replayed shows only what may
\* be shown for its query, costs no more than its budget with the digits of
\* its own estimate counted in, and leaves out nothing that would still have
\* fitted; a replay is accepted only where the same records are on offer, and
\* retrieve builds no pack that a later load refuses.
THEOREM ExperienceAlwaysSound == ExperienceSpec => []ExperienceSound
  <1>1. ExperienceSpec => []ExperienceInv
    BY ExperienceInductive, PTL DEF ExperienceSpec
  <1> QED
    BY <1>1, ExperienceInvSound, PTL
=============================================================================
