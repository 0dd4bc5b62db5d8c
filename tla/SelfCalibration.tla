--------------------------- MODULE SelfCalibration --------------------------
(***************************************************************************)
(* Self-calibration rounds (Builder/src/autolean_builder/                  *)
(* self_calibration.py): a file records candidate boundaries for a pilot   *)
(* target, what automated reviewers in different roles reported on them    *)
(* and how a trial compilation in the Library went.  The file and the      *)
(* Library are edited by others; load_self_calibration_round checks all of *)
(* the file, then reads the Library piece by piece and asks external       *)
(* authorities about the receipts:                                         *)
(*                                                                         *)
(*   file and bindings | identity receipts | paths of the input tree, then *)
(*   its files, one by one | Lake manifest | toolchain | target modules    *)
(*   | packet and receipt of a partial compilation, twice | authority      *)
(*                                                                         *)
(* A record stands for its hash; a seal is the record a checksum was       *)
(* computed from.                                                          *)
(***************************************************************************)
EXTENDS StatementBuilder

CONSTANTS
    Rounds,      \* contents of the round file, sound or not
    Libraries,   \* states of the Library: [root, files, packet, receipt]
    ModulePaths, \* the Lean files there may be below the Library's module root
    Rank,        \* path -> its place in the order of names
    Stripped,    \* content of lean-toolchain -> its text without white space around it
    Genuine      \* receipts the external authorities vouch for

VARIABLES
    roundFile, \* the round file, None when there is none
    library,   \* the Library: root is whether its module root is a directory, files
               \* a function path -> [link, bytes], packet and receipt two more files
    reading,   \* process -> None or the load it is in
    returned   \* rounds a load returned (history)

calibrationVars == <<roundFile, library, reading, returned>>

CalibrationInit ==
    /\ roundFile \in Rounds \cup {None}
    /\ library \in Libraries
    /\ reading = [a \in Harnesses |-> None]
    /\ returned = {}

Roles == {"interpreter", "architect", "adversary", "alignment", "steward"}

Unique(S, f(_)) == \A x, y \in S : f(x) = f(y) => x = y

\* SelfCalibrationCandidateV1
CandidateValid(c) == c.seal = [id |-> c.id, revision |-> c.revision, content |-> c.content]

\* SelfCalibrationIdentityBindingV1, SelfCalibrationRoleReportV1
ReportValid(r) ==
    /\ (r.assurance = "external") <=> (r.identity # None)
    /\ r.intact

\* SelfCalibrationBlockerV1
BlockerValid(b) == (b.kind = "role_missing") <=> (b.role # None)

\* SelfCalibrationLibraryLockV1
LockValid(lock) == lock.toolchainSha = <<"sha", lock.toolchain>>

\* SelfCalibrationTrackedPreselectionReceiptV1
TrackedValid(t) == t.packetPath # t.receiptPath

\* SelfCalibrationLibraryBuildEvidenceV1
EvidenceValid(e) ==
    /\ e.status \in {"passed", "partial"} <=> e.exit = 0
    /\ (e.status = "partial") <=> (e.tracked # None)
    /\ e.tracked # None => TrackedValid(e.tracked)
    /\ e.targets # {}
    /\ e.intact

\* SelfCalibrationLibraryCompileReceiptV1
CompileReceiptValid(r) ==
    /\ EvidenceValid(r.evidence)
    /\ (r.assurance = "external") <=> (r.run # None)
    /\ r.run # None => r.run = r.evidence

\* SelfCalibrationCompileSpikePacketV1
SpikeValid(s) ==
    /\ s.state \in {"not_started", "blocked"} => s.receipt = None /\ s.blockers # {}
    /\ s.state \in {"partial", "passed", "failed"} =>
           s.receipt # None /\ CompileReceiptValid(s.receipt) /\ s.receipt.evidence.status = s.state
    /\ s.state = "partial" => s.blockers # {}
    /\ s.intact

ActiveBlockers(round) == {b.id : b \in {c \in round.blockers : c.active}}

ReportsOn(round, c) == {r \in round.reports : r.candidate = c.id}

\* Mutant: the architect may review with somebody of the same group.
RolesCoveredByAny(round) ==
    \A c \in round.candidates : {"architect", "adversary"} \subseteq {r.role : r \in ReportsOn(round, c)}

\* validate_round: architect and adversary report on every candidate, from
\* different groups.
RolesCovered(round) ==
    \A c \in round.candidates :
        \E r, s \in ReportsOn(round, c) :
            r.role = "architect" /\ s.role = "adversary" /\ r.group # s.group

\* validate_round: a report is on a candidate as it stands, one per role and
\* candidate, and no reviewer writes two.
ReportsBind(round) ==
    /\ LET id(r) == r.id key(r) == <<r.candidate, r.role>> by(r) == r.reviewer IN
       Unique(round.reports, id) /\ Unique(round.reports, key) /\ Unique(round.reports, by)
    /\ \A r \in round.reports :
           /\ ReportValid(r) /\ r.kind = "automated"
           /\ \E c \in round.candidates : r.candidate = c.id /\ r.seal = c.seal

\* validate_round: what the spike refers to.
SpikeBinds(round) ==
    LET s == round.spike IN
    /\ SpikeValid(s)
    /\ s.candidates \subseteq {c.id : c \in round.candidates}
    /\ s.blockers \subseteq
           IF s.state \in {"passed", "failed"} THEN {} ELSE ActiveBlockers(round)
    /\ s.receipt # None =>
           /\ s.receipt.evidence.lake = round.lock.lake
           /\ s.receipt.evidence.toolchain = round.lock.toolchainSha
           /\ s.receipt.evidence.mathlib = round.lock.mathlib
    /\ round.disposition = "compile_spike" =>
           s.state = "not_started" /\ \E b \in round.blockers : b.kind = "spike_not_run" /\ b.active
    /\ s.state = "partial" =>
           /\ round.disposition = "gap"
           /\ \E b \in round.blockers : b.kind = "scope_gap" /\ b.active /\ b.id \in s.blockers

\* _validate_complete_state
CompleteValid(round) ==
    /\ round.disposition = "continue"
    /\ ActiveBlockers(round) = {}
    /\ {<<r.candidate, r.role>> : r \in round.reports} = {c.id : c \in round.candidates} \X Roles
    /\ \A r \in round.reports : r.state = "verified" /\ r.assurance = "external"
    /\ round.spike.state = "passed" /\ round.spike.receipt.assurance = "external"

\* SelfCalibrationRoundV1
RoundValid(round) ==
    /\ LET id(x) == x.id seal(c) == c.seal IN
       Unique(round.candidates, id) /\ Unique(round.candidates, seal) /\ Unique(round.blockers, id)
    /\ Cardinality(round.candidates) >= 2
    /\ \A c \in round.candidates : CandidateValid(c)
    /\ \A b \in round.blockers : BlockerValid(b)
    /\ LockValid(round.lock)
    /\ ReportsBind(round) /\ RolesCovered(round) /\ SpikeBinds(round)
    /\ Roles \ {r.role : r \in round.reports} \subseteq {b.role : b \in round.blockers}
    /\ IF round.state = "complete" THEN CompleteValid(round)
       ELSE round.disposition # "continue" /\ ActiveBlockers(round) # {}
    /\ round.intact

\* assert_binds_manifest: the pilot graph, and the anchors of all the target
\* rests on.
BindsManifest(round, manifest) ==
    /\ round.pilot = manifest
    /\ \E graph \in manifest.graphs :
           /\ graph.id = round.graph /\ round.target \in Ids(graph.nodes)
           /\ graph.source.binding # None
           /\ \A field \in {"ref", "sha", "parent", "parentSha"} :
                  round.textbook[field] = graph.source.binding[field]
           /\ round.textbook.anchors =
                  UNION {node.anchors : node \in TargetClosure(graph, round.target)}

\* assert_binds_reference_manifest: the text, its parent and their rights
\* (reference_rights_binding_sha256) as the reference manifest lists them.
BindsReferences(round, manifest) ==
    /\ round.textbook.manifest = manifest.sha
    /\ \E e, p \in manifest.entries :
           /\ e.ref = round.textbook.ref /\ e.sha = round.textbook.sha
           /\ p.ref = round.textbook.parent /\ p.sha = round.textbook.parentSha
           /\ e.kind = "derived_text" /\ e.parent = p.ref /\ e.parentSha = p.sha
           /\ round.textbook.rights = <<e, p>>

\* assert_binds: the pilot's copy of the rights is the reference manifest's.
Binds(round, pilot, manifest) ==
    /\ BindsManifest(round, pilot)
    /\ BindsReferences(round, manifest)
    /\ \E graph \in pilot.graphs, e \in manifest.entries :
           /\ graph.id = round.graph /\ e.ref = round.textbook.ref
           /\ graph.source.binding.egress = e.egress

\* The inputs of the Library that lie in its root.
RootFiles == {"lean-toolchain", "lakefile.lean", "lake-manifest.json", "AutoLeanLibrary.lean"}

\* is_file() and not is_symlink()
RegularFile(l, path) == path \in DOMAIN l.files /\ ~l.files[path].link

\* _library_toolchain_text
ToolchainText(l) ==
    IF "lean-toolchain" \in DOMAIN l.files THEN Stripped[l.files["lean-toolchain"].bytes] ELSE None

\* The packet without compile_receipt, which is what packet_content_sha256 is of.
PacketContent(packet) == [packet EXCEPT !.backlink = None]

\* assert_matches_library_root of the tracked receipt, on packet and receipt as
\* they were parsed: they are the ones recorded, name each other and the
\* evidence, select no candidate and leave a gap open.
TrackedMatches(t, evidence, packet, receipt, toolchain) ==
    /\ packet.id = t.packetId /\ receipt.packetId = t.packetId /\ receipt.id = t.receiptId
    /\ packet.selected = None /\ receipt.selected = None
    /\ PacketContent(packet) = t.content /\ receipt.content = t.content
    /\ packet.backlink = [path |-> t.receiptPath, sha |-> t.receipt]
    /\ receipt.tree = evidence.tree /\ receipt.exit = evidence.exit /\ receipt.targets = evidence.targets
    /\ {packet.lake, receipt.lake} = {evidence.lake}
    /\ {packet.toolchain, receipt.toolchain} = {toolchain}
    /\ packet.gap = "open"

\* expected_candidate_ids and expected_source, the second time.
PacketExpected(packet, spike, textbook) ==
    /\ packet.fixtures = spike.candidates
    /\ packet.source = textbook.ref /\ packet.anchors \subseteq textbook.anchors

\* The Library is read for a complete round and for a tracked receipt only.
NeedsLibrary(round) ==
    \/ round.state = "complete"
    \/ round.spike.receipt # None /\ round.spike.receipt.evidence.tracked # None


-----------------------------------------------------------------------------
AtStep(a, step) == reading[a] # None /\ reading[a].step = step

EvidenceOf(load) == load.round.spike.receipt.evidence

\* A look at the Library or at an authority: the load goes on, or the call raises.
GoesOn(a, holds, load) ==
    /\ reading' = [reading EXCEPT ![a] = IF holds THEN load ELSE None]
    /\ UNCHANGED <<roundFile, library, returned>>

Returns(a, load) ==
    /\ returned' = returned \cup
           {[round |-> load.round, pilot |-> pilots[a], manifest |-> loaded[a],
             during |-> load.during, vouched |-> load.vouched]}
    /\ reading' = [reading EXCEPT ![a] = None]
    /\ UNCHANGED <<roundFile, library>>

\* A load's locals: paths it has not come by, paths it has listed and not
\* hashed, the entries of the tree it has hashed, the tracked files it parsed,
\* and whether it is at the second check of these.
NewLoad ==
    [round |-> roundFile, during |-> {library}, vouched |-> {}, unseen |-> {}, listed |-> {},
     tree |-> {}, packet |-> None, receipt |-> None, again |-> FALSE,
     step |-> IF roundFile.state = "complete" THEN "identities" ELSE "root"]

\* load_self_calibration_round up to the first look outside the file; with
\* nothing to look at it returns.
ReadRound(a) ==
    /\ loaded[a] # None /\ pilots[a] \notin {NoHarness, None} /\ reading[a] = None
    /\ roundFile # None /\ RoundValid(roundFile)
    /\ Binds(roundFile, pilots[a], loaded[a])
    /\ IF NeedsLibrary(roundFile) THEN GoesOn(a, TRUE, NewLoad) ELSE Returns(a, NewLoad)

\* The identity receipt of a report is for this report and this reviewer.
IdentityBinds(r) ==
    r.identity # None /\ r.identity.evidence = r.evidence /\ r.identity.reviewer = r.reviewer
        /\ r.identity.group = r.group

\* assert_ready_for_completion: the identity receipts, by an outside authority.
VerifyIdentities(a) ==
    LET reports == reading[a].round.reports IN
    /\ AtStep(a, "identities")
    /\ GoesOn(a, \A r \in reports : IdentityBinds(r) /\ r.identity \in Genuine,
              [reading[a] EXCEPT !.step = "root", !.vouched = reports])

\* _library_input_tree_sha256: the files of the root are listed unseen, those
\* below the module root are looked for.
OpenModules(a) ==
    /\ AtStep(a, "root")
    /\ GoesOn(a, library.root,
              [reading[a] EXCEPT !.step = "tree", !.listed = RootFiles, !.unseen = ModulePaths])

\* Its rglob comes by a path, at a time of its own: nothing, a link, or a file.
ListModule(a) ==
    /\ AtStep(a, "tree")
    /\ \E path \in reading[a].unseen :
           GoesOn(a, path \in DOMAIN library.files => RegularFile(library, path),
                  [reading[a] EXCEPT !.unseen = @ \ {path},
                       !.listed = IF path \in DOMAIN library.files THEN @ \cup {path} ELSE @])

\* It hashes what it has listed in the order of the names, file after file.
HashFile(a) ==
    LET load == reading[a] IN
    /\ AtStep(a, "tree") /\ load.unseen = {}
    /\ \E path \in load.listed :
           /\ \A other \in load.listed : Rank[path] <= Rank[other]
           /\ GoesOn(a, RegularFile(library, path),
                     [load EXCEPT !.listed = @ \ {path},
                          !.tree = @ \cup {[path |-> path, bytes |-> library.files[path].bytes]}])

\* Mutant: a file the evidence does not name is passed over.
NamedAgree(tree, evidence) == evidence.tree \subseteq tree

\* assert_matches_library_root of the compile receipt: the tree.
TreeAgrees(tree, evidence) == tree = evidence.tree

\* The digest of what was hashed is the evidence's; then lake-manifest.json,
\* read once more.
MatchLake(a) ==
    LET load == reading[a] IN
    /\ AtStep(a, "tree") /\ load.unseen = {} /\ load.listed = {}
    /\ GoesOn(a, /\ TreeAgrees(load.tree, EvidenceOf(load))
                 /\ "lake-manifest.json" \in DOMAIN library.files
                 /\ library.files["lake-manifest.json"].bytes = EvidenceOf(load).lake,
              [load EXCEPT !.step = "toolchain"])

\* lean-toolchain, which must not be empty.
MatchToolchain(a) ==
    LET load == reading[a] IN
    /\ AtStep(a, "toolchain")
    /\ GoesOn(a, /\ ToolchainText(library) \notin {None, ""}
                 /\ EvidenceOf(load).toolchain = <<"sha", ToolchainText(library)>>,
              [load EXCEPT !.step = "targets", !.unseen = EvidenceOf(load).targets])

\* One target module after the other; after the last the records of a partial
\* compilation or, for a complete round, the authority.
MatchTarget(a) ==
    LET load == reading[a] IN
    /\ AtStep(a, "targets")
    /\ \E path \in load.unseen :
           GoesOn(a, RegularFile(library, path),
                  [load EXCEPT !.unseen = @ \ {path},
                       !.step = IF load.unseen # {path} THEN "targets"
                                ELSE IF EvidenceOf(load).tracked = None THEN "authority" ELSE "packet"])

\* The digests of packet and receipt.
MatchPacketFile(a) ==
    LET load == reading[a] IN
    /\ AtStep(a, "packet")
    /\ GoesOn(a, library.packet # None /\ library.packet = EvidenceOf(load).tracked.packet,
              [load EXCEPT !.step = "receipt"])

MatchReceiptFile(a) ==
    LET load == reading[a] IN
    /\ AtStep(a, "receipt")
    /\ GoesOn(a, library.receipt # None /\ library.receipt = EvidenceOf(load).tracked.receipt,
              [load EXCEPT !.step = "parse packet"])

\* _read_library_json_object reads each of them again.
ParsePacket(a) ==
    /\ AtStep(a, "parse packet")
    /\ GoesOn(a, library.packet # None,
              [reading[a] EXCEPT !.step = "parse receipt", !.packet = library.packet])

ParseReceipt(a) ==
    /\ AtStep(a, "parse receipt")
    /\ GoesOn(a, library.receipt # None,
              [reading[a] EXCEPT !.step = "compare", !.receipt = library.receipt])

\* The comparison, with lean-toolchain once more.  The receipt's own check is
\* the first, the spike's, with what it expects of the packet, the second; then
\* the load returns.
MatchTracked(a) ==
    LET load == reading[a]
        evidence == EvidenceOf(load)
        matches ==
            /\ TrackedMatches(evidence.tracked, evidence, load.packet, load.receipt, ToolchainText(library))
            /\ load.again => PacketExpected(load.packet, load.round.spike, load.round.textbook) IN
    /\ AtStep(a, "compare")
    /\ IF load.again /\ matches THEN Returns(a, load)
       ELSE GoesOn(a, matches, [load EXCEPT !.step = "packet", !.again = TRUE])

\* assert_ready_for_completion: the compile receipt, by an outside authority.
VerifyCompile(a) ==
    /\ AtStep(a, "authority")
    /\ IF reading[a].round.spike.receipt.run \in Genuine THEN Returns(a, reading[a])
       ELSE GoesOn(a, FALSE, reading[a])

\* Someone edits the round file (external).
EditRound(round) ==
    /\ round # roundFile /\ roundFile' = round
    /\ UNCHANGED <<library, reading, returned>>

\* Someone works in the Library's checkout (external).
ChangeLibrary(l) ==
    /\ l # library /\ library' = l
    /\ reading' = [a \in Harnesses |->
           IF reading[a] = None THEN None ELSE [reading[a] EXCEPT !.during = @ \cup {l}]]
    /\ UNCHANGED <<roundFile, returned>>

CalibrationNext ==
    \/ \E a \in Harnesses : \/ ReadRound(a) \/ VerifyIdentities(a) \/ OpenModules(a) \/ ListModule(a)
                            \/ HashFile(a) \/ MatchLake(a) \/ MatchToolchain(a) \/ MatchTarget(a)
                            \/ MatchPacketFile(a) \/ MatchReceiptFile(a) \/ ParsePacket(a)
                            \/ ParseReceipt(a) \/ MatchTracked(a) \/ VerifyCompile(a)
    \/ \E round \in Rounds : EditRound(round)
    \/ \E l \in Libraries : ChangeLibrary(l)

-----------------------------------------------------------------------------
\* A tree that was hashed file by file: each of its files was in the Library,
\* a regular file of these bytes, and each file it lacks was missing, at some
\* moment of the load.  A tree edited meanwhile may thus match although the
\* Library never was like that as a whole; one that nobody edits is the Library's.
TreeSeen(tree, during) ==
    /\ \A e \in tree : \E l \in during : RegularFile(l, e.path) /\ l.files[e.path].bytes = e.bytes
    /\ \A path \in RootFiles \cup ModulePaths :
           path \notin {e.path : e \in tree} => \E l \in during : path \notin DOMAIN l.files

\* What was compiled and with what: the tree, the Lake manifest and toolchain the
\* round is locked to, and the target modules.
LibrarySeen(round, during) ==
    LET evidence == round.spike.receipt.evidence IN
    /\ TreeSeen(evidence.tree, during)
    /\ \E l \in during : /\ "lake-manifest.json" \in DOMAIN l.files
                         /\ l.files["lake-manifest.json"].bytes = round.lock.lake
    /\ \E l \in during : <<"sha", ToolchainText(l)>> = round.lock.toolchainSha
    /\ \A path \in evidence.targets : \E l \in during : RegularFile(l, path)

\* A round that loads can be relied on, whoever edits the file, the manifests
\* or the Library meanwhile.  It is about the target as the reader's pilot
\* manifest has it: every claim the target rests on cites the textbook, whose
\* text may not go further than the document it was derived from.  If it is
\* complete, every candidate has been judged in every role by reviewers who
\* judged nothing else and whom an authority knows, the adversary being of
\* another group than the architect.  If it records a compilation that counts,
\* every file of it was in the Library while that was read; if a partial one, a
\* packet of the recorded content was, and its gap was open.
RoundHolds(c) ==
    LET round == c.round IN
    /\ \E graph \in c.pilot.graphs :
           /\ graph.id = round.graph
           /\ \A node \in Needed(graph, round.target) : node.anchors \subseteq round.textbook.anchors
    /\ \E e, p \in c.manifest.entries :
           e.ref = round.textbook.ref /\ p.ref = e.parent /\ e.egress <= p.egress
    /\ round.state = "complete" =>
           /\ \A candidate \in round.candidates, role \in Roles :
                  \E r \in c.vouched :
                      /\ r.candidate = candidate.id /\ r.role = role /\ r.state = "verified"
                      /\ r.seal.content = candidate.content
                      /\ \A q \in round.reports \ {r} : q.reviewer # r.reviewer
           /\ \A candidate \in round.candidates :
                  \A r, q \in round.reports :
                      {r.candidate, q.candidate} = {candidate.id} /\ r.role = "architect"
                          /\ q.role = "adversary" => r.group # q.group
           /\ \A b \in round.blockers : ~b.active
           /\ round.spike.receipt.evidence.exit = 0
    /\ NeedsLibrary(round) => LibrarySeen(round, c.during)
    /\ round.spike.state = "partial" =>
           \E l \in c.during :
               /\ l.packet # None /\ PacketContent(l.packet) = round.spike.receipt.evidence.tracked.content
               /\ l.packet.gap = "open" /\ l.packet.selected = None

CalibrationSound == \A c \in returned : RoundHolds(c)
=============================================================================
