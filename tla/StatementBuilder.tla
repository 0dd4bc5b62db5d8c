-------------------------- MODULE StatementBuilder --------------------------
(***************************************************************************)
(* From a cached source to a bundle for the Prover: drafts are prepared    *)
(* from verified sources (source_harness.py), recorded once per contract   *)
(* revision (source_preparation.py), put through the fidelity harness, and *)
(* frozen and bridged (workflow.py).  Composes ReferenceCache,             *)
(* PilotAdmission and FidelityHarness; the authors are processes of the    *)
(* cache that build a harness.                                             *)
(*                                                                         *)
(* prepare_draft is cut at the ledger's transaction; a freeze and the      *)
(* bridge after it are cut where the clock is read a second time.  Packets *)
(* and evaluations live in a process and die with it; the ledger does not. *)
(***************************************************************************)
EXTENDS PilotAdmission, FidelityHarness

CONSTANTS
    Requests,   \* StatementDraftRequests: [key, revision, ref, statement, type, ...]
    Obligations,\* what authors hand to a run: sets of [id, kind, normalized, lean]
    BaseMutations, \* FreezeGate._BASE_MUTATIONS
    TestOnly    \* allow_test_only_non_authoritative_canonical_type_freeze

\* What is selected or proposed as a statement.
Statements == {q.statement : q \in Requests} \cup {p.statement : p \in Proposals}

ASSUME BuilderAssumption ==
    /\ Authors = Harnesses /\ Authors \subseteq Processes
    /\ \A s \in Statements : Form[s] \in {"complete", "header", "other"}

VARIABLES
    drafts,  \* author -> None or the packet prepare_draft is working on
    packets, \* author -> None or the packet it was given
    ledger,  \* rows of the source-preparation ledger
    frozen,  \* author -> None or the contract it froze and is about to bridge
    bundles  \* bundles issued (history)

builderVars == <<drafts, packets, ledger, frozen, bundles>>
bvars == <<cacheVars, pilotVars, fidelityVars, builderVars>>

BInit ==
    /\ CacheInit
    /\ PilotInit
    /\ FidelityInit
    /\ drafts = [a \in Authors |-> None]
    /\ packets = [a \in Authors |-> None]
    /\ ledger = {}
    /\ frozen = [a \in Authors |-> None]
    /\ bundles = {}

\* Endpoints an egress policy permits: no_model, local_only, approved_external.
Permitted(egress) ==
    {"local" : x \in 1..egress} \cup {"approved_external" : x \in 2..egress}

\* _build_rights, _validate_manifest_rights_ceiling
RightsFit(e, rights) ==
    /\ rights.license = e.rights
    /\ rights.decision \notin {"unknown", "deny"}
    /\ rights.endpoints # {} => rights.model = "allow"
    /\ e.egress = 0 => rights.model # "allow"
    /\ rights.endpoints \subseteq Permitted(e.egress)

\* _require_derived_text: who vouches for the parent's pages goes with how the
\* text was derived.
RequireDerivedText(e) ==
    /\ e.kind = "derived_text"
    /\ e.authority = IF e.local THEN "manifest_bound" ELSE "human_declared"

\* _validate_spans: a span was located in these bytes and still reads the same.
SpansHold(a, e, span) == span.located = e.sha /\ ExcerptHolds(a, e.ref, span)

\* The packet prepare_draft builds from a request and the verified entries of
\* the derived text and of its parent, with the receipt it was given.
PacketFrom(a, request, e, receipt) ==
    [contract |-> [id |-> request.key, revision |-> request.revision,
                   source |-> e.sha, parent |-> e.parentSha, manifest |-> loaded[a].sha,
                   rights |-> request.rights, span |-> request.span,
                   statement |-> request.statement, type |-> request.type,
                   declaration |-> request.declaration, imports |-> request.imports,
                   environment |-> request.environment, kind |-> request.kind,
                   mathematics |-> request.mathematics, policy |-> request.policy],
     ref |-> e.ref, parentRef |-> e.parent, span |-> request.span, receipt |-> receipt]

\* preparation_record: digests of the packet and of its parts; the identifier
\* follows from the contract and its revision.
PreparationRecord(packet) ==
    [contract |-> packet.contract.id, revision |-> packet.contract.revision, packet |-> packet]

\* SourcePreparationRecordV1.assert_binds_contract
PreparationBinds(record, contract) ==
    /\ record.contract = contract.id /\ record.revision = contract.revision
    /\ record.packet.contract = contract

\* _assert_source_binds: the source still is, on disk and in the manifest this
\* process loaded, what the packet was drafted from.
SourceBinds(a, packet) ==
    /\ loaded[a] # None /\ loaded[a].sha = packet.contract.manifest
    /\ ExcerptHolds(a, packet.ref, packet.contract.span)
    /\ \E e \in Verified(a, packet.ref), p \in Verified(a, packet.parentRef) :
           /\ e.kind = "derived_text" /\ e.parent = packet.parentRef
           /\ e.sha = packet.contract.source
           /\ {e.parentSha, p.sha} = {packet.contract.parent}
           /\ RightsFit(e, packet.contract.rights)

\* prepare_draft up to the ledger.
Prepare(a, request, receipt) ==
    \E e \in Verified(a, request.ref) :
        /\ drafts[a] = None /\ pilots[a] # NoHarness
        /\ RequireDerivedText(e) /\ Verified(a, e.parent) # {}
        /\ SpansHold(a, e, request.span)
        /\ RightsFit(e, request.rights)
        /\ PilotAdmits(a, request.ref, receipt, request.rights)
        /\ SourceBinds(a, PacketFrom(a, request, e, receipt))
        /\ drafts' = [drafts EXCEPT ![a] = PacketFrom(a, request, e, receipt)]
        /\ UNCHANGED <<cacheVars, pilotVars, fidelityVars, packets, ledger, frozen, bundles>>

\* Mutant: a conflicting preparation replaces the row.
RecordedReplacing(rows, record) ==
    {row \in rows : row.contract # record.contract \/ row.revision # record.revision}
        \cup {record}

\* SourcePreparationLedger.record: insert, or find the same record.
Recorded(rows, record) ==
    IF \E row \in rows : row.contract = record.contract /\ row.revision = record.revision
      THEN rows ELSE rows \cup {record}

\* _assert_packet: the ledger holds the record (require) and the source binds.
PacketHolds(a, packet) ==
    /\ PreparationRecord(packet) \in ledger
    /\ SourceBinds(a, packet)
    /\ PilotAdmits(a, packet.ref, packet.receipt, packet.contract.rights)

\* The transaction; a conflict raises.
Record(a) ==
    /\ drafts[a] # None /\ PreparationRecord(drafts[a]) \notin ledger
    /\ ledger' = Recorded(ledger, PreparationRecord(drafts[a]))
    /\ drafts' = IF PreparationRecord(drafts[a]) \in ledger'
                   THEN drafts ELSE [drafts EXCEPT ![a] = None]
    /\ UNCHANGED <<cacheVars, pilotVars, fidelityVars, packets, frozen, bundles>>

\* prepare_draft after the transaction: it returns the packet, or raises and
\* leaves the row behind.
Deliver(a) ==
    /\ drafts[a] # None /\ PreparationRecord(drafts[a]) \in ledger
    /\ packets' = IF PacketHolds(a, drafts[a])
                    THEN [packets EXCEPT ![a] = drafts[a]] ELSE packets
    /\ drafts' = [drafts EXCEPT ![a] = None]
    /\ UNCHANGED <<cacheVars, pilotVars, fidelityVars, ledger, frozen, bundles>>

RunFidelity(a, cast) ==
    /\ packets[a] # None /\ PacketHolds(a, packets[a])
    /\ \E obligations \in Obligations :
           StartRun(a, packets[a].contract, packets[a].span, cast, obligations)
    /\ UNCHANGED <<cacheVars, pilotVars, builderVars>>

\* _validate_fidelity_before_freeze: sign-offs, then the report, then the freeze.
TimesFit(report, now) == report.at <= now /\ \A s \in report.signoffs : s.at <= report.at

\* Independent reviewers of a role who accepted.
Accepting(report, role) ==
    {s.reviewer : s \in {t \in report.signoffs : t.role = role /\ t.independent /\ t.accept}}

\* FreezeGate._candidate_failures
CandidatesAccepted(candidates) ==
    /\ Distinct([i \in DOMAIN candidates |-> candidates[i].id])
    /\ Cardinality({candidates[i].group : i \in DOMAIN candidates}) >= 2
    /\ Cardinality({candidates[i].actor : i \in DOMAIN candidates}) >= 2

\* How many independent reviewers of each role must accept.
RequiredReviews(contract) ==
    LET policy == contract.policy IN
    [semantic_reviewer    |-> 1,
     library_reviewer     |-> IF policy.risk \in {"L2", "L3"} THEN 1 ELSE 0,
     domain_expert        |-> IF policy.risk = "L3" THEN policy.experts ELSE 0,
     independent_verifier |-> IF contract.kind = "open_conjecture" THEN policy.verifiers ELSE 0]

\* FreezeGate._fidelity_failures
FidelityAccepted(contract, report, probes) ==
    /\ {"source_preservation", "reverse_render", "independent_translation", "positive_example",
        "negative_example", "non_vacuity"} \subseteq report.checks
    /\ BaseMutations \subseteq report.detected
    /\ \A k \in BaseMutations : probes[k] # contract.statement
    /\ \A role \in DOMAIN RequiredReviews(contract) :
           Cardinality(Accepting(report, role)) >= RequiredReviews(contract)[role]
    /\ contract.kind = "open_conjecture" => contract.policy.quarantined

\* FreezeGate.validate
GateAccepts(contract, evaluation) ==
    /\ contract.rights.decision \notin {"unknown", "deny"}
    /\ contract.mathematics.unresolved = {}
    /\ evaluation.report.risk = contract.policy.risk
    /\ CandidatesAccepted(evaluation.candidates)
    /\ FidelityAccepted(contract, evaluation.report, evaluation.probes)

\* _freeze_reviewed_contract
FreezeAccepts(contract, evaluation, preparation) ==
    /\ PreparationBinds(preparation, contract)
    /\ AssertBinds(evaluation, contract)
    /\ GateAccepts(contract, evaluation)

\* revalidate_and_freeze, with an evaluation the caller passes in.
Freeze(a, evaluation) ==
    /\ packets[a] # None /\ frozen[a] = None
    /\ TestOnly
    /\ PacketHolds(a, packets[a])
    /\ TimesFit(evaluation.report, clock)
    /\ FreezeAccepts(packets[a].contract, evaluation, PreparationRecord(packets[a]))
    /\ frozen' = [frozen EXCEPT ![a] =
                     [contract |-> packets[a].contract, evaluation |-> evaluation,
                      preparation |-> PreparationRecord(packets[a]), ref |-> packets[a].ref,
                      receipt |-> packets[a].receipt, pilot |-> pilots[a], at |-> clock]]
    /\ UNCHANGED <<cacheVars, pilotVars, fidelityVars, drafts, packets, ledger, bundles>>

\* _bridge_frozen_contract: the reference to the stored evidence that the caller
\* passes in is the one of the frozen report.
BridgeAccepts(contract, evaluation, evidence) == evidence = evaluation.report.id

\* revalidate_freeze_and_bridge after the freeze: a second reading of the clock
\* dates the bundle, which is signed, checked once more and returned.
Bridge(a, evidence) ==
    /\ frozen[a] # None
    /\ bundles' = IF /\ frozen[a].at <= clock
                     /\ BridgeAccepts(frozen[a].contract, frozen[a].evaluation, evidence)
                     /\ BindsFrozen(StatementObservation(frozen[a].evaluation.gate, frozen[a].contract),
                                    frozen[a].contract)
                    THEN bundles \cup {[frozen |-> frozen[a], issued |-> clock]} ELSE bundles
    /\ frozen' = [frozen EXCEPT ![a] = None]
    /\ UNCHANGED <<cacheVars, pilotVars, fidelityVars, drafts, packets, ledger>>

\* A process dies, the Builder's part of it included.
DieBuilding(p) ==
    /\ Die(p)
    /\ p \in Authors
    /\ drafts' = [drafts EXCEPT ![p] = None]
    /\ packets' = [packets EXCEPT ![p] = None]
    /\ frozen' = [frozen EXCEPT ![p] = None]
    /\ runs' = [runs EXCEPT ![p] = Idle]
    /\ evaluations' = [evaluations EXCEPT ![p] = {}]
    /\ pilots' = [pilots EXCEPT ![p] = NoHarness]
    /\ UNCHANGED <<pilotFile, receipts, identity, worker, clock, ledger, bundles>>

AuthorStep(a) ==
    \/ \E request \in Requests, receipt \in receipts \cup {None} : Prepare(a, request, receipt)
    \/ Record(a)
    \/ Deliver(a)
    \/ \E cast \in Casts : RunFidelity(a, cast)
    \/ \E evaluation \in evaluations[a] : Freeze(a, evaluation)
    \/ \E evidence \in {e.report.id : e \in evaluations[a]} \cup {None} : Bridge(a, evidence)
    \/ DieBuilding(a)

\* Steps of the cache alone; the death of an author is DieBuilding.
CacheOnly == CacheNext /\ \A a \in Authors : loaded[a] # None => loaded'[a] # None

BNext ==
    \/ \E a \in Authors : AuthorStep(a)
    \/ PilotNext /\ UNCHANGED <<cacheVars, fidelityVars, builderVars>>
    \/ FidelityNext /\ UNCHANGED <<cacheVars, pilotVars, builderVars>>
    \/ CacheOnly /\ UNCHANGED <<pilotVars, fidelityVars, builderVars>>
=============================================================================
