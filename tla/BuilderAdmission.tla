-------------------------- MODULE BuilderAdmission --------------------------
(***************************************************************************)
(* The control plane's own reading of a Builder bundle before it registers *)
(* the task (_verify_builder_fidelity_artifact in service.py and           *)
(* builder_fidelity.py).  It is written apart from the Builder's checks    *)
(* and from other inputs: the bundle's frozen contract and the evidence    *)
(* artifact, here frozen.contract and frozen.evaluation.                   *)
(***************************************************************************)
EXTENDS StatementBuilder

\* _source_claim_span_projection: the artifact's claim reproduces the frozen
\* span, and its excerpt hashes to the frozen hash.
SpanAdmitted(contract, artifact) == artifact.task.span = contract.span

\* _generation_task_projection: the obligations the artifact's task may carry,
\* and the task its translators must have been given, from the frozen contract.
ObligationsAdmitted(contract, obligations) ==
    /\ obligations # {}
    /\ \A o, p \in obligations : o.id = p.id => o = p
    /\ \A o \in obligations : contract.mathematics.normalized \in o.normalized
GenerationProjection(contract, artifact) ==
    [span |-> artifact.task.span, mathematics |-> contract.mathematics,
     formalization |-> [declaration |-> contract.declaration, imports |-> contract.imports],
     obligations |-> {[id |-> o.id, kind |-> o.kind, normalized |-> o.normalized] :
                          o \in artifact.task.obligations}]

\* _validate_candidate_generation_task_hashes
CandidatesAdmitted(artifact) ==
    /\ Len(artifact.candidates) >= 2
    /\ \A i \in DOMAIN artifact.candidates : artifact.candidates[i].task = artifact.generation

\* _validate_environment: a known profile, and the image and the Lake manifest
\* the contract names.
EnvironmentAdmitted(contract, environment) ==
    /\ TestOnly
    /\ environment.assurance \in DOMAIN Profiles
    /\ environment.profile = Profiles[environment.assurance]
    /\ environment.image = contract.environment.image
    /\ environment.lake = contract.environment.lake

\* _render_oci_type_query_source_hash: the same rendering, written again.
RenderedForAdmission(contract, statement) ==
    [imports |-> contract.imports, of |-> contract.declaration,
     carrier |-> CASE Form[statement] = "complete" -> <<"as is", statement>>
                   [] Form[statement] = "header"   -> <<"axiom", statement>>]

\* _validate_scripted_raw_query_output; unlike the Builder it compares the
\* snapshot of the output with that of the query facts.
ScriptedAdmitted(contract, subject, statement, o) ==
    LET output == o.facts.output IN
    /\ output.schema = "scripted"
    /\ output.subject = subject /\ output.statement = statement
    /\ output.declaration = contract.declaration /\ output.imports = contract.imports
    /\ output.type = o.type
    /\ output.snapshot = statement /\ output.snapshot = o.facts.snapshot
    /\ output.axioms = o.facts.axioms

\* _validate_local_oci_raw_query_output; unlike the Builder it does not ask
\* that the direct imports are in the closure.
LocalAdmitted(contract, environment, statement, o) ==
    LET output == o.facts.output IN
    /\ output.schema = "worker"
    /\ output.image = environment.image /\ output.policy = environment.policy
    /\ output.identity = environment.identity
    /\ output.phase = contract.declaration /\ output.declaration = contract.declaration
    /\ Form[statement] # "other" /\ output.snapshot = RenderedForAdmission(contract, statement)
    /\ output.snapshot = o.facts.snapshot
    /\ contract.imports \subseteq output.direct
    /\ output.direct \subseteq contract.imports \cup {"Init"}
    /\ "Candidate" \in output.closure
    /\ output.type = o.type /\ output.axioms = o.facts.axioms

\* _validate_raw_query_output
OutputAdmitted(contract, environment, subject, statement, o) ==
    IF environment.assurance = "scripted_fake"
      THEN ScriptedAdmitted(contract, subject, statement, o)
      ELSE LocalAdmitted(contract, environment, statement, o)

\* _validate_observation: of the statement it claims, with the contract's type.
ObservationAdmitted(contract, environment, subject, statement, o) ==
    /\ o.subject = subject /\ o.statement = statement
    /\ o.declaration = contract.declaration
    /\ o.type = contract.type /\ o.at = environment
    /\ OutputAdmitted(contract, environment, subject, statement, o)

\* validate_canonical_type_check
CanonicalCheckAdmitted(contract, artifact) ==
    LET record == artifact.gate candidates == artifact.candidates IN
    /\ record.contract.id = contract.id /\ record.contract.revision = contract.revision
    /\ EnvironmentAdmitted(contract, record.environment)
    /\ ObservationAdmitted(contract, record.environment, ReferenceId, contract.statement, record.reference)
    /\ Len(record.observations) = Len(candidates)
    /\ \A i \in DOMAIN candidates :
           ObservationAdmitted(contract, record.environment, candidates[i].id,
                               candidates[i].statement, record.observations[i])
    /\ Distinct([i \in DOMAIN candidates |-> candidates[i].id])

\* _verify_builder_fidelity_artifact
Admits(bundle) ==
    LET contract == bundle.frozen.contract
        artifact == bundle.frozen.evaluation IN
    /\ SpanAdmitted(contract, artifact)
    /\ ObligationsAdmitted(contract, artifact.task.obligations)
    /\ artifact.generation = GenerationProjection(contract, artifact)
    /\ CandidatesAdmitted(artifact)
    /\ CanonicalCheckAdmitted(contract, artifact)
    /\ artifact.task.id = contract.id /\ artifact.task.revision = contract.revision
    /\ artifact.task.source = contract.source
    /\ artifact.task.normalized = contract.mathematics.normalized
    /\ artifact.task.statement = contract.statement

-----------------------------------------------------------------------------
\* Two bundles of one contract revision carry the same contract, whichever
\* processes prepared them, from whichever manifest, before or after a crash:
\* the ledger's record is the only thing they share.
OneDraftPerRevision ==
    \A b, c \in bundles :
        LET d == b.frozen.contract e == c.frozen.contract IN
        d.id = e.id /\ d.revision = e.revision => d = e

\* No bundle rests on the review or sign-off of somebody who was registered as
\* a translator or as the mutation agent of the same run, whatever identity
\* the agents went by later.
NoSelfReview ==
    \A b \in bundles :
        LET e == b.frozen.evaluation
            made == {e.named.translators[i].actor : i \in DOMAIN e.named.translators}
                        \cup {e.named.mutator} IN
        made \cap UNION {Accepting(e.report, role) : role \in
                         {"semantic_reviewer", "library_reviewer", "domain_expert", "independent_verifier"}} = {}

\* The endpoints a bundle's rights name were permitted by the policy of the
\* document the text was derived from, in the manifest the draft was made
\* under (the Builder itself compares rights only with the derived text); and
\* when its process worked with a pilot manifest, that manifest permits the
\* draft, whenever the receipt for it was issued.
SourceAdmitted ==
    \A b \in bundles :
        LET contract == b.frozen.contract IN
        /\ \E m \in Manifests : m.sha = contract.manifest /\
               \E p \in m.entries :
                   /\ p.kind = "source_document" /\ p.sha = contract.parent
                   /\ contract.rights.endpoints \subseteq Permitted(p.egress)
        /\ b.frozen.pilot # None =>
               PilotRespected(b.frozen.pilot, b.frozen.ref, b.frozen.receipt, contract.rights)

\* What the Builder hands over the control plane admits, provided the contract
\* names its Lake manifest.  (A contract that names none is frozen with a query
\* environment that has one, and then refused: builder_fidelity.py, line 269.)
\* And what both accept is so: Lean prints the contract's type for the selected
\* statement and for every candidate, whatever output a query was answered with.
HandoffAdmitted ==
    \A b \in bundles :
        LET contract == b.frozen.contract candidates == b.frozen.evaluation.candidates IN
        /\ contract.environment.lake # Unbound => Admits(b)
        /\ TypeOf[contract.statement] = contract.type
        /\ \A i \in DOMAIN candidates : TypeOf[candidates[i].statement] = contract.type
=============================================================================
