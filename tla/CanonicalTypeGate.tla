------------------------- MODULE CanonicalTypeGate --------------------------
(***************************************************************************)
(* The Builder's exact-type gate (canonical_type_gate.py) and the adapters *)
(* behind its query (testing.py and scripts/builder_canonical_type_gate.py *)
(* over oci_mathlib_worker.py).  For the selected statement and for every  *)
(* candidate a query compiles the statement and prints its type; all types *)
(* must be the contract's, printed in one environment.  The adapter is not *)
(* trusted: it returns the raw output of the query as well, and the gate   *)
(* binds every answer to its request through that output.                  *)
(*                                                                         *)
(* A text stands for its hash.  What Lean prints is TypeOf (external).     *)
(***************************************************************************)
EXTENDS Naturals, Sequences, FiniteSets, SequencesExt

CONSTANTS
    TypeOf,       \* statement -> the type Lean prints for it
    Form,         \* statement -> "complete" (with a body), "header" or "other"
    Environments, \* states of the repository and its image a type query runs in
    ImportLists   \* what compiling may pull in besides the allowed imports

Unbound == "unbound"  \* lake_manifest_hash is None
ReferenceId == "contract-selected-reference"

\* _ASSURANCE_PROFILES: adapter, schema, protocol and rendering go together.
Profiles == [scripted_fake |-> "scripted-header", local_oci_prefreeze |-> "declaration-type"]

\* CanonicalTypeEnvironmentFacts.validate
EnvironmentValid(environment) ==
    /\ environment.assurance \in DOMAIN Profiles
    /\ environment.profile = Profiles[environment.assurance]

\* CanonicalTypeQueryRequest
TypeRequest(subject, statement, contract) ==
    [subject |-> subject, statement |-> statement,
     declaration |-> contract.declaration, imports |-> contract.imports]

\* _canonical_type_gate_inputs: the selected statement, then the candidates.
ReferenceRequest(contract) == TypeRequest(ReferenceId, contract.statement, contract)
CandidateRequest(contract, candidate) == TypeRequest(candidate.id, candidate.statement, contract)

\* Mutant: a header is compiled as it is.
RenderedSourceAsIs(request) ==
    [imports |-> request.imports, of |-> request.declaration, carrier |-> <<"as is", request.statement>>]

\* render_oci_type_query_source: a complete declaration as it is, a header as
\* an axiom, nothing else.
Renders(request) == Form[request.statement] # "other"
RenderedSource(request) ==
    [imports |-> request.imports, of |-> request.declaration,
     carrier |-> <<IF Form[request.statement] = "complete" THEN "as is" ELSE "axiom", request.statement>>]

\* ScriptedCanonicalTypeQuery.query: what the fixture answers.
ScriptedOutput(request) ==
    [schema |-> "scripted", subject |-> request.subject, statement |-> request.statement,
     declaration |-> request.declaration, type |-> TypeOf[request.statement],
     imports |-> request.imports, snapshot |-> request.statement, axioms |-> {}]

\* prepare_inputs: the tracked source lock is the one of the repository's Lake
\* manifest, and the cached archives are the ones it lists.
PrepareInputs(at) == at.lock = at.lake /\ at.archives = at.lock

\* verify_image_receipt: the image's labels and its own receipt name the inputs
\* and the query's assets as the repository has them now.
ImageReceiptHolds(at) == at.built = [lake |-> at.lake, identity |-> at.identity]

\* _declaration_execution_policy
ExecutionPolicy(request, at) == [image |-> at.image, limits |-> at.policy, declaration |-> request.declaration]

\* What the image prints for a compiled candidate (external).
Printed(request, at) ==
    {[lake |-> at.built.lake, identity |-> at.built.identity, direct |-> request.imports \cup extra,
      closure |-> request.imports \cup extra \cup own, declaration |-> request.declaration,
      type |-> TypeOf[request.statement], axioms |-> {}] :
        extra \in ImportLists, own \in {{}, {"Candidate"}}}

\* _declaration_query_record
RecordAccepted(request, at, record) ==
    /\ record.lake = at.lake /\ record.identity = at.identity
    /\ record.direct # {} /\ record.direct \subseteq record.closure
    /\ "Candidate" \in record.closure
    /\ record.declaration = request.declaration

\* query_declarations: compile the candidate, query the sealed result.
WorkerOutput(request, at, record) ==
    LET policy == ExecutionPolicy(request, at) IN
    [schema |-> "worker", image |-> policy.image, policy |-> policy.limits, phase |-> policy.declaration,
     identity |-> record.identity, snapshot |-> RenderedSource(request), direct |-> record.direct,
     closure |-> record.closure, declaration |-> record.declaration, type |-> record.type,
     axioms |-> record.axioms]
WorkerOutputs(request, at) ==
    {WorkerOutput(request, at, record) : record \in {r \in Printed(request, at) : RecordAccepted(request, at, r)}}

\* CanonicalTypeQueryResult, CanonicalTypeQueryFacts
QueryResult(output, at) ==
    [declaration |-> output.declaration, type |-> output.type, environment |-> at,
     facts |-> [output |-> output, snapshot |-> output.snapshot, axioms |-> output.axioms]]

\* _normalize_query_result: the script's adapter refuses an output of another
\* image, declaration or source than it asked about.
Normalizes(request, at, output) ==
    /\ output.image = at.image
    /\ output.declaration = request.declaration
    /\ output.snapshot = RenderedSource(request)

\* OciMathlibCanonicalTypeQuery.query, or the fixture.  The worker may fail
\* and hand out what it printed for another request of the run.
QueryAnswers(request, asked, at) ==
    IF at.assurance = "scripted_fake"
      THEN {QueryResult(ScriptedOutput(request), at)}
      ELSE IF ~Renders(request) \/ ~PrepareInputs(at) \/ ~ImageReceiptHolds(at) THEN {}
      ELSE {QueryResult(output, at) : output \in
               {o \in UNION {WorkerOutputs(q, at) : q \in {r \in asked : Renders(r)}} :
                   Normalizes(request, at, o)}}

\* CanonicalTypeObservation.from_result
Observation(request, result) ==
    [subject |-> request.subject, statement |-> request.statement,
     declaration |-> result.declaration, type |-> result.type,
     at |-> result.environment, facts |-> result.facts]

\* _assert_scripted_query_output_binds
ScriptedOutputBinds(output, observation, request) ==
    /\ output.schema = "scripted"
    /\ output.subject = request.subject
    /\ output.statement = request.statement
    /\ output.declaration = request.declaration
    /\ output.type = observation.type
    /\ output.imports = request.imports
    /\ output.snapshot = request.statement
    /\ output.axioms = observation.facts.axioms

\* _assert_local_oci_query_output_binds: it names no subject; the rendered
\* source says which statement was compiled.
LocalOutputBinds(output, observation, environment, request) ==
    /\ output.schema = "worker"
    /\ output.image = environment.image
    /\ output.policy = environment.policy
    /\ output.identity = environment.identity
    /\ output.phase = request.declaration
    /\ Renders(request) /\ output.snapshot = RenderedSource(request)
    /\ output.snapshot = observation.facts.snapshot
    /\ output.direct \subseteq output.closure /\ "Candidate" \in output.closure
    /\ request.imports \subseteq output.direct
    /\ output.direct \subseteq request.imports \cup {"Init"}
    /\ output.declaration = observation.declaration
    /\ output.type = observation.type
    /\ output.axioms = observation.facts.axioms

\* _assert_raw_query_output_binds
RawOutputBinds(observation, environment, request) ==
    IF environment.assurance = "scripted_fake"
      THEN ScriptedOutputBinds(observation.facts.output, observation, request)
      ELSE LocalOutputBinds(observation.facts.output, observation, environment, request)

\* _assert_environment_matches_binding: a contract that names no Lake manifest
\* takes any, and no contract names the execution policy.
EnvironmentFits(environment, contract) ==
    /\ environment.image = contract.environment.image
    /\ contract.environment.lake \in {Unbound, environment.lake}

\* _validate_query_result
ResultValid(result, request, contract) ==
    /\ EnvironmentValid(result.environment)
    /\ EnvironmentFits(result.environment, contract)
    /\ result.declaration = request.declaration
    /\ RawOutputBinds(Observation(request, result), result.environment, request)

\* _assert_requests_bind_binding
RequestsBind(contract, reference, candidates) ==
    /\ reference.subject = ReferenceId
    /\ reference.statement = contract.statement
    /\ reference.declaration = contract.declaration
    /\ \A i \in DOMAIN candidates : candidates[i].declaration = contract.declaration

\* _assert_observation_binds_request, but for the environment.
ObservationBinds(observation, request, environment) ==
    /\ observation.subject = request.subject
    /\ observation.statement = request.statement
    /\ observation.declaration = request.declaration
    /\ RawOutputBinds(observation, environment, request)

\* The type the contract is bound to, printed in the environment of the
\* reference query (run_canonical_type_gate).
Observed(contract, environment, at, type) == type = contract.type /\ at = environment

\* CanonicalTypeGateEvidence
GateEvidence(contract, environment, reference, observations) ==
    [contract |-> contract, environment |-> environment, reference |-> reference,
     observations |-> observations]

\* CanonicalTypeGateEvidence.assert_binds
EvidenceBinds(evidence, contract, candidates) ==
    LET requests == [i \in DOMAIN candidates |-> CandidateRequest(contract, candidates[i])]
        bound(o, request) ==
            /\ ObservationBinds(o, request, evidence.environment)
            /\ Observed(contract, evidence.environment, o.at, o.type) IN
    /\ evidence.contract = contract
    /\ EnvironmentValid(evidence.environment)
    /\ EnvironmentFits(evidence.environment, contract)
    /\ Len(evidence.observations) = Len(candidates)
    /\ RequestsBind(contract, ReferenceRequest(contract), requests)
    /\ bound(evidence.reference, ReferenceRequest(contract))
    /\ \A i \in DOMAIN candidates : bound(evidence.observations[i], requests[i])

\* BuilderStatementObservationEvidence.from_gate_evidence
StatementObservation(evidence, contract) ==
    [id |-> evidence.contract.id, revision |-> evidence.contract.revision, contract |-> contract,
     statement |-> evidence.contract.statement, declaration |-> evidence.reference.declaration,
     observation |-> evidence.reference, environment |-> evidence.environment]

\* assert_internal_only
InternalOnly(record) ==
    /\ EnvironmentValid(record.environment)
    /\ record.observation.statement = record.statement
    /\ record.observation.declaration = record.declaration
    /\ record.observation.at = record.environment

\* assert_binds_frozen_contract
BindsFrozen(record, contract) ==
    /\ InternalOnly(record)
    /\ record.contract = contract
    /\ record.id = contract.id /\ record.revision = contract.revision
    /\ record.statement = contract.statement /\ record.declaration = contract.declaration
    /\ record.observation.type = contract.type
=============================================================================
