-------------------------- MODULE FidelityHarness ---------------------------
(***************************************************************************)
(* The statement fidelity harness of the Builder (fidelity_harness.py).    *)
(* run() registers its agents, then calls them and the type gate's queries *)
(* one after the other:                                                    *)
(*                                                                         *)
(*   register | translate, ... | query reference | query candidate, ... |  *)
(*   mutate | review and report                                            *)
(*                                                                         *)
(* Each call leaves the harness, so anything may happen between two of     *)
(* them: an agent changes the identity it goes by, the worker image behind *)
(* the type query is replaced.  A draft contract is a record; its hash is  *)
(* the record, as is that of a task.  A fragment of a text is the set of   *)
(* texts it occurs in.                                                     *)
(***************************************************************************)
EXTENDS CanonicalTypeGate

CONSTANTS
    Authors,       \* processes that run the harness
    Agents,        \* agent objects: translators, mutation agents, reviewers
    Identities,    \* identities an agent can go by: [actor, group]
    Casts,         \* agents one run is given: [translators, mutator, reviewer, signoffs]
    Proposals,     \* answers of a translator: [id, statement, covers]
    Suites,        \* answers of a mutation agent: mutation kind -> statement
    Verdicts,      \* answers of a reviewer: judgements on candidates and probes
    MutationKinds, \* _REQUIRED_MUTATIONS
    MaxTime        \* bound: values of the wall clock

ASSUME CastAssumption == \A cast \in Casts : cast.translators \in Seq(Agents)

VARIABLES
    identity,     \* agent -> the identity it goes by now
    worker,       \* the environment type queries run in now
    clock,        \* wall clock
    runs,         \* author -> Idle or the locals of run()
    evaluations   \* author -> evaluations its process holds

fidelityVars == <<identity, worker, clock, runs, evaluations>>

Idle == [step |-> "idle"]

FidelityInit ==
    /\ identity \in [Agents -> Identities]
    /\ worker \in Environments
    /\ clock = 0
    /\ runs = [a \in Authors |-> Idle]
    /\ evaluations = [a \in Authors |-> {}]

Running(a, step) == runs[a].step = step
Fail(a) == runs' = [runs EXCEPT ![a] = Idle]
Distinct(s) == Cardinality(Range(s)) = Len(s)

\* _register_mutation_agent, _register_semantic_reviewer
RegisteredMutator(agent) == identity[agent].actor
RegisteredReviewer(agent) == identity[agent].actor

\* Who a run says took part: read once, before any agent is called.
Registered(cast) ==
    [translators |-> [i \in DOMAIN cast.translators |-> identity[cast.translators[i]]],
     mutator |-> RegisteredMutator(cast.mutator), reviewer |-> RegisteredReviewer(cast.reviewer)]

\* _register_translation_agents, _candidate_structure_checks: two translators
\* at least, all different actors, in two groups at least.
Independent(translators) ==
    /\ Len(translators) >= 2
    /\ Distinct([i \in DOMAIN translators |-> translators[i].actor])
    /\ Cardinality({translators[i].group : i \in DOMAIN translators}) >= 2

\* validate_obligations: the kinds of obligation a contract needs.
RequiredObligations(contract) ==
    {"quantifier_order", "conclusion", "non_vacuity"} \cup contract.mathematics.features

\* SourceClaimSpan, _assert_source_claims_bind_contract: the caller's private
\* excerpt is the one the contract's span was hashed from.
ClaimBinds(contract, claim) == claim = contract.span

\* TranslationTask.from_contract: what the mutation agent and the reviewer see.
TranslationTask(contract, claim, obligations) ==
    [id |-> contract.id, revision |-> contract.revision, draft |-> contract,
     source |-> contract.source, span |-> claim, normalized |-> contract.mathematics.normalized,
     statement |-> contract.statement, obligations |-> obligations]

\* TranslationTask.validate_obligations
ObligationsValid(task, contract) ==
    /\ task.obligations # {}
    /\ \A o, p \in task.obligations : o.id = p.id => o = p
    /\ \A o \in task.obligations : task.normalized \in o.normalized /\ task.statement \in o.lean
    /\ RequiredObligations(contract) \subseteq {o.kind : o \in task.obligations}

\* CandidateGenerationObligation: without the Lean fragment.
GenerationObligation(o) == [id |-> o.id, kind |-> o.kind, normalized |-> o.normalized]

\* CandidateGenerationEnvelope.from_contract
GenerationEnvelope(contract) == [declaration |-> contract.declaration, imports |-> contract.imports]

\* CandidateGenerationTask.from_contract: what a translator sees, the selected
\* statement and what would give it away left out.
GenerationTask(contract, task) ==
    [span |-> task.span, mathematics |-> contract.mathematics,
     formalization |-> GenerationEnvelope(contract),
     obligations |-> {GenerationObligation(o) : o \in task.obligations}]

\* run() up to its first call.
StartRun(a, contract, claim, cast, obligations) ==
    LET named == Registered(cast)
        task == TranslationTask(contract, claim, obligations) IN
    /\ runs[a] = Idle
    /\ Independent(named.translators)
    /\ ClaimBinds(contract, claim)
    /\ ObligationsValid(task, contract)
    /\ runs' = [runs EXCEPT ![a] =
                   [step |-> "translate", contract |-> contract, task |-> task,
                    generation |-> GenerationTask(contract, task), cast |-> cast, named |-> named,
                    candidates |-> <<>>, reference |-> <<>>, observations |-> <<>>, probes |-> <<>>]]
    /\ UNCHANGED <<identity, worker, clock, evaluations>>

\* CandidateProposal.__post_init__
ProposalValid(proposal) == proposal.covers # {}

\* _bind_candidate_proposal: the proposal names neither its author nor the
\* contract; the registration and the tasks do.
BoundCandidate(task, generation, registered, proposal) ==
    [id |-> proposal.id, actor |-> registered.actor, group |-> registered.group,
     draft |-> task.draft, task |-> generation,
     statement |-> proposal.statement, covers |-> proposal.covers]

\* CandidateFormalization.evidence_hash: what a verdict names a candidate by.
\* The fields a run gives all its candidates alike are left out.
CandidateHash(candidate) ==
    [id |-> candidate.id, actor |-> candidate.actor, statement |-> candidate.statement]

\* The next translator answers; during the call it may have changed the
\* identity its object goes by.
Translate(a, proposal, later) ==
    /\ Running(a, "translate")
    /\ LET run == runs[a] i == Len(run.candidates) + 1 IN
       /\ i <= Len(run.cast.translators)
       /\ identity' = [identity EXCEPT ![run.cast.translators[i]] = later]
       /\ IF ProposalValid(proposal)
            THEN runs' = [runs EXCEPT ![a].candidates = Append(@,
                    BoundCandidate(run.task, run.generation, run.named.translators[i], proposal))]
            ELSE Fail(a)
    /\ UNCHANGED <<worker, clock, evaluations>>

\* _validate_candidates
NamedAsRegistered(run) ==
    \A i \in DOMAIN run.candidates :
        /\ run.candidates[i].actor = run.named.translators[i].actor
        /\ run.candidates[i].group = run.named.translators[i].group

\* _candidate_structure_checks
CandidatesSound(task, generation, candidates) ==
    /\ Independent(candidates)
    /\ Distinct([i \in DOMAIN candidates |-> candidates[i].id])
    /\ \A i \in DOMAIN candidates :
           /\ candidates[i].draft = task.draft /\ candidates[i].task = generation
           /\ candidates[i].covers = {o.id : o \in task.obligations}

\* The requests of a run, the reference's among them.
Asked(run) ==
    {ReferenceRequest(run.contract)} \cup
        {CandidateRequest(run.contract, run.candidates[i]) : i \in DOMAIN run.candidates}

\* run_canonical_type_gate begins once every translator has answered: two
\* candidates at least, then the query of the selected statement.
QueryReference(a) ==
    /\ Running(a, "translate")
    /\ LET run == runs[a] request == ReferenceRequest(run.contract) IN
       /\ Len(run.candidates) = Len(run.cast.translators)
       /\ \E result \in QueryAnswers(request, Asked(run), worker) :
           IF /\ NamedAsRegistered(run)
              /\ CandidatesSound(run.task, run.generation, run.candidates)
              /\ ResultValid(result, request, run.contract)
              /\ result.type = run.contract.type
             THEN runs' = [runs EXCEPT ![a].step = "query",
                                       ![a].reference = Observation(request, result)]
             ELSE Fail(a)
    /\ UNCHANGED <<identity, worker, clock, evaluations>>

\* The query of the next candidate, in the reference's environment.
QueryCandidate(a) ==
    /\ Running(a, "query")
    /\ LET run == runs[a]
           i == Len(run.observations) + 1
           request == CandidateRequest(run.contract, run.candidates[i]) IN
       \E result \in QueryAnswers(request, Asked(run), worker) :
           IF /\ ResultValid(result, request, run.contract)
              /\ Observed(run.contract, run.reference.at, result.environment, result.type)
             THEN runs' = [runs EXCEPT
                     ![a].observations = Append(@, Observation(request, result)),
                     ![a].step = IF i = Len(run.candidates) THEN "mutate" ELSE "query"]
             ELSE Fail(a)
    /\ UNCHANGED <<identity, worker, clock, evaluations>>

\* SelectedStatementBaseline: what is mutated is the contract's statement.
Baseline(task) == task.statement

\* _mutation_structure_checks: every required kind, changed and each its own.
SuiteSound(task, probes) ==
    /\ MutationKinds \subseteq DOMAIN probes
    /\ \A k \in DOMAIN probes : probes[k] # Baseline(task)
    /\ \A k, l \in DOMAIN probes : probes[k] = probes[l] => k = l

Mutate(a, probes) ==
    /\ Running(a, "mutate")
    /\ IF SuiteSound(runs[a].task, probes)
         THEN runs' = [runs EXCEPT ![a].step = "review", ![a].probes = probes]
         ELSE Fail(a)
    /\ UNCHANGED <<identity, worker, clock, evaluations>>

\* Mutant: only the semantic reviewer is compared with the agents.
RolesApartButSignoffs(candidates, mutator, reviewer, signoffs) ==
    LET translators == {candidates[i].actor : i \in DOMAIN candidates} IN
    mutator \notin translators /\ reviewer \notin translators \cup {mutator}

\* _assert_declared_actor_separation
RolesApart(candidates, mutator, reviewer, signoffs) ==
    LET translators == {candidates[i].actor : i \in DOMAIN candidates}
        outside == {s \in signoffs : s.independent} IN
    /\ mutator \notin translators
    /\ \A r \in {reviewer} \cup {s.reviewer : s \in outside} : r \notin translators \cup {mutator}
    /\ \A s \in outside : s.reviewer # reviewer
    /\ \A s, t \in outside : s.reviewer = t.reviewer => s = t

\* A verdict of the reviewer on one candidate, which it names by its content
\* (CandidateReviewVerdict, ObligationReviewVerdict).
JudgementFits(v, task, candidates) ==
    /\ \E i \in DOMAIN candidates : candidates[i].id = v.id /\ v.of = CandidateHash(candidates[i])
    /\ DOMAIN v.obligations = {o.id : o \in task.obligations}

\* Verdicts of the reviewer on the probes (MutationReviewVerdict).
ProbesJudged(probes, review) == DOMAIN review.detected = DOMAIN probes

\* SemanticReviewVerdict.__post_init__: no judgement without its evidence.
ReviewReasoned(review) ==
    {"source_to_normalized", "positive_example", "negative_example", "non_vacuity", "rationale"}
        \subseteq review.evidence

\* _assert_review_structure: the review judges every candidate once, every
\* obligation of each, and every probe.
ReviewComplete(task, candidates, probes, review) ==
    /\ review.independent
    /\ {v.id : v \in review.candidates} = {candidates[i].id : i \in DOMAIN candidates}
    /\ \A v, w \in review.candidates : v.id = w.id => v = w
    /\ \A v \in review.candidates : JudgementFits(v, task, candidates)
    /\ ProbesJudged(probes, review)

\* _evaluation_hash, _evaluation_payload: all that a report rests on.
EvaluationHash(task, generation, candidates, mutator, probes, review, signoffs) ==
    <<task, generation, candidates, mutator, probes, review, signoffs>>

\* The checks of a report that pass, as the reviewer judged.
PassedChecks(candidates, review) ==
    LET accepted == \A v \in review.candidates : v.accept
        obliged == \A v \in review.candidates : \A o \in DOMAIN v.obligations : v.obligations[o]
        rendered == \A v \in review.candidates : v.equivalent
        passed == [source_preservation     |-> review.source /\ obliged,
                   reverse_render          |-> rendered /\ accepted,
                   independent_translation |-> accepted /\ Len(candidates) >= 2,
                   positive_example        |-> review.positive,
                   negative_example        |-> review.negative,
                   non_vacuity             |-> review.nonVacuous] IN
    {kind \in DOMAIN passed : passed[kind]}

\* _build_report: a rejection makes a report too.
Report(contract, candidates, review, signoffs, evidence, now) ==
    [id |-> evidence, risk |-> contract.policy.risk, checks |-> PassedChecks(candidates, review),
     detected |-> {k \in DOMAIN review.detected : review.detected[k]},
     signoffs |-> signoffs \cup
         {[reviewer |-> review.by, role |-> "semantic_reviewer", independent |-> review.independent,
           accept |-> review.accept, at |-> now]},
     at |-> now]

\* FidelityEvaluation
Evaluation(run, review) ==
    LET signoffs == run.cast.signoffs
        evidence == EvaluationHash(run.task, run.generation, run.candidates, run.named.mutator,
                                   run.probes, review, signoffs) IN
    [task |-> run.task, generation |-> run.generation, candidates |-> run.candidates,
     gate |-> GateEvidence(run.contract, run.reference.at, run.reference, run.observations),
     mutator |-> run.named.mutator, probes |-> run.probes, review |-> review,
     signoffs |-> signoffs,
     report |-> Report(run.contract, run.candidates, review, signoffs, evidence, clock),
     named |-> run.named]

\* assert_binds, its second half: the report says what the evidence gives, but
\* for the time, which only the report records.
ReportBinds(e, contract) ==
    LET evidence == EvaluationHash(e.task, e.generation, e.candidates, e.mutator,
                                   e.probes, e.review, e.signoffs) IN
    e.report = Report(contract, e.candidates, e.review, e.signoffs, evidence, e.report.at)

\* FidelityEvaluation.assert_binds, re-run before a freeze: everything above
\* follows again from the contract at hand.
AssertBinds(e, contract) ==
    /\ ClaimBinds(contract, e.task.span)
    /\ e.task = TranslationTask(contract, e.task.span, e.task.obligations)
    /\ ObligationsValid(e.task, contract)
    /\ e.generation = GenerationTask(contract, e.task)
    /\ EvidenceBinds(e.gate, contract, e.candidates)
    /\ CandidatesSound(e.task, e.generation, e.candidates)
    /\ SuiteSound(e.task, e.probes)
    /\ ReviewComplete(e.task, e.candidates, e.probes, e.review)
    /\ RolesApart(e.candidates, e.mutator, e.review.by, e.signoffs)
    /\ ReportBinds(e, contract)

\* The reviewer answers and run() ends, with an evaluation or by raising.
Review(a, verdict) ==
    /\ Running(a, "review")
    /\ LET run == runs[a] evaluation == Evaluation(run, verdict) IN
       evaluations' = [evaluations EXCEPT ![a] =
           IF /\ ReviewReasoned(verdict)
              /\ verdict.by = run.named.reviewer
              /\ AssertBinds(evaluation, run.contract)
             THEN @ \cup {evaluation} ELSE @]
    /\ Fail(a)
    /\ UNCHANGED <<identity, worker, clock>>

\* A call of an agent or of the type query raises, and run() with it.
Raise(a) ==
    /\ runs[a] # Idle
    /\ Fail(a)
    /\ UNCHANGED <<identity, worker, clock, evaluations>>

\* The operator deploys another worker image (external).
Redeploy(environment) ==
    /\ worker' = environment
    /\ UNCHANGED <<identity, clock, runs, evaluations>>

\* The wall clock moves, forwards or, when it is set, backwards (external).
Tick(now) ==
    /\ clock' = now
    /\ UNCHANGED <<identity, worker, runs, evaluations>>

AgentStep(a) ==
    \/ \E proposal \in Proposals, later \in Identities : Translate(a, proposal, later)
    \/ QueryReference(a)
    \/ QueryCandidate(a)
    \/ Raise(a)
    \/ \E probes \in Suites : Mutate(a, probes)
    \/ \E verdict \in Verdicts : Review(a, verdict)

FidelityNext ==
    \/ \E a \in Authors : AgentStep(a)
    \/ \E environment \in Environments \ {worker} : Redeploy(environment)
    \/ \E now \in (0..MaxTime) \ {clock} : Tick(now)
=============================================================================
