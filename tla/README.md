# A TLA+ model of AutoLean

AutoLean moves a formalization task from a Builder, which freezes a contract and hands over a
*bundle*, to Prover workers, which lease the bundle and submit proofs, gap reports and change
requests, to a verifier, whose signed report becomes the proof's verdict. The control plane
(`packages/control_plane`) registers bundles, leases them, records evidence in an append-only
SQLite log, rations the use of language models and projects the log for the dashboard.

Modelled are: the control plane as a whole; the Builder's way from a cached source to a bundle;
the Prover's use of model providers; and the verifier's execution of a proof, from the container
runs to the signed report. Any number of processes open the same SQLite file and the same
directories; every command may be delivered again, concurrently with itself, after a crash or after
its lease has expired; files are edited, leases replaced and authority withdrawn while calls run.

## Inventory

| Component | State it keeps | Operations | What is hard | What makes it correct |
| --- | --- | --- | --- | --- |
| Lease store (`leases.py`) | tables `worker_leases`, `lease_counters` | claim, renew, release, assert_current, current | the clock is read before the write lock is obtained; release checks in one connection and deletes in another | one holder per job, fresh tokens, a live lease is not stolen |
| Event store (`events.py`) | tables `events`, `entity_versions`, `idempotency_records`, `attestation_nonce_uses`, `contract_revision_bindings` | append, append_fenced, append_contract_revision_registration, opening with its comparison and backfill | compare-and-swap against a version read earlier; a fence checked inside the transaction; retries under old and new keys | exactly-once effect, gapless streams, a revision bound once, nonces spent once, the store opens again |
| Command service (`service.py`, `builder_fidelity.py`) | the locals of calls in progress | register_bundle, claim, four evidence commands, get_binding; its own checks of Builder and verifier evidence | each command is several database accesses; any process may act or die between them | fencing of evidence, sound verdicts, agreeing answers; it admits what Builder and verifier rightly produce |
| Artifact store (`artifacts.py`) | content-addressed files | put, get, verify | no lock; callers die at every step; others damage files | what a name holds is what it names |
| Projection (`projection.py`) | none; recomputed from the log | snapshot | raises on logs it considers impossible | never raises on a log the service can write; its two replays agree |
| Verifier signing gateway (`verifier_signing_gateway.py`) | table `verifier_signing_requests` | issue | an independent execution and a signature between checks and ledger writes; a crash in between | signs only for a live, exact lease; once per request |
| Model authorization (`model_authorization.py`) | a ledger of approvals, capabilities, reservations, settlements, revocations; provider health | register_operator_approval, issue, revoke, preflight, reserve, settle, abandon | concurrent reservations against one budget; revocation between reservation and settlement; lost workers | budgets hold, one capability per key and per authorization, the circuit opens only for provider faults |
| Provider registry (`Prover/.../providers/registry.py`) | registered providers | register, generate | one step of several failing; providers that change after registration | every reservation is settled, abandoned or visibly held; every call ends |
| Reference cache (`Builder/.../reference_cache.py`) | manifest file, cached files | load, fetch, import, verify | the lock is one process's; refresh over a good copy; republished manifests | a good copy is replaced by a good copy only |
| Pilot admission (`pilot_harness.py`) | pilot manifest, admission receipts | load, admit, recheck | a receipt outlives the manifest it was issued for | nothing is drafted over an open or blocked claim, at any distance |
| Fidelity harness (`fidelity_harness.py`) and type gate (`canonical_type_gate.py`, `scripts/builder_canonical_type_gate.py`, parts of `oci_mathlib_worker.py`) | locals of a run, the worker's environment | run: translate, query, mutate, review | agents and worker can change between two calls of one run | no agent reviews itself; all types are from one environment |
| Statement builder (`source_harness.py`, `source_preparation.py`, `workflow.py`) | preparation ledger, packets, evaluations, frozen contracts | prepare_draft, run, freeze, bridge | an author dies after its ledger row; rights change; the clock is set back | one draft per revision; a bundle is what was checked |
| Self-calibration (`self_calibration.py`) | round file, the Library's tree | load_self_calibration_round | file and Library are read piece by piece, the tree file by file, while others edit them | a returned round was sound, its receipts genuine, and each file it names was there |
| Boundary decisions (`pilot_harness.py`, `fine_span_attachment.py`) | decision, attachment and matrix files, the Lean source, packet and receipt in the workspace | load, bind to the pilot, match with cache and workspace | the files are read one after the other while others edit them | what replays is of one build and quotes all the target rests on |
| Experience retrieval (`experience.py`) | catalogs, context packs in files | retrieve, from_bytes, replay | a token estimate that is part of what it estimates; edited files, changed catalogs | packs within their limits and rights, replays exact |
| Proof execution (`Prover/.../execution/workspace.py`, `oci.py`, `verification.py`) | attempt workspace, snapshot, handoff directory, containers | observe, run | files change under it; leases are replaced; a timed-out container lives on | a positive report is true of the proof that was run |
| Verification client (`verification_attestation.py`, `verification_gateway.py`) | locals of an attestation | attest via the gateway | an observation presented with another submission, another proof's digest or another lease; submission and digest are two arguments nobody compares before `verify_submission` | one lease from the first command to the signature; what is admitted is of the registered text |
| Contract models, provider adapters, Dashboard, benchmarks, other Library and operations scripts | documents, network, files | validation and I/O | nothing of their own that is concurrent | see *Not modelled* |

Components interact through calls and through the shared SQLite file. `service.py` calls the lease
store and the event store in separate transactions; `append_fenced` reads the lease row inside its
own transaction, and so does every transaction of the model authorization; the gateway reads leases
and the log and its signature comes back inside a report; the projection reads the log only. The
Builder and the verifier reach the control plane through documents alone: a bundle with its fidelity
evidence, a report with its execution evidence. The control plane checks both with code of its own.

## Modules

| Module | Models |
| --- | --- |
| `LeaseStore` | `leases.py`. `worker_leases` is a set of rows, `lease_counters` a function. One action per transaction; `now` is a parameter of claim and renew because the code samples it before the transaction; release is `ReleaseCheck` then `ReleaseDelete`. `granted` (every lease ever returned) is history, `releasing` the calls of release between their two steps. |
| `EventStore` | `events.py`. Tables as sets of rows; the three appends as bodies of one transaction each; `OpenRaises` and `Backfilled` are what opening a store does. It extends `LeaseStore` because `append_fenced` reads the lease row. |
| `ControlPlane` | `service.py` over both stores. `calls[c]` holds the locals of a handler between two of its database accesses. Commands are records of the constant `Requests`; documents, hashes and signatures are reduced to the fields the checks compare. |
| `FencedLedger` | The abstract specification: one fence per bundle that only advances, and a ledger whose entries are recorded once, under the current fence, a verdict only after its proof. |
| `SigningGateway` | `verifier_signing_gateway.py` beside the whole control plane: `signing_requests` is its ledger table, `issuing[g]` the locals of an `issue` in progress. It replaces `ControlPlane!Sign`, which says only what `verify_submission` relies on: with the gateway, a report carries a signature some `issue` returned. `signed` and `issued` (all signatures, all answers) are history. |
| `Projection` | `projection.py`: when the replay of a log raises, and the snapshot it yields otherwise (statuses, runs, artifacts, feedback by bundle). Loops over the log are conditions on events; "last write wins" is the greatest position. |
| `TaskGraph` | The graphs of a bundle (`graphs.py`, with their validators), the nodes `_graph_nodes` makes of them at registration and what the projection shows of those: public identities and leverage counts. The reference definitions (`RestsOn`) are on the documents and use no algorithm. |
| `ModelAuthorization` | `model_authorization.py` over `LeaseStore`: the ledger is a sequence of entries that is only appended to, `minting` the `issue` calls between signature and transaction. |
| `ProviderRegistry` | `registry.py` over `ModelAuthorization`: `runs[p]` holds the locals of a `generate` in progress, `drifted` the providers that no longer are what was registered; `called`, `answered`, `lost` are history. |
| `ReferenceCache` | `reference_cache.py`: threads of several processes acquire, everyone verifies. `files` is the cache directory, `tracked` the manifest file, `loaded` the version each process holds. |
| `PilotAdmission` | `pilot_harness.py`: manifests of claim graphs, readiness, receipts. |
| `CanonicalTypeGate` | `canonical_type_gate.py`, its adapters and the worker's declaration query, as operators: an answer, its raw output and everything the gate compares. What Lean prints is external. |
| `FidelityHarness` | `fidelity_harness.py`: a run call by call, with agents that may rename themselves and a worker that may be replaced. |
| `StatementBuilder` | Composes `ReferenceCache`, `PilotAdmission` and `FidelityHarness`: `source_harness.py`, `source_preparation.py`, the freeze gate, freeze and bridge of `workflow.py`. |
| `BuilderAdmission` | The control plane's reading of a Builder bundle (`_verify_builder_fidelity_artifact`, `builder_fidelity.py`), written from its code and not from the Builder's. |
| `SelfCalibration` | `self_calibration.py` beside `StatementBuilder`: a load in steps. The input tree is listed (`OpenModules`, `ListModule`) and then hashed one file at a time (`HashFile`); tracked packet and receipt are read for their digests and again for their contents. |
| `BoundaryDecision` | The pilot's V2 boundary decisions (`pilot_harness.py`) and their fine-span attachments (`fine_span_attachment.py`), replayed file by file against pilot manifest, cache and workspace, beside `StatementBuilder`. |
| `ExperienceRetrieval` | `experience.py`. |
| `ArtifactStore` | `artifacts.py`: temporary file, fsync, link, verification, one action each. |
| `ProofExecution` | Workspace, rendering, the two container phases, claim and hash checks, sealed handoff, report. |
| `ProofVerification` | Composes `ProofExecution` and `ArtifactStore`: binding of report and execution to the submission, evidence, request for a signature, and what the gateway compares before it signs. The digest of the registered proof is an argument of its own, as it is in `prepare_oci_verification_evidence`. |
| `VerdictAdmission` | `verify_submission`'s reading of a signed report and its evidence, written from its code: bundle and registered proof are read back from the store by their digests, and the bytes that were run are compared with what they render to. |
| `MCLeaseStore`, `MCControlPlane`, `MCRegistry`, `MCSigningGateway`, `MCProviderRegistry`, `MCModelExecution`, `MCBuilder`, `MCProofVerification` | Instances for TLC. Where an instance has several *plans*, a behaviour picks one at the start and the plan says which inputs and which faults it meets: independent questions do not multiply. |
| `LeaseStoreProofs`, `ControlPlaneProofs`, `ProjectionProofs`, `SigningGatewayProofs`, `ProviderRegistryProofs`, `ProofVerificationProofs`, `BuilderProofs` | Theorems and proofs. |
| `InductionProofs` | Induction over sets of naturals, sums over finite sets, work lists, finite orders and recursion, for the other proofs. |

How the handlers are cut (each `|` is a point where other processes act, or this one dies):

    claim      lookup, get_binding | leases.claim | current_sequence | append
    evidence   lookup, get_binding, checks, put artifact | append_fenced
    register   lookup, Builder authority, put artifact | append_contract_revision_registration
    issue      time and binding | ledger lookup | independent execution, binding | reserve |
    (gateway)  remaining time | binding, sign | checks, binding again | record and return
    issue      checks, sign | transaction
    (model)
    generate   binding, preflight | reserve | probe, binding | provider.generate, binding |
               settle | abandon when anything after the reservation failed
    acquire    lock, existing copy | bytes to a temporary file | check | os.replace
    fidelity   register | translate, ... | query reference | query candidate, ... | mutate |
               review and report
    draft      sources, rights, pilot receipt | ledger transaction
    freeze     revalidation, freeze | second reading of the clock, bridge
    decide     decision, pilot | cached text | source | packet | receipt, profile
    attach     attachment | decision, references | matrix | cached text
    calibrate  file and bindings | identity receipts | list modules, one step each | hash, one
               file each | Lake manifest | toolchain | targets, one each | packet | receipt |
               packet again | receipt again, return
    observe    write, render | checks | launch | cleanup | checks after the phase | seal |
               query phase | report
    attest     binding, begin put | steps of put | stored | gateway's comparisons, sign
    put        digest | temporary file | fsync | link | verify

Steps that only read and that precede the first write of a command are one action with it: what
they read only grows (log, artifacts), or is read again inside the transaction (lease row,
idempotency row, version, nonce). A handler that raises leaves every table as it was and is
`Drop`; so is a process that dies. A handler that raises before its first write is no step at all.
A restart of the control plane needs no action: nothing but `calls` is lost. Builder processes do
have a start, because they keep the manifests they loaded then.

In the gateway each check of the authoritative binding is one step, taken when it reads the lease:
its other reads are of the log and of artifacts, which only grow. The receipt of the independent
execution is authentic or the call ends (`Abandon`); whether the stored evidence agrees with the
report is a field of the ticket, because an artifact never changes. A call that raises after its
reservation marks its row failed (`Fail`); one that dies leaves it pending. `ProofVerification!Sign`
is the same call seen from the client: lease, registered digest and dependency manifest, evidence as
stored; `confirmed` is the independent execution verifier's word, external and unconstrained.

A query of the type gate is one step with respect to the repository's files: the adapter compares
the Lake manifest before and after it, and a manifest changed and restored in between leaves no
trace. A query gives no answer at all when the image was not built from the current manifest or the
source cache is behind the lock.

`Mutant` operators are plausible bugs, each placed before the definition it would replace and used to
confirm that a property notices it; no specification uses them.

## Runs

| Run | Instance | Shows |
| --- | --- | --- |
| `lease_store` | 1 job, 2 workers, TTL 2, time to 3, 2 tokens | one row per job with the newest token, fresh tokens and no stolen lease, with clock samples as old as the caller's own lease allows |
| `fencing` | 1 bundle, 2 workers, 2 processes, TTL 1, time to 2, 2 tokens; one proof, its verdict and a gap report | types, exactly-once effect with agreeing answers, fence order, silence of stale fences, refinement of `FencedLedger` |
| `registry` | plan 1: 2 bundles, 3 contract hashes of 2 revisions, registrations with reused keys and nonces, a proof verified through the other bundle; plan 2: competing claims and reviews; plan 3: proofs and verdicts; direct attestations allowed | verdicts about the right bundle, the store opens again, nonces spent once, whole log with stored documents, a dashboard whose two replays of the log tell one story and whose leverage counts are those of the registered graphs, listed in an order of study |
| `shared_review` | a gap report and a change request with one identifier | *violation*: the projection raises |
| `redelivery` | one claim delivered twice across an expiry | *violation*: evidence under a token no claim event records |
| `signing_gateway` | 1 bundle and worker, 1 command at a time, 2 `issue` calls, TTL 2, time to 1; one report asked for under two keys, at 0 for one tick and at 1 for two | one signature per payload, agreeing retries, kept reservations, no signature longer than its lease, failed attempts closed for ever, and that the gateway implements what `ControlPlane` assumes |
| `older_expiry` | the same | *violation*: a signature over an older expiry of the lease is accepted |
| `model_execution` | plans: two processes under one capability with two attempts, drift, revocation and crashes; one process under the capabilities of two successive leases; two issuers with retried requests | one capability per key and per authorization, budgets, a ledger that replays, calls within attempts, every call accounted for, the circuit opens for provider faults only |
| `generation_ends` | 2 processes, 1 capability, under fairness | every `generate` ends |
| `revocation` | the same | *violation*: a revoked capability is used for a generation |
| `builder` | plans: cache, drafts, sources, pilot, calibration, decision, experience, agents, research, clock | good copies kept, one draft per revision, no self-review, admitted sources, bundles the control plane admits, sound rounds and boundary decisions, sound packs |
| `proof_verification` | plans: files change; leases, containers and processes fail; the store is shared; the worker's image differs; the caller presents any submission with any digest, from a verifier that may not be independent | a positive verdict is true of the proof that was run, made under one lease, with no container left, sound blobs; the control plane admits it if and only if it is of the registered text, and computes the same verdict |

Bounds. Two tokens make a holder and its replacement; time to TTL + 1 lets a lease expire and a
late sample be used; two calls in progress race every pair of steps; each command can be delivered
any number of times, so the third and later deliveries are covered too. `registry` stops the clock
(`MaxTime = 0`) because what it asks does not involve expiry, and lets the commands vary instead.
Its documents are five small graphs: two equivalent nodes over a third,
a chain with a double edge, a diamond over `NodeLimit` (the code's 512 scaled to 3), a node alone,
and circular prerequisites, which are refused. `MaxTime` and `MaxToken` appear only in guards. Callers are interchangeable, and so are `issue`
calls and Prover processes, hence the symmetry sets. `signing_gateway` needs two calls for a race
and two requests for one payload; the tick between the requests lets the first one lapse, a renewal
give the lease a second expiry, and the signer read a later clock than `issue` did. `MaxTtl` and
`Margin` are the gateway's own limits, not bounds of the model.

`model_execution` gives one offer room for two attempts at once, or for more output when one of them
is abandoned, so every limit of a budget is the tight one in some behaviour; its rates make cached
input dearer than fresh input, the case the reservation has to foresee. `builder` has two authors
and three threads of two processes; its inputs are sound ones and
variants of them with a single flaw; what else it bounds (one run at a time, one edit of a file, one bundle per author) is
listed at `MCNext` in `MCBuilder`. `proof_verification` allows three changes of files, enough to
replace statement, candidate and sealed output consistently, three fencing tokens, two observations,
and ends a behaviour at its first verdict, because verdicts do not influence each other. Its plan
`caller` makes one observation and stores one piece of evidence, but takes every pair of submission
and digest (two proofs are registered; four more submissions reuse their identifiers with another
text or other dependencies), and there somebody may damage the stored bundle or a registered proof;
under `store` it is the evidence that is damaged. Plan `calibration` of `builder` starts with the
Library in one of three states and changes one of round file, reference manifest and Library once
during a load; for the Library that is at any point of the scan, and a load that returns ends the
behaviour.

Deadlock is not checked: with a bounded clock and bounded tokens the systems do stop, and so does a
control plane to which no command is sent.

Fairness. Only `generation_ends` and `revocation` assume any: `FairRSpec` is weak fairness of the
own steps of each `generate` in progress (`RunStep`). The code justifies it: provider calls carry
timeouts and transactions end. Nothing is assumed of operators, leases, the clock or crashes, and no
fairness is stated for the other modules, whose code schedules nothing itself.

### What the violations mean

`shared_review`. Gap reports and change requests live in streams of different types, so one stable
identifier can be used in both; `_phase_feedback` collects both kinds in one set and raises
`ProjectionError` on the second. From then on no snapshot can be computed, although
`docs/protocol.md` says that projections can be discarded and rebuilt.

`redelivery`. `claim` takes the lease and appends `task.claimed` in two transactions and returns
its own lease with whatever event the append yields. When two deliveries of one claim race and the
first one's lease expires before the second takes its own, the second receipt pairs token 2 with
the event of token 1. Token 2 is then valid for evidence and no event says who claimed it. Fencing
itself is unharmed, as the `fencing` run and the theorems show.

`older_expiry`. `docs/attestation.md` says that `verify_submission` reconstructs the signed payload
from the current lease, so that a signature minted under an older holder, token or expiry fails.
The code reconstructs it from the lease the caller presents, and the fence compares holder and
token only. After a renewal a signature over the earlier expiry is therefore still accepted from a
caller that presents the earlier lease. Older holders and tokens do fail, and the signature itself
ends no later than the earlier expiry (`NothingOutlivesLease`), so nobody's authority is extended.

`revocation`. The docstring of `preflight` says that a revocation racing with a probe still prevents
generation, because `reserve` repeats the checks. `generate` reserves before it probes, and calls
`provider.generate` after the probe without asking the gate again; a capability revoked during the
probe is used. The settlement is refused afterwards, so the response is not handed out.

### Observations

These follow from the code, contradict no statement of the repository, and explain why some
properties say less than one might expect.

- A claim recorded late makes the dashboard show a verified task as running again, and a bundle once
  counted as blocked stays so; `SnapshotSound` says that the two replays behind a snapshot
  tell one story, in the order of the log.
- `_graph_nodes` takes every edge of a graph for a dependency, equivalences and motivations included,
  so two equivalent nodes rest on each other in the dashboard; `LeverageSound` counts them so too.
- A compilation that fails under a claim is recorded as `unobserved` and cannot be attested. An
  integrity failure after a run does give an attestable negative report; so `VerdictFaithful` is
  about acceptances. A file changed and restored between two checks is not noticed.
- A calibration round may be returned although the Library never had its input tree:
  `_library_input_tree_sha256` lists the paths, then hashes one file after the other, so the digest
  of a tree half from before and half from after an edit can be the one the round names.
  `CalibrationSound` therefore asks it of each file: a file of the tree was there, regular and with
  these bytes, at some moment of the load, and a path that is not in the tree was missing at one.
  (When nothing is edited during a load there is one such moment, and it is the Library's tree.)
  `DecisionSound` is likewise about each file at a moment of the replay.
- `prepare_oci_verification_evidence` takes the submission and the digest of the registered proof as
  two arguments and matches the digest against a pattern only; the gateway compares digest and
  dependency manifest with the proof's event, but not the bytes that were run. A report of another
  text under the same proof identifier is signed, unless the independent execution verifier refuses
  it, and is refused by `verify_submission`, which renders the registered proof itself.
  `VerdictFaithful` is about the text that was run, `VerdictAdmitted` about the registered one.
- `TrustedLeanVerifier` runs with `independent=False` too; such a report is signed and admitted, and
  then counts as a failure. `clean_environment` is true of every report that can be attested.
- Nothing relates the Lean source a boundary decision names to the input tree its receipt was built
  from, nor the text of an attachment to the text of its decision; both are only compared with what
  lies on disk.
- The Builder's check of a scripted output does not compare the import snapshot, the control plane's
  does; the control plane does not ask that direct imports lie in the closure. A contract without a
  Lake manifest can be frozen by the Builder and is refused at registration
  (`builder_fidelity.py:269`); `HandoffAdmitted` is about contracts that name one.
- A repository-derived text with manifest-bound authority loads with the manifest and is refused by
  the source harness.

## Proofs

Every theorem is about every value of the constants: any number of jobs, workers, processes, agents
and commands, graphs and manifests of any size, every TTL, budget and bound. The assumptions on
constants are the named `ASSUME`s; each says what the code's own types and validators guarantee, and
TLC evaluates it on every instance. `LeaseAssumption` (a positive TTL), `RequestAssumption` (commands
name existing bundles, workers and operations) and `DirectAssumption` are behind the first three
groups below; the others are named where they are used.

*Lease store.* `LeaseInv` is types, `OneRowPerJob`, `RowHasNewestToken` (together `LeaseRowsSound`,
theorem `LeaseRows`) and `TokenNamesOneHolder`. `TokenNamesOneHolder` alone is not inductive: a claim hands out counter + 1,
which is fresh only because every token ever granted is at most the counter
(`RowHasNewestToken`). `LeaseNotStolen` needs no freshness of the sampled time: a claim replaces a row
that was expired at `now <= clock`, hence expired at `clock`.

*Service.* `TypeInv` is `TypeOK` and `LeaseInv`; `NextIsLeaseStep` shows that every step of the
service is a step of the lease store or none, so `LeaseInv` carries over and `Spec` implements
`LeaseSpec` (`ImplementsLeaseStore`). `LogInv` adds `Positions` (global positions are distinct and
at most `head`), `EvidenceBound` (tokens of evidence are at most the counter, documents bind a
registered contract), `ChecksHold` (what a call has checked stays true until it commits) and the
properties of the log. `LogStep` reduces every step to "appends one command's event" or "leaves
the log alone". `LogComplete` is `LogWhole`: gapless streams and stored documents. `VerdictSound` is the one that needs the rest: the verdict's stream was empty
(`StreamsGapless`), the proof was found by contract hash only (`ChecksHold`), its bundle registered
that contract (`EvidenceBound`), and a revision is registered once (`ReopenSucceeds`), so it is the
same bundle. `RefinesLedger` maps `fence` to `lease_counters` and `ledger` to the evidence of the
log.

*Delivery* (at the end of `ControlPlaneProofs`). `DeliveryInv` strengthens `ExactlyOnce` with `RecordsOwnEvents` (only retried
registrations share an event), `RepliesRecorded` (every answer has a row) and `NoncesSpent`.
`DeliverySafety` states `ExactlyOnce` and `RepliesAgree` in one.

*Dashboard* (`ProjectionProofs`). `SnapshotAlwaysSound` is about `GraphSpec`, the service whose
registrations carry valid graphs, from `GraphAssumption` (a document's mathematical graph is finite)
and under the hypothesis `ReviewIdsDiffer`: no gap report and change request of one bundle share
their identifier. The hypothesis is the exact condition the run `shared_review` violates; the
commands of the run `registry` satisfy it. The projection keeps no state, so its proof has two parts.
`ReplayInv` is what a replay needs of the log beyond `LogInv`: every position up to the head is
taken (`Filled`), whatever is recorded of a bundle follows its registration (`Followed`, which needs
`CallsKnown`: a call past its lookup has found the bundle registered), each kind of evidence uses an
identifier once (`EvidenceOnce`), and what is registered is valid (`DocumentsValid`). From these,
`DashboardHolds` compares the two replays: every verdict comes after its only submission
(`VerdictAfter`), so the latest verdict the list of runs shows is the only one the feedback has seen.
`LeverageHolds` compares the leverage counts with the documents: identities carry their bundle and a
bundle is registered once, so no registration overwrites another (`TaskNodesAre`); the work list
finds the least set closed under dependents (`WorkListDone`, with `Saturated`), and that set is the
one `RestsOn` describes without an algorithm (`TransitiveAre`); more rests on a node than on what
rests on it (`MoreAbove`), hence the order of study.

*Signing gateway.* From `GatewayAssumption` as well (limits and dates are natural numbers).
`GatewayInv` is `GatewayTypeOK`, `CallOK` (what a call holds fits its program counter: past the
reservation its row is pending, before the signature its payload is unsigned), `RowsUnique` (the
UNIQUE columns), `OwnersDiffer` (no two calls own one reservation), `SignedReserved` (every
signature has a row for its payload), `RowsHoldSignature`, `AnswersRecorded` and
`AttestationsSigned`. The argument: the UNIQUE columns make a reservation
exclusive, so only its owner may sign the payload and does so once; the row then holds the only
signature, and every answer is read from a row. `GatewayInv` and `TypeInv` are proved together
(`GatewayInvariance`), because a step of the gateway is a step of `ControlPlane` only in states
that satisfy both; `GatewayRefinesSign` follows, and with it every theorem about `Spec` holds of
`GSpec`. `InterruptedFailsClosed` is the action property `FailsClosed`.

*Model authorization and provider registry* (`ProviderRegistryProofs`). From `AuthorizationAssumption`
and `OfferAssumption` (rates, limits and token counts are natural numbers) as well. `RInv` has five
layers. The lease invariant comes along as in the service. `RTypeOK` gives every table its columns.
`CapabilitiesInv`: one stored capability per id, one issue request per key, and every capability was
issued for a lease of its bundle that the store granted; `OneCapability` follows. `LedgerInv`: the
replay of the ledger raises nowhere, every row is one of a stored capability and under its token, and
the tokens of a bundle's rows are in order; the last needs the lease invariant, because a reservation
is made under the row that carries the newest token. `BudgetHolds` bounds a sum over the rows of a capability by its offer; a
reservation checks the sum with its worst case added, a settlement replaces a term by a smaller one,
and an abandonment by 0. `CallsInv`: a call in progress
holds an open reservation that no other call holds, for exactly the worst case of its prompt, and
has not called its provider under it before; `CallsWithinAttempts`, `CallsAccounted` and
`CircuitJustified` follow.

*Sums and induction* (`InductionProofs`). `SumFunctionOnSet` is a recursion over the subsets of a set, so what the budgets need
of it (it is defined over every finite set, can be taken apart at any element, grows with its terms)
is an induction. The prover cannot instantiate an induction theorem that takes an operator, so
induction is stated for a *set* of naturals (`SetInduction`), from the library's theorem that the
order of the naturals is well-founded. `Saturated` is about work lists: one that has run as many
rounds as there are elements is saturated, from the cardinality of an increasing chain of subsets.
`RankTaken` is about sorting: in a finite strict order every rank is taken, and once. A recursive function
is a `CHOOSE` until something is shown to satisfy its equation: `StepsExist` gives one for a recursion
over a counter, `LoopExists` for a loop that applies a monotone function until nothing changes, and
`LoopFinds` shows that such a loop, started at 0, ends at the least fixed point if it is bounded.

*Proof execution and verification* (`ProofVerificationProofs`). From `ExecutionAssumption` and
`VerificationAssumption`. `ExecutionAssumption` says which files others can change: all but the
compiler's output, which lies in a directory of mode 0700. Without it `VerdictFaithful` fails: output
replaced between the compiler's end and the seal is sealed as it is. `ExecutionInv` follows a run
step by step: which containers it has (`ContainersInv`), which tokens it has seen since its first
command (`LeaseSeen`), and, unless somebody undid a change, that what was hashed is what was
compiled, what was sealed is what was queried, and what was printed is what Lean says of it
(`Traced`, `Evidenced`). `StoreInv` is about blobs and puts, `RegistryStored` says that bundle and
registered proofs stay in the store. `SigningInv` binds a call and a verdict
to the report they carry (`Bound`), and a verdict to what the gateway compared (`VerdictBound`).
`VerdictFaithful`, `OneLeasePerVerdict`, `NoContainerLeft` and
`BlobsSound` are consequences. `VerdictAlwaysAdmitted` then compares the three programs: what was
signed for the registered text passes every check of the control plane, which are modelled from its
own code (`RegisteredAdmitted`); what passes them is of the registered text, because the candidate in
the evidence is the one rendered from the submission that was presented and the control plane
compares it with the one rendered from the stored proof (`AdmittedText`), so an acceptance is true
of the registered proof; and the failures it computes are none exactly when kernel, dependency and
independence checks passed (`SameVerdict`).

*Builder* (`BuilderProofs`). About `ESpec`: the Builder with the loads of calibration rounds and the
replays of boundary decisions beside it, from `ManifestAssumption`, `ThreadAssumption`,
`PilotAssumption` (graphs are finite), `CastAssumption` and `BuilderAssumption`. `BInv` follows a
statement: processes hold manifests that loaded (`CacheInv`), a cache call puts in place only what it
has inspected (`AcquisitionInv`, hence the action property `KeepsGoodCopies`), harnesses hold pilots
that loaded (`PilotInv`), a run keeps the names under which its agents were registered
(`FidelityInv`), a draft exists in a harness only (`DraftsInv`), and whatever is frozen or bundled is
the recorded draft, of a source that permits it, with an evaluation of that very statement
(`LedgerInv`). `EInv` adds what a load or a replay has compared so far (`CalibrationInv`,
`DecisionInv`). For a load this is `LookedAt`: during the scan, every file hashed so far had these
bytes at a moment since the load began, and every path that is neither hashed nor still to be seen
was missing at one (`Scanned`); the digest's agreement turns it into a statement about the round's
tree. Nothing stronger is true, since the files are read at different moments.

The invariant is not enough for `SourceAdmitted` and `PilotEvidenceSound`: the Builder
decides with a work list whether anything a claim rests on is blocked, and the property speaks of
everything it rests on, at any distance. `ClosureComplete` shows that the work list finds it all, for
graphs of any size: a list that has run as many rounds as there are nodes is saturated
(`Saturated`), and a saturated set that holds the target holds whatever every such set holds. `HandoffAdmitted` is a comparison of two programs: every
check of the control plane is derived from what the Builder's own checks established.

*Experience packs* (the last part of `BuilderProofs`). `ExperienceAlwaysSound` is about
`ExperienceSpec`, from `ExperienceAssumption`: lengths and digests are numbers, two records with one
digest are equal, and names are of their enumerations; no bound on sizes, records or queries. The
inductive invariant is short: `ExperienceInv` says that catalogs hold valid records, that every pack
kept is what its catalog answers to its query (`Origin`), and that no edit takes the length of the query
out of a file. A replay keeps it because `render` tells packs apart (`RenderedTells`): a file that
passes is the pack that was retrieved again, whoever edited it. The work is in what a single answer is:

- `EstimateCovers`: the number of digits grows with the number (`DigitsCounted`), so the loop of
  `_estimate_pack_tokens`, whose estimate is part of what it estimates, ends, and at the least estimate that
  covers the pack with the estimate's own digits; hence a longer pack never gets a smaller estimate
  (`EstimateMonotone`). The code has no bound on the rounds of this loop and needs none;
- `CandidatesComplete`: `_rank_key` orders records strictly and totally, the digest deciding at last, so the
  sort loses no candidate and repeats none;
- `SelectionChosen`, by induction over the candidates tried: the selection is within both limits, and a
  candidate that was passed over does not fit the finished pack either, because a pack only
  grows after it (`TokensGrow`). The reason for which it was left out is the one the property asks for;
- `RetrievedLoads`: the pack passes its own validation and, rendered, every check of `from_bytes`.

Every invariant and action property of a run is stated by a theorem. Only model-checked:

- `CallsEnd`, because liveness under fairness is beyond the prover;
- the four violations, which are counterexamples.

## Not modelled

Contents of documents, hashing and signature arithmetic; SQLite itself (transactions are taken as
atomic and durable, as `synchronous = FULL` and `BEGIN IMMEDIATE` provide); clocks that differ
between hosts (the processes share one host's clock; only the Builder's freeze, which says something
about it, meets one that is set back). Besides these:

- the contract models (`packages/contracts`): typed documents and canonical forms, data without
  control, apart from the graphs (`TaskGraph`); what their validators relate is modelled where it is used;
- provider adapters: requests and responses over the network;
- `BuilderCase`, a stage counter nothing reads, and `create_next_revision`, which copies a document;
- `lean_runner.py`, the runner without containers, `validate_patch` and `proof_dependencies.py`, pure
  functions of a text;
- the local signer of `verification_attestation.py`, a composition for tests, and the gateway's
  production authority, which every local composition refuses;
- the projection's export file;
- Dashboard, benchmarks, and the build, release and test drivers among the Library and operations
  scripts.

## Plan

What the modules cover is checked and, liveness apart, proved. An extension would start with what is
listed as modelled in part: what `oci_mathlib_worker.py` does besides preparing inputs, checking
receipts and querying declarations, and the drivers among the Library scripts.
