------------------------- MODULE ProofVerification --------------------------
(***************************************************************************)
(* From an observation to a signed verdict: the evidence of the execution  *)
(* is bound to the submission (verification_attestation.py), stored        *)
(* (artifacts.py) and sent to the signing gateway (verification_gateway    *)
(* .py).  Composes ProofExecution with ArtifactStore; of the gateway, whose *)
(* ledger SigningGateway models, what it compares before it signs is here. *)
(* The caller names the submission and, apart from it, the digest of the   *)
(* proof that was registered: nothing on this path compares the two texts. *)
(***************************************************************************)
EXTENDS ProofExecution, ArtifactStore

CONSTANTS
    Documents,   \* other contents that callers store
    Registered   \* proof id -> the submission of its proof.submitted event

\* A proof stream has one such event, and submit_proof names it after its proof.
ASSUME VerificationAssumption ==
    /\ Workers \subseteq Callers
    /\ \A id \in DOMAIN Registered : Registered[id] \in Submissions /\ Registered[id].id = id

VARIABLES
    signing,   \* worker -> None or the locals of attest_oci_observation_via_gateway
    verdicts   \* reports signed (history)

verificationVars == <<executionVars, storeVars, signing, verdicts>>

\* Bundle and proofs are stored when they are registered.
VInit ==
    /\ ExecutionInit
    /\ StoreInit({Bundle} \cup {Registered[id] : id \in DOMAIN Registered})
    /\ signing = [w \in Workers |-> None]
    /\ verdicts = {}

\* _validate_authoritative_execution
Authorized(execution, lease) ==
    execution # None /\ execution.status = "pending" /\ execution.token = lease

\* Mutant: the candidate that was run is not compared with the submission.
ExecutionBindsAnyCandidate(execution, submission) ==
    /\ execution.status # "unobserved"
    /\ execution.image = Bundle.image
    /\ execution.sealed # None

\* _validate_execution_binding: both phases, under the frozen policy, of the
\* candidate that follows from bundle and submission.
ExecutionBinds(execution, submission) ==
    /\ execution.status # "unobserved"
    /\ execution.image = Bundle.image
    /\ execution.sealed # None
    /\ execution.candidate = CandidateOf(submission)

\* _validate_report_binding: the report is about the proof it is presented
\* with; contract, boundary and environment are the bundle's for every proof.
ReportBinds(w, submission) == run[w].submission.id = submission.id

\* proof_dependency_manifest_hash
Manifest(submission) == <<submission.id, submission.deps>>

\* _evidence_artifact_payload, and the report whose hash it carries.  An
\* environment is clean when run() returned.
EvidenceArtifact(w, submission, digest) ==
    [proof |-> submission.id, digest |-> digest, manifest |-> Manifest(submission),
     execution |-> run[w].execution, kernel |-> run[w].kernel, dependency |-> run[w].dependency,
     independent |-> run[w].independent, clean |-> run[w].execution # None,
     axioms |-> IF run[w].kernel THEN run[w].printed.axioms ELSE {}]

\* attest_oci_observation_via_gateway up to the artifact sink, for the
\* submission and the digest the caller names (any digest will do); what is not
\* bound raises and leaves no trace.
Attest(w, submission, digest) ==
    /\ At(w, "observed") /\ signing[w] = None
    /\ Authorized(run[w].execution, claim[w])
    /\ ReportBinds(w, submission)
    /\ ExecutionBinds(run[w].execution, submission)
    /\ BeginPut(w, EvidenceArtifact(w, submission, digest), TRUE)
    /\ signing' = [signing EXCEPT ![w] =
                      [artifact |-> EvidenceArtifact(w, submission, digest), lease |-> claim[w],
                       stored |-> FALSE, submission |-> submission,
                       restored |-> run[w].restored, under |-> run[w].under]]
    /\ UNCHANGED <<executionVars, verdicts>>

\* The sink returns the digest, or raises.
Stored(w) ==
    /\ signing[w] # None
    /\ EndPut(w)
    /\ signing' = [signing EXCEPT ![w] =
                      IF Verifies(puts[w].content) THEN [@ EXCEPT !.stored = TRUE] ELSE None]
    /\ UNCHANGED <<executionVars, verdicts>>

\* _validate_proof_binding: the digest and the manifest of the proof's event.
ProofBinds(artifact) ==
    /\ artifact.proof \in DOMAIN Registered
    /\ artifact.digest = Registered[artifact.proof]
    /\ artifact.manifest = Manifest(Registered[artifact.proof])

\* _read_evidence_artifact, _validate_evidence_binding; the candidate's hash
\* is not among the checks.
EvidenceBinds(artifact, lease) ==
    /\ Verifies(artifact) /\ artifact.execution.status = "pending"
    /\ artifact.execution.image = Bundle.image /\ artifact.execution.token = lease

\* build_verification_signing_request, issue and _validate_gateway_response:
\* the gateway signs for the current lease what the independent execution
\* verifier confirms (confirmed, external), and refuses or fails otherwise.
Sign(w, confirmed) ==
    /\ signing[w] # None /\ signing[w].stored
    /\ verdicts' = IF /\ signing[w].lease = fence /\ confirmed
                      /\ ProofBinds(signing[w].artifact)
                      /\ EvidenceBinds(signing[w].artifact, signing[w].lease)
                     THEN verdicts \cup {[report |-> signing[w], at |-> fence]} ELSE verdicts
    /\ signing' = [signing EXCEPT ![w] = None]
    /\ UNCHANGED <<executionVars, storeVars>>

\* A put of the worker's evidence fails, and the call with it.
SinkFails(w) ==
    /\ signing[w] # None
    /\ FailPut(w)
    /\ signing' = [signing EXCEPT ![w] = None]
    /\ UNCHANGED <<executionVars, verdicts>>

\* The worker drops its observation when no call uses it.
Dismiss(w) ==
    /\ signing[w] = None
    /\ Discard(w)
    /\ UNCHANGED <<storeVars, signing, verdicts>>

\* The worker dies, its put and its call with it.
DieVerifying(w) ==
    /\ Die(w)
    /\ IF puts[w] # NoPut THEN DiePutting(w) ELSE UNCHANGED storeVars
    /\ signing' = [signing EXCEPT ![w] = None]
    /\ UNCHANGED verdicts

\* Another process uses the store, for the same content or for another.
OtherCaller(c) ==
    \/ \E whole \in BOOLEAN,
          content \in Documents \cup {signing[w].artifact : w \in {v \in Workers : signing[v] # None}} :
           BeginPut(c, content, whole)
    \/ FailPut(c)
    \/ EndPut(c)
    \/ DiePutting(c)

VNext ==
    \/ \E w \in Workers :
           \/ (signing[w] = None) /\ VerifierStep(w) /\ UNCHANGED <<storeVars, signing, verdicts>>
           \/ \E submission, digest \in Submissions : Attest(w, submission, digest)
           \/ \E confirmed \in BOOLEAN : Sign(w, confirmed)
           \/ Stored(w) \/ SinkFails(w) \/ Dismiss(w) \/ DieVerifying(w)
    \/ HostStep /\ UNCHANGED <<storeVars, signing, verdicts>>
    \/ \E c \in Callers :
           /\ CreateTemporary(c) \/ SyncTemporary(c) \/ LinkBlob(c)
           /\ UNCHANGED <<executionVars, signing, verdicts>>
    \/ \E c \in Callers \ Workers :
           OtherCaller(c) /\ UNCHANGED <<executionVars, signing, verdicts>>
    \/ \E d \in DOMAIN blobs : DamageBlob(d) /\ UNCHANGED <<executionVars, signing, verdicts>>

VSpec == VInit /\ [][VNext]_verificationVars

-----------------------------------------------------------------------------
\* A signed acceptance is true of the proof presented for attestation: Lean
\* compiles it under the frozen statement, with the frozen type and permitted
\* axioms.  (VerdictAdmission says when that is the proof that was registered.)
\* It survives any change of any file others can write, at any point of the
\* run, short of one that is undone before the hashes are compared.
VerdictFaithful ==
    \A v \in verdicts :
        LET a == v.report.artifact
            source == CandidateOf(v.report.submission) IN
        a.kernel /\ a.dependency /\ ~v.report.restored =>
            /\ Lean[source].compiles
            /\ Lean[source].type = Bundle.type
            /\ AxiomsHold(Lean[source].axioms)

\* One lease covers a verdict from the launch of its first container to the
\* signature: a worker whose lease was replaced on the way obtains none, not
\* even with the next lease it is given.
OneLeasePerVerdict ==
    /\ \A w \in Workers :
           At(w, "observed") /\ run[w].execution # None /\ run[w].execution.status = "pending" =>
               run[w].under = {run[w].execution.token}
    /\ \A v \in verdicts :
           v.report.under \cup {v.at} = {v.report.artifact.execution.token}

\* The output of a compile container is sealed, and evidence of a run given
\* out, only when no container of that run is alive, although the runtime's
\* commands may time out or fail.
NoContainerLeft ==
    \A w \in Workers :
        /\ At(w, "seal") => Own(w) = {}
        /\ At(w, "report") => Own(w) = {}
        /\ At(w, "observed") => Own(w) = {}

\* A name in the store holds what it names, whoever wrote it and wherever a
\* writer died, until somebody else damages it; the evidence of every verdict
\* is there.
BlobsSound ==
    /\ \A d \in DOMAIN blobs \ damaged : blobs[d] = d
    /\ \A v \in verdicts : v.report.artifact \in DOMAIN blobs
=============================================================================
