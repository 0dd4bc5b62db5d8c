-------------------------- MODULE VerdictAdmission --------------------------
(***************************************************************************)
(* verify_submission's own reading of a signed report (service.py): the    *)
(* evidence artifact, the frozen bundle and the registered proof are read  *)
(* back from the artifact store and compared with each other.  The control *)
(* plane writes these checks apart from the verifier's, recomputes the     *)
(* verdict from the axioms the report lists, and is the first to compare   *)
(* the text that was run with the text that was registered.                *)
(***************************************************************************)
EXTENDS ProofVerification

\* _binding_from_bundle at registration, _binding_from_event ever after.  The
\* elaborated type is not part of it: type and kernel are the verifier's word.
Binding ==
    [image |-> Bundle.image, axioms |-> Bundle.axioms, strict |-> Bundle.strict]

\* _read_canonical_json_artifact: the store returns bytes that hash to their
\* name, or raises.
Readable(digest) == digest \in DOMAIN blobs /\ blobs[digest] = digest

\* _proof_event: the digest registered for the proof the report is about.
RegisteredDigest(report) == Registered[report.artifact.proof]

\* _read_verification_evidence_artifact: V2 evidence, the kind a lease-bound
\* execution leaves, is required of a report the gateway signed.
ReadsEvidence(report) == Readable(report.artifact) /\ report.artifact.execution.status = "pending"

\* _validate_verification_evidence: the environment and the dependencies the
\* report claims.
EvidenceAdmitted(report) ==
    /\ report.artifact.execution.image = Binding.image
    /\ report.artifact.manifest = Manifest(RegisteredDigest(report))

\* Mutant: the bytes that were run are not compared with the registered proof.
ArtifactAdmittedAnyText(report, lease) ==
    LET artifact == report.artifact
        digest == RegisteredDigest(report) IN
    /\ artifact.execution.token = lease
    /\ artifact.digest = digest
    /\ artifact.manifest = Manifest(digest)
    /\ artifact.execution.image = Binding.image
    /\ Readable(Bundle) /\ Readable(digest)
    /\ blobs[digest].id = artifact.proof

\* _validate_verification_evidence_artifact: the artifact was made under the
\* presented lease, names the registered proof, and is of the bytes that follow
\* from the bundle and the proof the store holds under their digests.
ArtifactAdmitted(report, lease) ==
    LET artifact == report.artifact
        digest == RegisteredDigest(report) IN
    /\ artifact.execution.token = lease
    /\ artifact.digest = digest
    /\ artifact.manifest = Manifest(digest)
    /\ artifact.execution.image = Binding.image
    /\ Readable(Bundle) /\ Readable(digest)
    /\ blobs[digest].id = artifact.proof
    /\ artifact.execution.candidate = Rendered(blobs[Bundle].statement, blobs[digest].proof)

\* Mutant: a verifier need not be independent.
VerificationFailuresOfAny(report) ==
    LET passed == [kernel |-> report.artifact.kernel, dependency |-> report.artifact.dependency,
                   clean |-> report.artifact.clean]
        axioms == report.artifact.axioms IN
    {check \in DOMAIN passed : ~passed[check]}
        \cup {"sorryAx" : x \in axioms \cap {"sorryAx"}}
        \cup {"unapproved" : x \in axioms \ Binding.axioms}
        \cup {"strict" : x \in IF Binding.strict THEN axioms ELSE {}}

\* _verification_failures
VerificationFailures(report) ==
    LET passed == [independent |-> report.artifact.independent, kernel |-> report.artifact.kernel,
                   dependency |-> report.artifact.dependency, clean |-> report.artifact.clean]
        axioms == report.artifact.axioms IN
    {check \in DOMAIN passed : ~passed[check]}
        \cup {"sorryAx" : x \in axioms \cap {"sorryAx"}}
        \cup {"unapproved" : x \in axioms \ Binding.axioms}
        \cup {"strict" : x \in IF Binding.strict THEN axioms ELSE {}}

\* _verify_verification_attestation
Admits(report, lease) ==
    EvidenceAdmitted(report) /\ ReadsEvidence(report) /\ ArtifactAdmitted(report, lease)

\* A report presented for attestation with the text that was registered.
OfRegistered(report) == CandidateOf(report.submission) = CandidateOf(RegisteredDigest(report))

\* A report of the registered text that the gateway has signed is admitted
\* under the lease it was signed for, as long as nobody damages what the
\* control plane reads back: verifier, gateway and control plane ask for
\* nothing the others do not supply.
SignedAdmitted(v) ==
    /\ OfRegistered(v.report)
    /\ damaged \cap {v.report.artifact, RegisteredDigest(v.report), Bundle} = {}
    => Admits(v.report, v.at)

\* What was signed for another text under the registered digest is refused.
AdmittedRegistered(v) == Admits(v.report, v.at) => OfRegistered(v.report)

\* What the control plane accepts is true of the proof that was registered.
AcceptedTrue(v) ==
    LET source == CandidateOf(RegisteredDigest(v.report)) IN
    Admits(v.report, v.at) /\ VerificationFailures(v.report) = {} /\ ~v.report.restored =>
        /\ Lean[source].compiles
        /\ Lean[source].type = Bundle.type
        /\ AxiomsHold(Lean[source].axioms)

\* The control plane's verdict is the verifier's, and only of a verifier that
\* was set up to be independent.
VerdictsAgree(v) ==
    VerificationFailures(v.report) = {} <=>
        v.report.artifact.kernel /\ v.report.artifact.dependency /\ v.report.artifact.independent

\* Verifier, gateway and control plane agree about the registered proof,
\* although neither verifier nor gateway compares its text with the one that
\* was run (verification_attestation.py, verifier_signing_gateway.py).
VerdictAdmitted ==
    \A v \in verdicts :
        SignedAdmitted(v) /\ AdmittedRegistered(v) /\ AcceptedTrue(v) /\ VerdictsAgree(v)
=============================================================================
