--------------------------- MODULE ProofExecution ---------------------------
(***************************************************************************)
(* The execution of a submitted proof: TrustedLeanVerifier.observe         *)
(* (verification.py) writes the proof into an attempt workspace            *)
(* (execution/workspace.py) and has OciLeanRunner.run (execution/oci.py)   *)
(* compile it in one container and query the sealed result in another.     *)
(*                                                                         *)
(* Each worker has its own workspace, read-only source snapshot and        *)
(* handoff directory.  Anything may happen between two steps: another      *)
(* process changes a file, the lease the worker runs under is replaced, a  *)
(* command of the container runtime times out while its container lives    *)
(* on, the worker dies.  A file is the content its hash stands for; what   *)
(* Lean makes of a source is the constant Lean (external).                 *)
(***************************************************************************)
EXTENDS Naturals, FiniteSets, TLC

CONSTANTS
    Workers,      \* processes that verify proofs
    Submissions,  \* proofs: [id, proof, deps, placeholder], each its own digest
    Bundle,       \* the frozen task: [statement, type, axioms, strict, image, mounts]
    Lean,         \* source -> [compiles, type, axioms]
    Forgeries,    \* file -> what others can put there
    ImageOf,      \* worker -> the image it is configured with
    MaxFence,     \* bound: fencing tokens of the job
    MaxTamper,    \* bound: changes of files by others
    Link,         \* a symbolic link where a file is expected
    None

\* Others write neither the compiler's output, which lies in a directory of mode
\* 0700 and is closed again when its container has ended, nor what is no file.
ASSUME ExecutionAssumption ==
    /\ DOMAIN Forgeries \subseteq {"statement", "slot", "candidate", "source", "sealed"}
    /\ \A f \in DOMAIN Forgeries : None \notin Forgeries[f]
    /\ Bundle.strict \in BOOLEAN

VARIABLES
    fence,       \* fencing token of the job's current lease
    claim,       \* worker -> token of its execution claim, 0 for none
    files,       \* worker -> contents of its files
    run,         \* worker -> Idle or the locals of observe()
    containers,  \* containers of the runtime that are alive
    tampers      \* changes others made (history)

executionVars == <<fence, claim, files, run, containers, tampers>>

Idle == [step |-> "idle"]

\* WorkspaceMaterializer.materialize, with the snapshot of the same bytes.
Fresh ==
    [statement |-> Bundle.statement, slot |-> None, candidate |-> None,
     source |-> Bundle.statement, output |-> None, sealed |-> None]

\* The files of a run that has not begun.
Nothing == [f \in DOMAIN Fresh |-> None]

ExecutionInit ==
    /\ fence = 1
    /\ claim = [w \in Workers |-> 0]
    /\ files = [w \in Workers |-> Fresh]
    /\ run = [w \in Workers |-> Idle]
    /\ containers = {}
    /\ tampers = 0

At(w, step) == run[w].step = step

\* FrozenTaskBundleInput.validate, validate_integrity: protected files have
\* the bytes they were materialized with.
Integrity(w) == files[w].statement = Bundle.statement

\* _validate_source_snapshot
SnapshotHolds(w) == files[w].source = Bundle.statement

\* render_candidate, then _append_axiom_query; the same text follows from
\* bundle and submission in _candidate_sha256.
Rendered(statement, proof) == [header |-> statement, proof |-> proof]
CandidateOf(submission) == Rendered(Bundle.statement, submission.proof)

\* _validate_candidate, _validate_candidate_content
CandidateHolds(w) ==
    /\ files[w].slot # Link
    /\ files[w].candidate = Rendered(files[w].statement, files[w].slot)

\* Mutant: a claim that was current once is taken for the current one.
ClaimGranted(w) == claim[w] \in 0 .. fence

\* _validate_execution_claim: the live validator knows the current lease; a
\* runner without a claim needs none.
ClaimCurrent(w) == claim[w] \in {0, fence}

\* build_request: what a phase mounts.
Mounts(phase) ==
    {"source", "dependencies"}
        \cup IF phase = "compile" THEN {"candidate", "output"} ELSE {"compiled"}

\* _validate_execution_policy: the pinned image and the mounts of the frozen
\* policy, no more and no fewer.
PolicyHolds(w, phase) ==
    ImageOf[w] = Bundle.image /\ Mounts(phase) = Bundle.mounts[phase]

Own(w) == {c \in containers : c.worker = w /\ ~c.orphan}
Abandoned(w) == {[c EXCEPT !.orphan = @ \/ c.worker = w] : c \in containers}

\* The temporary directory of run() is removed when run() ends.
HandoffRemoved(w) == [files EXCEPT ![w].output = None, ![w].sealed = None]

\* An exception of observe()'s try block: a report of failure, and no evidence.
Raise(w) ==
    /\ run' = [run EXCEPT ![w].step = "observed", ![w].execution = None]
    /\ files' = HandoffRemoved(w)
    /\ containers' = Abandoned(w)

\* The worker is given a claim on the job's new lease.
Claim(w) ==
    /\ run[w].step \in {"idle", "observed"} /\ fence < MaxFence
    /\ fence' = fence + 1
    /\ claim' = [claim EXCEPT ![w] = fence + 1]
    /\ UNCHANGED <<files, run, containers, tampers>>

\* The lease expires, or another worker takes the job (external).
Supersede ==
    /\ fence < MaxFence
    /\ fence' = fence + 1
    /\ UNCHANGED <<claim, files, run, containers, tampers>>

\* materialize for another attempt: a new workspace.
Materialize(w) ==
    /\ run[w] = Idle /\ files[w] # Fresh
    /\ files' = [files EXCEPT ![w] = Fresh]
    /\ UNCHANGED <<fence, claim, run, containers, tampers>>

\* observe up to write_proof; independent is what the verifier's constructor
\* was told.
Observe(w, submission, independent) ==
    /\ run[w] = Idle
    /\ LET sound == ~submission.placeholder /\ Integrity(w) /\ files[w].slot # Link IN
       /\ run' = [run EXCEPT ![w] =
                     [step |-> IF sound THEN "render" ELSE "observed", phase |-> "compile",
                      submission |-> submission, independent |-> independent, before |-> None, seal |-> None,
                      result |-> None, printed |-> None, execution |-> None, kernel |-> FALSE,
                      dependency |-> FALSE, begun |-> Nothing, restored |-> FALSE, under |-> {}]]
       /\ files' = IF sound THEN [files EXCEPT ![w].slot = submission.proof] ELSE files
    /\ UNCHANGED <<fence, claim, containers, tampers>>

\* render_candidate and _append_axiom_query
Render(w) ==
    /\ At(w, "render")
    /\ IF Integrity(w) /\ files[w].slot # None /\ files[w].candidate # Link
         THEN /\ files' = [files EXCEPT ![w].candidate =
                              Rendered(files[w].statement, files[w].slot)]
              /\ run' = [run EXCEPT ![w].step = "start"]
              /\ UNCHANGED containers
         ELSE Raise(w)
    /\ UNCHANGED <<fence, claim, tampers>>

\* run() up to the hash of the candidate.
StartRun(w) ==
    /\ At(w, "start")
    /\ IF CandidateHolds(w) /\ Integrity(w) /\ ClaimCurrent(w) /\ SnapshotHolds(w)
         THEN /\ run' = [run EXCEPT ![w].step = "ready", ![w].before = files[w].candidate,
                                    ![w].begun = files[w]]
              /\ UNCHANGED <<files, containers>>
         ELSE Raise(w)
    /\ UNCHANGED <<fence, claim, tampers>>

\* OciWorkerHarness.execute starts the container of the phase.
Launch(w) ==
    /\ At(w, "ready")
    /\ IF PolicyHolds(w, run[w].phase)
         THEN /\ containers' = containers \cup
                     {[worker |-> w, phase |-> run[w].phase, orphan |-> FALSE]}
              /\ run' = [run EXCEPT ![w].step = "running", ![w].under = @ \cup {fence}]
              /\ UNCHANGED files
         ELSE Raise(w)
    /\ UNCHANGED <<fence, claim, tampers>>

\* The container of the compile phase ends: the wrapper compiles what is
\* mounted, which may also run out of memory, print too much or leave
\* something other than a file (external).
Compile(w) ==
    /\ At(w, "running") /\ run[w].phase = "compile"
    /\ \E result \in {"ok", "failed", "truncated"}, output \in {files[w].candidate, Link} :
           /\ result = "ok" => files[w].candidate \in DOMAIN Lean /\ Lean[files[w].candidate].compiles
           /\ run' = [run EXCEPT ![w].step = "cleaning", ![w].result = result]
           /\ files' = [files EXCEPT ![w].output = IF result = "ok" THEN output ELSE None]
    /\ containers' = containers \ Own(w)
    /\ UNCHANGED <<fence, claim, tampers>>

\* The container of the query phase ends: the type and the axioms of the
\* compiled declaration (external).
Query(w) ==
    /\ At(w, "running") /\ run[w].phase = "query"
    /\ \E result \in {"ok", "failed", "truncated"} :
           run' = [run EXCEPT ![w].step = "cleaning", ![w].under = @ \cup {fence},
                      ![w].result = result,
                      ![w].printed = IF result = "ok" THEN Lean[files[w].sealed] ELSE None]
    /\ containers' = containers \ Own(w)
    /\ UNCHANGED <<fence, claim, files, tampers>>

\* subprocess.run gives up on the runtime's client; the container lives on.
TimeOut(w) ==
    /\ At(w, "running")
    /\ run' = [run EXCEPT ![w].step = "cleaning", ![w].result = "timeout"]
    /\ UNCHANGED <<fence, claim, files, containers, tampers>>

\* Mutant: a failing removal is not followed by a look at what is left.
CleanupUnlisted(w, removed) ==
    /\ At(w, "cleaning")
    /\ run' = [run EXCEPT ![w].step = "check"]
    /\ containers' = IF removed THEN containers \ Own(w) ELSE containers
    /\ UNCHANGED <<fence, claim, files, tampers>>

\* _ensure_container_stopped: remove by force, or else see that none is left.
\* (removed is the outcome of the runtime's command.)
Cleanup(w, removed) ==
    /\ At(w, "cleaning")
    /\ IF removed \/ Own(w) = {}
         THEN /\ run' = [run EXCEPT ![w].step = "check"]
              /\ containers' = containers \ Own(w)
              /\ UNCHANGED files
         ELSE Raise(w)
    /\ UNCHANGED <<fence, claim, tampers>>

\* The listing itself fails, although nothing may be left.
CleanupFails(w) ==
    /\ At(w, "cleaning")
    /\ Raise(w)
    /\ UNCHANGED <<fence, claim, tampers>>

\* Mutant: the candidate is not hashed again.
PhaseHeldUnhashed(w) ==
    /\ Integrity(w) /\ SnapshotHolds(w) /\ ClaimCurrent(w)
    /\ run[w].phase = "query" => files[w].sealed = run[w].seal

\* _validate_after_phase, and the hash of the sealed candidate.
PhaseHeld(w) ==
    /\ Integrity(w) /\ SnapshotHolds(w) /\ ClaimCurrent(w)
    /\ files[w].candidate = run[w].before
    /\ run[w].phase = "query" => files[w].sealed = run[w].seal

\* _execution_evidence, _parse_image_identity: the wrapper's identity is
\* observed only in the record of a query that succeeded.
Execution(w, complete) ==
    [status |-> IF claim[w] = 0 THEN "non-production"
                ELSE IF complete THEN "pending" ELSE "unobserved",
     token |-> claim[w], image |-> ImageOf[w], candidate |-> run[w].before,
     sealed |-> run[w].seal, complete |-> complete]

\* run() after a phase: it goes on to the seal, returns evidence or raises.
AfterPhase(w) ==
    /\ At(w, "check")
    /\ LET ok == run[w].result = "ok" IN
       IF ~PhaseHeld(w) \/ (run[w].phase = "query" /\ run[w].result = "truncated")
         THEN Raise(w)
         ELSE IF run[w].phase = "compile" /\ ok
         THEN /\ run' = [run EXCEPT ![w].step = "seal"]
              /\ UNCHANGED <<files, containers>>
         ELSE /\ run' = [run EXCEPT ![w].step = "report", ![w].execution = Execution(w, ok)]
              /\ files' = HandoffRemoved(w)
              /\ UNCHANGED containers
    /\ UNCHANGED <<fence, claim, tampers>>

\* _seal_compiled_candidate: a regular file is copied, anything else refused.
Seal(w) ==
    /\ At(w, "seal")
    /\ IF files[w].output \notin {None, Link}
         THEN /\ files' = [files EXCEPT ![w].sealed = files[w].output]
              /\ run' = [run EXCEPT ![w].step = "ready", ![w].phase = "query",
                                    ![w].seal = files[w].output]
              /\ UNCHANGED containers
         ELSE Raise(w)
    /\ UNCHANGED <<fence, claim, tampers>>

\* ElaboratedTypeComparator.verify
TypeHolds(execution, printed) == execution.complete /\ printed.type = Bundle.type

\* _axiom_failures
AxiomsHold(axioms) ==
    /\ "sorryAx" \notin axioms /\ axioms \subseteq Bundle.axioms
    /\ Bundle.strict => axioms = {}

\* observe after run(): the verdict.
Report(w) ==
    /\ At(w, "report")
    /\ LET kernel == Integrity(w) /\ TypeHolds(run[w].execution, run[w].printed) IN
       run' = [run EXCEPT ![w].step = "observed", ![w].kernel = kernel,
                          ![w].dependency = kernel /\ AxiomsHold(run[w].printed.axioms)]
    /\ UNCHANGED <<fence, claim, files, containers, tampers>>

\* The caller is done with the observation.
Discard(w) ==
    /\ At(w, "observed")
    /\ run' = [run EXCEPT ![w] = Idle]
    /\ UNCHANGED <<fence, claim, files, containers, tampers>>

\* The worker dies: nobody stops its containers.
Die(w) ==
    /\ run[w] # Idle
    /\ run' = [run EXCEPT ![w] = Idle]
    /\ files' = HandoffRemoved(w)
    /\ containers' = Abandoned(w)
    /\ UNCHANGED <<fence, claim, tampers>>

\* A container nobody waits for ends (external).
OrphanEnds(c) ==
    /\ c.orphan
    /\ containers' = containers \ {c}
    /\ UNCHANGED <<fence, claim, files, run, tampers>>

\* Another process changes a file, or puts back what was there when the
\* candidate was hashed (external).
Tamper(w, f, content) ==
    /\ tampers < MaxTamper /\ files[w][f] \notin {None, content}
    /\ files' = [files EXCEPT ![w][f] = content]
    /\ run' = [run EXCEPT ![w] =
                  IF @ # Idle /\ content = IF f = "sealed" THEN @.seal ELSE @.begun[f]
                    THEN [@ EXCEPT !.restored = TRUE] ELSE @]
    /\ tampers' = tampers + 1
    /\ UNCHANGED <<fence, claim, containers>>

VerifierStep(w) ==
    \/ Claim(w) \/ Materialize(w)
    \/ \E submission \in Submissions, independent \in BOOLEAN : Observe(w, submission, independent)
    \/ Render(w) \/ StartRun(w) \/ Launch(w)
    \/ Compile(w) \/ Query(w) \/ TimeOut(w)
    \/ \E removed \in BOOLEAN : Cleanup(w, removed)
    \/ CleanupFails(w) \/ AfterPhase(w) \/ Seal(w) \/ Report(w)

HostStep ==
    \/ Supersede
    \/ \E c \in containers : OrphanEnds(c)
    \/ \E w \in Workers, f \in DOMAIN Forgeries : \E content \in Forgeries[f] : Tamper(w, f, content)
=============================================================================
