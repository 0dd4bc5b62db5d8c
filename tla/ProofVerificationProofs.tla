---------------------- MODULE ProofVerificationProofs -----------------------
(***************************************************************************)
(* Proofs about verification: what a signed verdict says of the proof that *)
(* was attested and of the one that was registered, for every set of workers, submissions, forgeries and     *)
(* callers of the artifact store.                                          *)
(*                                                                         *)
(* The inductive invariant follows a verdict through its stages: a run of  *)
(* the verifier (ExecutionInv), the store (StoreInv), and the calls and    *)
(* reports made from them (SigningInv).                                    *)
(***************************************************************************)
EXTENDS VerdictAdmission, TLAPS

-----------------------------------------------------------------------------
(* Runs *)

FileNames == {"statement", "slot", "candidate", "source", "output", "sealed"}

RunFields ==
    {"step", "phase", "submission", "independent", "before", "seal", "result", "printed", "execution",
     "kernel", "dependency", "begun", "restored", "under"}

Steps ==
    {"render", "start", "ready", "running", "cleaning", "check", "seal", "report", "observed"}

\* A run that has hashed its candidate and has no evidence yet.
Executing(w) == run[w].step \in {"ready", "running", "cleaning", "check", "seal"}

Container == [worker: Workers, phase: {"compile", "query"}, orphan: BOOLEAN]

\* Files, runs, claims and containers have the shape of their records.
ETypeOK ==
    /\ fence \in Nat
    /\ claim \in [Workers -> Nat]
    /\ DOMAIN files = Workers
    /\ \A w \in Workers : DOMAIN files[w] = FileNames
    /\ DOMAIN run = Workers
    /\ \A w \in Workers : run[w] # Idle =>
           /\ DOMAIN run[w] = RunFields
           /\ run[w].step \in Steps
           /\ run[w].phase \in {"compile", "query"}
           /\ DOMAIN run[w].begun = FileNames
           /\ run[w].restored \in BOOLEAN
           /\ run[w].kernel \in BOOLEAN
           /\ run[w].dependency \in BOOLEAN
    /\ containers \subseteq Container

\* Only a run that waits for a container, or for its removal, has one.
ContainersInv ==
    \A w \in Workers : run[w].step \notin {"running", "cleaning"} => Own(w) = {}

\* A run has seen fencing tokens between its claim's and the current one; when
\* it gives out evidence under a claim, it has seen that token alone.
LeaseSeen(w) ==
    /\ run[w].step \in {"render", "start"} => run[w].phase = "compile" /\ run[w].under = {}
    /\ Executing(w) => \A x \in run[w].under : x \in Nat /\ claim[w] <= x /\ x <= fence
    /\ Executing(w) /\ (run[w].step # "ready" \/ run[w].phase = "query") => run[w].under # {}
    /\ run[w].step \in {"report", "observed"} /\ run[w].execution # None
           /\ run[w].execution.status = "pending" => run[w].under = {run[w].execution.token}

\* What a candidate that Lean accepted is.
Compiled(source) == Lean[source].compiles

\* Unless somebody undid a change, a candidate that still is what was hashed
\* is what was compiled, and what was sealed is what was queried.
Traced(w) ==
    LET r == run[w]
        f == files[w] IN
    /\ Executing(w) => r.begun["candidate"] = r.before
    /\ r.step \in {"cleaning", "check"} /\ r.phase = "compile" /\ r.result = "ok" =>
           (~r.restored /\ f.candidate = r.before =>
                Compiled(r.before) /\ f.output \in {r.before, Link})
    /\ r.step = "seal" =>
           (~r.restored => Compiled(r.before) /\ f.output \in {r.before, Link})
    /\ Executing(w) /\ r.phase = "query" => (~r.restored => Compiled(r.before) /\ r.seal = r.before)
    /\ r.step \in {"cleaning", "check"} /\ r.phase = "query" /\ r.result = "ok" =>
           (~r.restored /\ f.sealed = r.seal => r.printed = Lean[r.before])
    /\ r.step = "seal" => r.phase = "compile"

\* What the evidence of a run, and the verdict on it, go back to.
Evidenced(w) ==
    LET r == run[w] IN
    /\ r.step = "report" /\ r.execution.complete =>
           (~r.restored => Compiled(r.before) /\ r.printed = Lean[r.before])
    /\ r.step \in {"report", "observed"} /\ r.execution # None => r.execution.candidate = r.before
    /\ r.step # "observed" => ~r.kernel /\ ~r.dependency
    /\ r.kernel =>
           (~r.restored => /\ Compiled(r.before)
                           /\ r.printed = Lean[r.before]
                           /\ r.printed.type = Bundle.type)
    /\ r.dependency => r.kernel /\ AxiomsHold(r.printed.axioms)

ExecutionInv ==
    /\ ETypeOK
    /\ \A w \in Workers : claim[w] <= fence
    /\ ContainersInv
    /\ \A w \in Workers : run[w] # Idle => LeaseSeen(w) /\ Traced(w) /\ Evidenced(w)

-----------------------------------------------------------------------------
(* Puts, calls and verdicts *)

\* A blob that nobody damaged holds what its name says.
StoreInv ==
    /\ DOMAIN puts = Callers
    /\ \A c \in Callers : puts[c] # NoPut =>
           DOMAIN puts[c] = {"content", "step"} /\ puts[c].step \in {"write", "sync", "link", "verify"}
    /\ \A d \in DOMAIN blobs \ damaged : blobs[d] = d

\* What was registered stays in the store, though others may damage it there.
RegistryStored ==
    /\ Bundle \in DOMAIN blobs
    /\ \A id \in DOMAIN Registered : Registered[id] \in DOMAIN blobs

CallFields == {"artifact", "lease", "stored", "submission", "restored", "under"}

\* A report is about the candidate of its submission, was made under one
\* lease, and accepts only what Lean accepts.
Bound(report) ==
    LET a == report.artifact
        source == CandidateOf(report.submission) IN
    /\ a.execution.status = "pending"
    /\ a.execution.image = Bundle.image
    /\ a.execution.candidate = source
    /\ a.execution.token = report.lease
    /\ report.under = {report.lease}
    /\ a.clean
    /\ a.kernel \in BOOLEAN /\ a.dependency \in BOOLEAN
    /\ a.dependency => a.kernel /\ AxiomsHold(a.axioms)
    /\ a.kernel /\ a.dependency /\ ~report.restored =>
           /\ Lean[source].compiles
           /\ Lean[source].type = Bundle.type
           /\ AxiomsHold(Lean[source].axioms)

\* A call stores the evidence its report names before it asks for a signature.
CallBound(w) ==
    /\ DOMAIN signing[w] = CallFields
    /\ Bound(signing[w])
    /\ signing[w].stored \in BOOLEAN
    /\ IF signing[w].stored THEN signing[w].artifact \in DOMAIN blobs
       ELSE puts[w] # NoPut /\ puts[w].content = signing[w].artifact

\* A verdict names the registered proof, and is signed for its call's lease.
VerdictBound(v) ==
    /\ Bound(v.report) /\ ProofBinds(v.report.artifact)
    /\ v.at = v.report.lease /\ v.report.artifact \in DOMAIN blobs

SigningInv ==
    /\ DOMAIN signing = Workers
    /\ \A w \in Workers : signing[w] # None => CallBound(w)
    /\ \A v \in verdicts : VerdictBound(v)

VInv == ExecutionInv /\ StoreInv /\ RegistryStored /\ SigningInv

-----------------------------------------------------------------------------
(* A step of one worker *)

\* What others do leaves the run of worker v as it was.
LEMMA RunKept ==
  ASSUME ExecutionInv, NEW v \in Workers, run'[v] = run[v], files'[v] = files[v],
         claim'[v] = claim[v], fence' \in Nat, fence <= fence'
  PROVE  /\ claim'[v] <= fence'
         /\ run'[v] # Idle => LeaseSeen(v)' /\ Traced(v)' /\ Evidenced(v)'
  <1>1. claim[v] \in Nat /\ fence \in Nat /\ claim[v] <= fence
    BY DEF ExecutionInv, ETypeOK
  <1>2. ASSUME run[v] # Idle
        PROVE  LeaseSeen(v)' /\ Traced(v)' /\ Evidenced(v)'
    <2>1. LeaseSeen(v) /\ Traced(v) /\ Evidenced(v)
      BY <1>2 DEF ExecutionInv
    <2>2. \A x \in Nat : x <= fence => x <= fence'
      BY <1>1
    <2>3. LeaseSeen(v)'
      BY <2>1, <2>2 DEF LeaseSeen, Executing
    <2>4. Traced(v)'
      BY <2>1 DEF Traced, Executing, Compiled
    <2>5. Evidenced(v)'
      BY <2>1 DEF Evidenced, Compiled
    <2> QED
      BY <2>3, <2>4, <2>5
  <1> QED
    BY <1>1, <1>2

\* A step of worker w keeps the invariant when it keeps what is said of w.
LEMMA WorkerStep ==
  ASSUME ExecutionInv, NEW w \in Workers, ETypeOK', ContainersInv', fence <= fence',
         \A v \in Workers : v # w =>
             run'[v] = run[v] /\ files'[v] = files[v] /\ claim'[v] = claim[v],
         claim'[w] <= fence',
         run'[w] # Idle => LeaseSeen(w)' /\ Traced(w)' /\ Evidenced(w)'
  PROVE  ExecutionInv'
  <1>1. fence' \in Nat
    BY DEF ETypeOK
  <1>2. \A v \in Workers : v # w =>
            /\ claim'[v] <= fence'
            /\ run'[v] # Idle => LeaseSeen(v)' /\ Traced(v)' /\ Evidenced(v)'
    BY <1>1, RunKept
  <1> QED
    BY <1>2 DEF ExecutionInv

\* The containers a run leaves behind are nobody's.
LEMMA AbandonedOwn ==
  ASSUME ETypeOK, NEW w \in Workers, containers' = Abandoned(w)
  PROVE  /\ containers' \subseteq Container
         /\ Own(w)' = {}
         /\ \A v \in Workers : Own(v) = {} => Own(v)' = {}
  <1>1. \A c \in containers : c \in Container
    BY DEF ETypeOK
  <1>2. ASSUME NEW d \in containers'
        PROVE  /\ d \in Container
               /\ \E c \in containers : /\ d.worker = c.worker
                                        /\ d.orphan = (c.orphan \/ c.worker = w)
    <2>1. PICK c \in containers : d = [c EXCEPT !.orphan = @ \/ c.worker = w]
      BY DEF Abandoned
    <2>2. c \in Container
      BY <1>1
    <2>3. d.worker = c.worker /\ d.orphan = (c.orphan \/ c.worker = w)
      BY <2>1, <2>2 DEF Container
    <2>4. d \in Container
      BY <2>1, <2>2 DEF Container
    <2> QED
      BY <2>3, <2>4
  <1> QED
    BY <1>2 DEF Own

\* An exception of the try block keeps the invariant.
LEMMA RaiseInv ==
  ASSUME ExecutionInv, NEW w \in Workers, run[w] # Idle, run[w].step # "observed", Raise(w),
         UNCHANGED <<fence, claim>>
  PROVE  ExecutionInv'
  <1>0. PICK r : r = run[w]
    OBVIOUS
  <1>1. /\ DOMAIN r = RunFields /\ r.phase \in {"compile", "query"}
        /\ DOMAIN r.begun = FileNames
        /\ r.restored \in BOOLEAN /\ r.kernel \in BOOLEAN /\ r.dependency \in BOOLEAN
        /\ ~r.kernel /\ ~r.dependency
    BY <1>0 DEF ExecutionInv, ETypeOK, Evidenced
  <1>2. run'[w] = [r EXCEPT !.step = "observed", !.execution = None]
    BY <1>0 DEF Raise, ExecutionInv, ETypeOK
  <1>3. /\ DOMAIN run' = Workers
        /\ \A v \in Workers : v # w => run'[v] = run[v]
    BY DEF Raise, ExecutionInv, ETypeOK
  <1>4. /\ DOMAIN files' = Workers
        /\ DOMAIN files'[w] = FileNames
        /\ \A v \in Workers : v # w => files'[v] = files[v]
    BY DEF Raise, HandoffRemoved, ExecutionInv, ETypeOK
  <1>5. /\ DOMAIN run'[w] = RunFields /\ run'[w].step = "observed" /\ run'[w].execution = None
        /\ run'[w].phase = r.phase /\ run'[w].begun = r.begun /\ run'[w].restored = r.restored
        /\ run'[w].kernel = r.kernel /\ run'[w].dependency = r.dependency
    BY <1>1, <1>2 DEF RunFields
  <1>6. /\ containers' \subseteq Container
        /\ Own(w)' = {}
        /\ \A v \in Workers : Own(v) = {} => Own(v)' = {}
    BY AbandonedOwn DEF Raise, ExecutionInv
  <1>7. ETypeOK'
    BY <1>1, <1>3, <1>4, <1>5, <1>6 DEF ETypeOK, ExecutionInv, Steps
  <1>8. ContainersInv'
    BY <1>3, <1>6 DEF ContainersInv, ExecutionInv
  <1>9. LeaseSeen(w)' /\ Traced(w)' /\ Evidenced(w)'
    BY <1>1, <1>5 DEF LeaseSeen, Traced, Evidenced, Executing
  <1> QED
    BY <1>3, <1>4, <1>7, <1>8, <1>9, WorkerStep DEF ExecutionInv, ETypeOK

\* The locals of a run.
Shaped(r) ==
    /\ DOMAIN r = RunFields
    /\ r.step \in Steps
    /\ r.phase \in {"compile", "query"}
    /\ DOMAIN r.begun = FileNames
    /\ r.restored \in BOOLEAN
    /\ r.kernel \in BOOLEAN
    /\ r.dependency \in BOOLEAN

\* A step that gives worker w new locals r and new files f, under one claim.
LEMMA LocalStep ==
  ASSUME ExecutionInv, NEW w \in Workers, NEW r, NEW f,
         run' = [run EXCEPT ![w] = r],
         \/ files' = [files EXCEPT ![w] = f]
         \/ files' = files /\ f = files[w],
         r = Idle \/ Shaped(r), DOMAIN f = FileNames,
         containers' \subseteq Container,
         r.step \notin {"running", "cleaning"} => Own(w)' = {},
         \A v \in Workers : v # w /\ Own(v) = {} => Own(v)' = {},
         UNCHANGED <<fence, claim>>,
         r # Idle /\ run'[w] = r /\ files'[w] = f => LeaseSeen(w)' /\ Traced(w)' /\ Evidenced(w)'
  PROVE  ExecutionInv'
  <1>1. /\ run'[w] = r /\ DOMAIN run' = Workers
        /\ files'[w] = f /\ DOMAIN files' = Workers
        /\ \A v \in Workers : v # w => run'[v] = run[v] /\ files'[v] = files[v]
    BY DEF ExecutionInv, ETypeOK
  <1>2. ETypeOK'
    BY <1>1 DEF ETypeOK, ExecutionInv, Shaped
  <1>3. ContainersInv'
    BY <1>1 DEF ContainersInv, ExecutionInv
  <1> QED
    BY <1>1, <1>2, <1>3, WorkerStep DEF ExecutionInv, ETypeOK

\* The locals and the files of a run in progress.
LEMMA RunShaped ==
  ASSUME ExecutionInv, NEW w \in Workers
  PROVE  /\ run[w] # Idle => Shaped(run[w]) /\ LeaseSeen(w) /\ Traced(w) /\ Evidenced(w)
         /\ DOMAIN run = Workers /\ DOMAIN files = Workers
         /\ DOMAIN files[w] = FileNames
         /\ fence \in Nat /\ claim[w] \in Nat /\ claim[w] <= fence
         /\ containers \subseteq Container
         /\ run[w].step \notin {"running", "cleaning"} => Own(w) = {}
  BY DEF ExecutionInv, ETypeOK, Shaped, ContainersInv

\* The same for a step that starts and stops no container.
LEMMA QuietStep ==
  ASSUME ExecutionInv, NEW w \in Workers, NEW r, NEW f,
         run' = [run EXCEPT ![w] = r],
         \/ files' = [files EXCEPT ![w] = f]
         \/ files' = files /\ f = files[w],
         r = Idle \/ Shaped(r), DOMAIN f = FileNames,
         r.step \notin {"running", "cleaning"} => run[w].step \notin {"running", "cleaning"},
         UNCHANGED <<fence, claim, containers>>,
         r # Idle /\ run'[w] = r /\ files'[w] = f => LeaseSeen(w)' /\ Traced(w)' /\ Evidenced(w)'
  PROVE  ExecutionInv'
  <1>1. \A v : Own(v)' = Own(v)
    BY DEF Own
  <1>2. containers' \subseteq Container /\ (r.step \notin {"running", "cleaning"} => Own(w)' = {})
    BY <1>1, RunShaped
  <1> QED
    BY <1>1, <1>2, LocalStep

\* observe() up to write_proof keeps the invariant.
LEMMA ObserveInv ==
  ASSUME ExecutionInv, NEW w \in Workers, NEW submission, NEW independent,
         Observe(w, submission, independent)
  PROVE  ExecutionInv'
  <1>1. PICK step : step = IF ~submission.placeholder /\ Integrity(w) /\ files[w].slot # Link
                           THEN "render" ELSE "observed"
    OBVIOUS
  <1>2. PICK r : r = [step |-> step, phase |-> "compile",
                      submission |-> submission, independent |-> independent, before |-> None,
                      seal |-> None, result |-> None, printed |-> None, execution |-> None,
                      kernel |-> FALSE, dependency |-> FALSE, begun |-> Nothing, restored |-> FALSE, under |-> {}]
    OBVIOUS
  <1>3. PICK f : f = IF ~submission.placeholder /\ Integrity(w) /\ files[w].slot # Link
                     THEN [files[w] EXCEPT !.slot = submission.proof] ELSE files[w]
    OBVIOUS
  <1>4. run' = [run EXCEPT ![w] = r] /\ UNCHANGED <<fence, claim, containers>> /\ run[w] = Idle
    BY <1>1, <1>2 DEF Observe
  <1>5. files' = [files EXCEPT ![w] = f] \/ (files' = files /\ f = files[w])
    BY <1>3 DEF Observe
  <1>6. DOMAIN Nothing = FileNames
    BY DEF Nothing, Fresh, FileNames
  <1>7. /\ Shaped(r) /\ r.step \in {"render", "observed"} /\ r.execution = None
        /\ ~r.kernel /\ ~r.dependency /\ r.phase = "compile" /\ r.under = {}
    BY <1>1, <1>2, <1>6 DEF Shaped, RunFields, Steps
  <1>8. DOMAIN f = FileNames
    BY <1>3, RunShaped
  <1>9. run[w].step = "idle"
    BY <1>4 DEF Idle
  <1>10. ASSUME run'[w] = r
         PROVE  LeaseSeen(w)' /\ Traced(w)' /\ Evidenced(w)'
    BY <1>7, <1>10 DEF LeaseSeen, Traced, Evidenced, Executing
  <1> QED
    BY <1>4, <1>5, <1>7, <1>8, <1>9, <1>10, RunShaped, QuietStep

\* render_candidate keeps the invariant.
LEMMA RenderInv ==
  ASSUME ExecutionInv, NEW w \in Workers, Render(w)
  PROVE  ExecutionInv'
  <1>1. run[w] # Idle /\ run[w].step = "render"
    BY DEF Render, At, Idle
  <1>2. CASE Raise(w)
    BY <1>1, <1>2, RaiseInv DEF Render
  <1>3. CASE ~Raise(w)
    <2>1. PICK r, f : /\ r = [run[w] EXCEPT !.step = "start"]
                      /\ f = [files[w] EXCEPT !.candidate = Rendered(files[w].statement, files[w].slot)]
      OBVIOUS
    <2>2. /\ run' = [run EXCEPT ![w] = r] /\ files' = [files EXCEPT ![w] = f]
          /\ UNCHANGED <<fence, claim, containers>>
      BY <1>3, <2>1 DEF Render
    <2>3. /\ Shaped(r) /\ r.step = "start" /\ ~r.kernel /\ ~r.dependency
          /\ r.phase = run[w].phase /\ r.under = run[w].under
      BY <1>1, <2>1, RunShaped DEF Shaped, RunFields, Steps, Evidenced
    <2>4. DOMAIN f = FileNames
      BY <2>1, RunShaped
    <2>5. ASSUME run'[w] = r
          PROVE  LeaseSeen(w)' /\ Traced(w)' /\ Evidenced(w)'
      BY <1>1, <2>3, <2>5, RunShaped DEF LeaseSeen, Traced, Evidenced, Executing
    <2> QED
      BY <1>1, <2>2, <2>3, <2>4, <2>5, RunShaped, QuietStep
  <1> QED
    BY <1>2, <1>3

\* run() up to the hash of the candidate keeps the invariant.
LEMMA StartInv ==
  ASSUME ExecutionInv, NEW w \in Workers, StartRun(w)
  PROVE  ExecutionInv'
  <1>1. run[w] # Idle /\ run[w].step = "start"
    BY DEF StartRun, At, Idle
  <1>2. CASE Raise(w)
    BY <1>1, <1>2, RaiseInv DEF StartRun
  <1>3. CASE ~Raise(w)
    <2>1. PICK r : r = [run[w] EXCEPT !.step = "ready", !.before = files[w].candidate,
                                      !.begun = files[w]]
      OBVIOUS
    <2>2. /\ run' = [run EXCEPT ![w] = r] /\ files' = files
          /\ UNCHANGED <<fence, claim, containers>>
      BY <1>3, <2>1 DEF StartRun
    <2>3. /\ Shaped(r) /\ r.step = "ready" /\ ~r.kernel /\ ~r.dependency
          /\ r.begun["candidate"] = r.before
          /\ r.phase = run[w].phase /\ r.under = run[w].under
      BY <1>1, <2>1, RunShaped DEF Shaped, RunFields, FileNames, Steps, Evidenced
    <2>4. r.phase = "compile" /\ r.under = {}
      BY <1>1, <2>3, RunShaped DEF LeaseSeen
    <2>5. ASSUME run'[w] = r
          PROVE  LeaseSeen(w)' /\ Traced(w)' /\ Evidenced(w)'
      BY <2>3, <2>4, <2>5 DEF LeaseSeen, Traced, Evidenced, Executing
    <2> QED
      BY <1>1, <2>2, <2>3, <2>5, RunShaped, QuietStep
  <1> QED
    BY <1>2, <1>3

\* The start of a container keeps the invariant.
LEMMA LaunchInv ==
  ASSUME ExecutionInv, NEW w \in Workers, Launch(w)
  PROVE  ExecutionInv'
  <1>1. run[w] # Idle /\ run[w].step = "ready"
    BY DEF Launch, At, Idle
  <1>2. CASE Raise(w)
    BY <1>1, <1>2, RaiseInv DEF Launch
  <1>3. CASE ~Raise(w)
    <2>0. PICK old : old = run[w]
      OBVIOUS
    <2>1. PICK r, c : /\ r = [old EXCEPT !.step = "running", !.under = @ \cup {fence}]
                      /\ c = [worker |-> w, phase |-> old.phase, orphan |-> FALSE]
      OBVIOUS
    <2>2. /\ run' = [run EXCEPT ![w] = r] /\ files' = files
          /\ UNCHANGED <<fence, claim>>
          /\ containers' = containers \cup {c}
      BY <1>3, <2>0, <2>1 DEF Launch
    <2>3. /\ Shaped(old) /\ LeaseSeen(w) /\ Traced(w) /\ Evidenced(w)
          /\ fence \in Nat /\ claim[w] \in Nat /\ claim[w] <= fence
      BY <1>1, <2>0, RunShaped
    <2>4. /\ Shaped(r) /\ r.step = "running" /\ r.under = old.under \cup {fence}
          /\ r.phase = old.phase /\ r.begun = old.begun /\ r.before = old.before
          /\ r.seal = old.seal /\ r.restored = old.restored
          /\ r.kernel = old.kernel /\ r.dependency = old.dependency
      BY <2>1, <2>3 DEF Shaped, RunFields, Steps
    <2>5. c \in Container /\ c.worker = w
      BY <2>1, <2>3 DEF Container, Shaped
    <2>6. /\ containers' \subseteq Container
          /\ \A v \in Workers : v # w /\ Own(v) = {} => Own(v)' = {}
      BY <2>2, <2>5, RunShaped DEF Own
    <2>7. ASSUME run'[w] = r
          PROVE  LeaseSeen(w)' /\ Traced(w)' /\ Evidenced(w)'
      <3>1. LeaseSeen(w)'
        BY <1>1, <2>0, <2>2, <2>3, <2>4, <2>7 DEF LeaseSeen, Executing
      <3>2. Traced(w)'
        BY <1>1, <2>0, <2>3, <2>4, <2>7 DEF Traced, Executing, Compiled
      <3>3. Evidenced(w)'
        BY <1>1, <2>0, <2>3, <2>4, <2>7 DEF Evidenced
      <3> QED
        BY <3>1, <3>2, <3>3
    <2> QED
      BY <1>1, <2>2, <2>4, <2>6, <2>7, RunShaped, LocalStep
  <1> QED
    BY <1>2, <1>3

\* Containers that end, or are removed, leave the others' alone.
LEMMA OwnEnded ==
  ASSUME ExecutionInv, NEW w \in Workers, containers' = containers \ Own(w)
  PROVE  /\ containers' \subseteq Container
         /\ Own(w)' = {}
         /\ \A v \in Workers : v # w /\ Own(v) = {} => Own(v)' = {}
  BY RunShaped DEF Own

\* The end of a compile container keeps the invariant.
LEMMA CompileInv ==
  ASSUME ExecutionInv, NEW w \in Workers, Compile(w)
  PROVE  ExecutionInv'
  <1>1. run[w] # Idle /\ run[w].step = "running" /\ run[w].phase = "compile"
    BY DEF Compile, At, Idle
  <1>2. PICK old, g : old = run[w] /\ g = files[w]
    OBVIOUS
  <1>3. PICK result \in {"ok", "failed", "truncated"}, output \in {g.candidate, Link} :
            /\ result = "ok" => Compiled(g.candidate)
            /\ run' = [run EXCEPT ![w].step = "cleaning", ![w].result = result]
            /\ files' = [files EXCEPT ![w].output = IF result = "ok" THEN output ELSE None]
    BY <1>2 DEF Compile, Compiled
  <1>4. PICK r, f : /\ r = [old EXCEPT !.step = "cleaning", !.result = result]
                    /\ f = [g EXCEPT !.output = IF result = "ok" THEN output ELSE None]
    OBVIOUS
  <1>5. run' = [run EXCEPT ![w] = r] /\ files' = [files EXCEPT ![w] = f]
    BY <1>2, <1>3, <1>4
  <1>6. UNCHANGED <<fence, claim>> /\ containers' = containers \ Own(w)
    BY DEF Compile
  <1>7. Shaped(old) /\ LeaseSeen(w) /\ Traced(w) /\ Evidenced(w) /\ DOMAIN g = FileNames
    BY <1>1, <1>2, RunShaped
  <1>8. /\ Shaped(r) /\ r.step = "cleaning" /\ r.under = old.under
        /\ r.phase = old.phase /\ r.begun = old.begun /\ r.before = old.before
        /\ r.seal = old.seal /\ r.restored = old.restored
        /\ r.kernel = old.kernel /\ r.dependency = old.dependency /\ r.result = result
    BY <1>4, <1>7 DEF Shaped, RunFields, Steps
  <1>9. /\ DOMAIN f = FileNames /\ f.candidate = g.candidate
        /\ f.output = IF result = "ok" THEN output ELSE None
    BY <1>4, <1>7 DEF FileNames
  <1>10. ASSUME run'[w] = r, files'[w] = f
         PROVE  LeaseSeen(w)' /\ Traced(w)' /\ Evidenced(w)'
    <2>1. LeaseSeen(w)'
      BY <1>1, <1>2, <1>6, <1>7, <1>8, <1>10 DEF LeaseSeen, Executing
    <2>2. Traced(w)'
      BY <1>1, <1>2, <1>3, <1>7, <1>8, <1>9, <1>10 DEF Traced, Executing, Compiled
    <2>3. Evidenced(w)'
      BY <1>1, <1>2, <1>7, <1>8, <1>10 DEF Evidenced
    <2> QED
      BY <2>1, <2>2, <2>3
  <1> QED
    BY <1>5, <1>6, <1>8, <1>9, <1>10, OwnEnded, LocalStep

\* The end of a query container keeps the invariant.
LEMMA QueryInv ==
  ASSUME ExecutionInv, NEW w \in Workers, Query(w)
  PROVE  ExecutionInv'
  <1>1. run[w] # Idle /\ run[w].step = "running" /\ run[w].phase = "query"
    BY DEF Query, At, Idle
  <1>2. PICK old, g : old = run[w] /\ g = files[w]
    OBVIOUS
  <1>3. PICK result \in {"ok", "failed", "truncated"} :
            run' = [run EXCEPT ![w].step = "cleaning", ![w].under = @ \cup {fence},
                       ![w].result = result,
                       ![w].printed = IF result = "ok" THEN Lean[files[w].sealed] ELSE None]
    BY DEF Query
  <1>4. PICK r, printed :
            /\ printed = IF result = "ok" THEN Lean[g.sealed] ELSE None
            /\ r = [old EXCEPT !.step = "cleaning", !.under = @ \cup {fence},
                               !.result = result, !.printed = printed]
    OBVIOUS
  <1>5. run' = [run EXCEPT ![w] = r] /\ files' = files
    BY <1>2, <1>3, <1>4, ZenonT(30) DEF Query
  <1>6. UNCHANGED <<fence, claim>> /\ containers' = containers \ Own(w)
    BY DEF Query
  <1>7. /\ Shaped(old) /\ LeaseSeen(w) /\ Traced(w) /\ Evidenced(w) /\ DOMAIN g = FileNames
        /\ fence \in Nat /\ claim[w] \in Nat /\ claim[w] <= fence
    BY <1>1, <1>2, RunShaped
  <1>8. /\ Shaped(r) /\ r.step = "cleaning" /\ r.under = old.under \cup {fence}
        /\ r.phase = old.phase /\ r.begun = old.begun /\ r.before = old.before
        /\ r.seal = old.seal /\ r.restored = old.restored
        /\ r.kernel = old.kernel /\ r.dependency = old.dependency /\ r.result = result
        /\ r.printed = printed
    BY <1>4, <1>7 DEF Shaped, RunFields, Steps
  <1>9. ASSUME run'[w] = r, files'[w] = g
        PROVE  LeaseSeen(w)' /\ Traced(w)' /\ Evidenced(w)'
    <2>1. LeaseSeen(w)'
      BY <1>1, <1>2, <1>6, <1>7, <1>8, <1>9 DEF LeaseSeen, Executing
    <2>2. Traced(w)'
      BY <1>1, <1>2, <1>4, <1>7, <1>8, <1>9 DEF Traced, Executing, Compiled
    <2>3. Evidenced(w)'
      BY <1>1, <1>2, <1>7, <1>8, <1>9 DEF Evidenced
    <2> QED
      BY <2>1, <2>2, <2>3
  <1> QED
    BY <1>2, <1>5, <1>6, <1>7, <1>8, <1>9, OwnEnded, LocalStep

\* A command that is given up keeps the invariant.
LEMMA TimeOutInv ==
  ASSUME ExecutionInv, NEW w \in Workers, TimeOut(w)
  PROVE  ExecutionInv'
  <1>1. run[w] # Idle /\ run[w].step = "running"
    BY DEF TimeOut, At, Idle
  <1>2. PICK old, g : old = run[w] /\ g = files[w]
    OBVIOUS
  <1>3. PICK r : r = [old EXCEPT !.step = "cleaning", !.result = "timeout"]
    OBVIOUS
  <1>4. run' = [run EXCEPT ![w] = r] /\ files' = files /\ UNCHANGED <<fence, claim, containers>>
    BY <1>2, <1>3 DEF TimeOut
  <1>5. Shaped(old) /\ LeaseSeen(w) /\ Traced(w) /\ Evidenced(w) /\ DOMAIN g = FileNames
    BY <1>1, <1>2, RunShaped
  <1>6. /\ Shaped(r) /\ r.step = "cleaning" /\ r.under = old.under
        /\ r.phase = old.phase /\ r.begun = old.begun /\ r.before = old.before
        /\ r.seal = old.seal /\ r.restored = old.restored
        /\ r.kernel = old.kernel /\ r.dependency = old.dependency /\ r.result = "timeout"
    BY <1>3, <1>5 DEF Shaped, RunFields, Steps
  <1>7. ASSUME run'[w] = r, files'[w] = g
        PROVE  LeaseSeen(w)' /\ Traced(w)' /\ Evidenced(w)'
    <2>1. LeaseSeen(w)'
      BY <1>1, <1>2, <1>4, <1>5, <1>6, <1>7 DEF LeaseSeen, Executing
    <2>2. Traced(w)'
      BY <1>1, <1>2, <1>5, <1>6, <1>7 DEF Traced, Executing, Compiled
    <2>3. Evidenced(w)'
      BY <1>1, <1>2, <1>5, <1>6, <1>7 DEF Evidenced
    <2> QED
      BY <2>1, <2>2, <2>3
  <1> QED
    BY <1>1, <1>2, <1>4, <1>5, <1>6, <1>7, QuietStep

\* Removing what is left of a container keeps the invariant.
LEMMA CleanupInv ==
  ASSUME ExecutionInv, NEW w \in Workers,
         (\E removed \in BOOLEAN : Cleanup(w, removed)) \/ CleanupFails(w)
  PROVE  ExecutionInv'
  <1>1. run[w] # Idle /\ run[w].step = "cleaning" /\ UNCHANGED <<fence, claim>>
    BY DEF Cleanup, CleanupFails, At, Idle
  <1>2. CASE Raise(w)
    BY <1>1, <1>2, RaiseInv
  <1>3. CASE ~Raise(w)
    <2>0. PICK old, g : old = run[w] /\ g = files[w]
      OBVIOUS
    <2>1. PICK r : r = [old EXCEPT !.step = "check"]
      OBVIOUS
    <2>2. run' = [run EXCEPT ![w] = r] /\ files' = files /\ containers' = containers \ Own(w)
      BY <1>3, <2>0, <2>1 DEF Cleanup, CleanupFails
    <2>3. Shaped(old) /\ LeaseSeen(w) /\ Traced(w) /\ Evidenced(w) /\ DOMAIN g = FileNames
      BY <1>1, <2>0, RunShaped
    <2>4. /\ Shaped(r) /\ r.step = "check" /\ r.under = old.under
          /\ r.phase = old.phase /\ r.begun = old.begun /\ r.before = old.before
          /\ r.seal = old.seal /\ r.restored = old.restored /\ r.result = old.result
          /\ r.kernel = old.kernel /\ r.dependency = old.dependency /\ r.printed = old.printed
      BY <2>1, <2>3 DEF Shaped, RunFields, Steps
    <2>5. ASSUME run'[w] = r, files'[w] = g
          PROVE  LeaseSeen(w)' /\ Traced(w)' /\ Evidenced(w)'
      <3>1. LeaseSeen(w)'
        BY <1>1, <2>0, <2>3, <2>4, <2>5 DEF LeaseSeen, Executing
      <3>2. Traced(w)'
        BY <1>1, <2>0, <2>3, <2>4, <2>5 DEF Traced, Executing, Compiled
      <3>3. Evidenced(w)'
        BY <1>1, <2>0, <2>3, <2>4, <2>5 DEF Evidenced
      <3> QED
        BY <3>1, <3>2, <3>3
    <2> QED
      BY <1>1, <2>0, <2>2, <2>3, <2>4, <2>5, OwnEnded, LocalStep
  <1> QED
    BY <1>2, <1>3

\* What follows a phase keeps the invariant: evidence is given out only under
\* a claim that still is current, for a candidate that still is the hashed one.
LEMMA AfterPhaseInv ==
  ASSUME ExecutionInv, NEW w \in Workers, AfterPhase(w)
  PROVE  ExecutionInv'
  <1>1. run[w] # Idle /\ run[w].step = "check" /\ UNCHANGED <<fence, claim>>
    BY DEF AfterPhase, At, Idle
  <1>2. CASE Raise(w)
    BY <1>1, <1>2, RaiseInv
  <1>3. CASE ~Raise(w)
    <2>0. PICK old, g : old = run[w] /\ g = files[w]
      OBVIOUS
    <2>1. PhaseHeld(w)
      BY <1>3 DEF AfterPhase
    <2>2. /\ Shaped(old) /\ LeaseSeen(w) /\ Traced(w) /\ Evidenced(w) /\ DOMAIN g = FileNames
          /\ fence \in Nat /\ claim[w] \in Nat /\ claim[w] <= fence
      BY <1>1, <2>0, RunShaped
    <2>3. CASE old.phase = "compile" /\ old.result = "ok"
      <3>1. PICK r : r = [old EXCEPT !.step = "seal"]
        OBVIOUS
      <3>2. run' = [run EXCEPT ![w] = r] /\ files' = files /\ UNCHANGED containers
        BY <1>3, <2>0, <2>3, <3>1 DEF AfterPhase
      <3>3. /\ Shaped(r) /\ r.step = "seal" /\ r.under = old.under
            /\ r.phase = old.phase /\ r.begun = old.begun /\ r.before = old.before
            /\ r.seal = old.seal /\ r.restored = old.restored
            /\ r.kernel = old.kernel /\ r.dependency = old.dependency
        BY <2>2, <3>1 DEF Shaped, RunFields, Steps
      <3>4. g.candidate = old.before
        BY <2>0, <2>1 DEF PhaseHeld
      <3>5. ASSUME run'[w] = r, files'[w] = g
            PROVE  LeaseSeen(w)' /\ Traced(w)' /\ Evidenced(w)'
        <4>1. LeaseSeen(w)'
          BY <1>1, <2>0, <2>2, <3>3, <3>5 DEF LeaseSeen, Executing
        <4>2. Traced(w)'
          BY <1>1, <2>0, <2>2, <2>3, <3>3, <3>4, <3>5 DEF Traced, Executing, Compiled
        <4>3. Evidenced(w)'
          BY <1>1, <2>0, <2>2, <3>3, <3>5 DEF Evidenced
        <4> QED
          BY <4>1, <4>2, <4>3
      <3> QED
        BY <1>1, <2>0, <2>2, <3>2, <3>3, <3>5, QuietStep
    <2>4. CASE ~(old.phase = "compile" /\ old.result = "ok")
      <3>1. PICK r, f, e : /\ r = [old EXCEPT !.step = "report", !.execution = e]
                           /\ e = Execution(w, old.result = "ok")
                           /\ f = [g EXCEPT !.output = None, !.sealed = None]
        OBVIOUS
      <3>2. run' = [run EXCEPT ![w] = r] /\ UNCHANGED containers
        BY <1>3, <2>0, <2>4, <3>1 DEF AfterPhase
      <3>3. files' = [files EXCEPT ![w] = f]
        BY <1>3, <2>0, <2>4, <3>1 DEF AfterPhase, HandoffRemoved
      <3>4. /\ Shaped(r) /\ r.step = "report" /\ r.under = old.under
            /\ r.phase = old.phase /\ r.begun = old.begun /\ r.before = old.before
            /\ r.seal = old.seal /\ r.restored = old.restored /\ r.printed = old.printed
            /\ r.kernel = old.kernel /\ r.dependency = old.dependency /\ r.execution = e
        BY <2>2, <3>1 DEF Shaped, RunFields, Steps
      <3>5. DOMAIN f = FileNames
        BY <2>2, <3>1
      <3>6. /\ e.candidate = old.before /\ e.token = claim[w]
            /\ e.complete = (old.result = "ok")
            /\ e.status = "pending" => claim[w] # 0
        BY <2>0, <3>1 DEF Execution
      <3>7. e.status = "pending" => old.under = {e.token}
        <4>1. e.status = "pending" => claim[w] = fence
          BY <2>1, <3>6 DEF PhaseHeld, ClaimCurrent
        <4>2. old.under # {} /\ \A x \in old.under : x \in Nat /\ claim[w] <= x /\ x <= fence
          BY <1>1, <2>0, <2>2 DEF LeaseSeen, Executing
        <4> QED
          BY <2>2, <3>6, <4>1, <4>2
      <3>8. g.sealed = old.seal \/ old.phase = "compile"
        BY <2>0, <2>1, <2>2 DEF PhaseHeld, Shaped
      <3>9. ASSUME run'[w] = r, files'[w] = f
            PROVE  LeaseSeen(w)' /\ Traced(w)' /\ Evidenced(w)'
        <4>1. LeaseSeen(w)'
          BY <3>4, <3>7, <3>9 DEF LeaseSeen, Executing
        <4>2. Traced(w)'
          BY <3>4, <3>9 DEF Traced, Executing
        <4>3. old.result = "ok" => (~old.restored => Compiled(old.before) /\ old.printed = Lean[old.before])
          BY <1>1, <2>0, <2>2, <2>4, <3>8 DEF Traced, Executing, Shaped
        <4>4. Evidenced(w)'
          BY <1>1, <2>0, <2>2, <3>4, <3>6, <3>9, <4>3 DEF Evidenced, Compiled
        <4> QED
          BY <4>1, <4>2, <4>4
      <3> QED
        BY <1>1, <3>2, <3>3, <3>4, <3>5, <3>9, QuietStep
    <2> QED
      BY <2>3, <2>4
  <1> QED
    BY <1>2, <1>3

\* _seal_compiled_candidate keeps the invariant.
LEMMA SealInv ==
  ASSUME ExecutionInv, NEW w \in Workers, Seal(w)
  PROVE  ExecutionInv'
  <1>1. run[w] # Idle /\ run[w].step = "seal" /\ UNCHANGED <<fence, claim>>
    BY DEF Seal, At, Idle
  <1>2. CASE Raise(w)
    BY <1>1, <1>2, RaiseInv
  <1>3. CASE ~Raise(w)
    <2>0. PICK old, g : old = run[w] /\ g = files[w]
      OBVIOUS
    <2>1. PICK r, f : /\ r = [old EXCEPT !.step = "ready", !.phase = "query", !.seal = g.output]
                      /\ f = [g EXCEPT !.sealed = g.output]
      OBVIOUS
    <2>2. /\ run' = [run EXCEPT ![w] = r] /\ files' = [files EXCEPT ![w] = f]
          /\ UNCHANGED containers /\ g.output # Link
      BY <1>3, <2>0, <2>1 DEF Seal
    <2>3. Shaped(old) /\ LeaseSeen(w) /\ Traced(w) /\ Evidenced(w) /\ DOMAIN g = FileNames
      BY <1>1, <2>0, RunShaped
    <2>4. /\ Shaped(r) /\ r.step = "ready" /\ r.under = old.under
          /\ r.phase = "query" /\ r.begun = old.begun /\ r.before = old.before
          /\ r.seal = g.output /\ r.restored = old.restored
          /\ r.kernel = old.kernel /\ r.dependency = old.dependency
      BY <2>1, <2>3 DEF Shaped, RunFields, Steps
    <2>5. DOMAIN f = FileNames
      BY <2>1, <2>3
    <2>6. ASSUME run'[w] = r, files'[w] = f
          PROVE  LeaseSeen(w)' /\ Traced(w)' /\ Evidenced(w)'
      <3>1. LeaseSeen(w)'
        BY <1>1, <2>0, <2>3, <2>4, <2>6 DEF LeaseSeen, Executing
      <3>2. Traced(w)'
        BY <1>1, <2>0, <2>2, <2>3, <2>4, <2>6 DEF Traced, Executing, Compiled
      <3>3. Evidenced(w)'
        BY <1>1, <2>0, <2>3, <2>4, <2>6 DEF Evidenced
      <3> QED
        BY <3>1, <3>2, <3>3
    <2> QED
      BY <1>1, <2>2, <2>4, <2>5, <2>6, QuietStep
  <1> QED
    BY <1>2, <1>3

\* The verdict on a run keeps the invariant.
LEMMA ReportInv ==
  ASSUME ExecutionInv, NEW w \in Workers, Report(w)
  PROVE  ExecutionInv'
  <1>1. run[w] # Idle /\ run[w].step = "report" /\ UNCHANGED <<fence, claim, containers>> /\ files' = files
    BY DEF Report, At, Idle
  <1>2. PICK old, g : old = run[w] /\ g = files[w]
    OBVIOUS
  <1>3. PICK kernel \in BOOLEAN :
            kernel = (Integrity(w) /\ TypeHolds(old.execution, old.printed))
    OBVIOUS
  <1>4. PICK dependency \in BOOLEAN : dependency = (kernel /\ AxiomsHold(old.printed.axioms))
    OBVIOUS
  <1>5. PICK r : r = [old EXCEPT !.step = "observed", !.kernel = kernel, !.dependency = dependency]
    OBVIOUS
  <1>6. run' = [run EXCEPT ![w] = r]
    BY <1>2, <1>3, <1>4, <1>5 DEF Report
  <1>7. Shaped(old) /\ LeaseSeen(w) /\ Traced(w) /\ Evidenced(w) /\ DOMAIN g = FileNames
    BY <1>1, <1>2, RunShaped
  <1>8. /\ Shaped(r) /\ r.step = "observed" /\ r.under = old.under
        /\ r.begun = old.begun /\ r.before = old.before /\ r.execution = old.execution
        /\ r.restored = old.restored /\ r.printed = old.printed
        /\ r.kernel = kernel /\ r.dependency = dependency
    BY <1>5, <1>7 DEF Shaped, RunFields, Steps
  <1>9. ASSUME run'[w] = r
        PROVE  LeaseSeen(w)' /\ Traced(w)' /\ Evidenced(w)'
    <2>1. LeaseSeen(w)'
      BY <1>1, <1>2, <1>7, <1>8, <1>9 DEF LeaseSeen, Executing
    <2>2. Traced(w)'
      BY <1>8, <1>9 DEF Traced, Executing
    <2>3. kernel => old.execution.complete /\ old.printed.type = Bundle.type
      BY <1>3 DEF TypeHolds
    <2>4. dependency => kernel /\ AxiomsHold(old.printed.axioms)
      BY <1>4
    <2>5. Evidenced(w)'
      BY <1>1, <1>2, <1>7, <1>8, <1>9, <2>3, <2>4 DEF Evidenced, Compiled
    <2> QED
      BY <2>1, <2>2, <2>5
  <1> QED
    BY <1>1, <1>2, <1>6, <1>7, <1>8, <1>9, QuietStep

\* A worker that drops its observation, or dies, keeps the invariant.
LEMMA LeaveInv ==
  ASSUME ExecutionInv, NEW w \in Workers, Discard(w) \/ Die(w)
  PROVE  ExecutionInv'
  <1>1. run' = [run EXCEPT ![w] = Idle] /\ UNCHANGED <<fence, claim>>
    BY DEF Discard, Die
  <1>2. PICK f : f = files'[w]
    OBVIOUS
  <1>3. CASE Discard(w)
    <2>1. files' = files /\ UNCHANGED containers /\ run[w].step = "observed"
      BY <1>3 DEF Discard, At
    <2> QED
      BY <1>1, <2>1, RunShaped, QuietStep
  <1>4. CASE Die(w)
    <2>1. PICK g : g = [files[w] EXCEPT !.output = None, !.sealed = None]
      OBVIOUS
    <2>2. files' = [files EXCEPT ![w] = g] /\ DOMAIN g = FileNames
      BY <1>4, <2>1, RunShaped DEF Die, HandoffRemoved
    <2>3. containers' = Abandoned(w) /\ ETypeOK
      BY <1>4 DEF Die, ExecutionInv
    <2> QED
      BY <1>1, <2>2, <2>3, AbandonedOwn, LocalStep
  <1> QED
    BY <1>3, <1>4

\* materialize for another attempt keeps the invariant.
LEMMA MaterializeInv ==
  ASSUME ExecutionInv, NEW w \in Workers, Materialize(w)
  PROVE  ExecutionInv'
  <1>1. /\ run[w] = Idle /\ run' = run /\ UNCHANGED <<fence, claim, containers>>
        /\ files' = [files EXCEPT ![w] = Fresh]
    BY DEF Materialize
  <1>2. DOMAIN Fresh = FileNames
    BY DEF Fresh, FileNames
  <1>3. ETypeOK'
    BY <1>1, <1>2 DEF ETypeOK, ExecutionInv
  <1>4. ContainersInv'
    BY <1>1 DEF ContainersInv, ExecutionInv, Own
  <1>5. fence <= fence' /\ claim'[w] <= fence'
    BY <1>1, RunShaped
  <1>6. \A v \in Workers : v # w => run'[v] = run[v] /\ files'[v] = files[v] /\ claim'[v] = claim[v]
    BY <1>1, RunShaped
  <1> QED
    BY <1>1, <1>3, <1>4, <1>5, <1>6, WorkerStep

\* A new lease, of this worker or of another, keeps the invariant: a run in
\* progress keeps the claim it began with.
LEMMA FenceInv ==
  ASSUME ExecutionInv,
         (\E w \in Workers : Claim(w)) \/ Supersede
  PROVE  ExecutionInv'
  <1>1. fence' = fence + 1 /\ UNCHANGED <<files, run, containers>> /\ fence \in Nat
    BY DEF Claim, Supersede, ExecutionInv, ETypeOK
  <1>2. claim' \in [Workers -> Nat]
    BY <1>1 DEF Claim, Supersede, ExecutionInv, ETypeOK
  <1>3. ETypeOK'
    BY <1>1, <1>2 DEF ETypeOK, ExecutionInv
  <1>4. ContainersInv'
    BY <1>1 DEF ContainersInv, ExecutionInv, Own
  <1>5. ASSUME NEW v \in Workers
        PROVE  /\ claim'[v] <= fence'
               /\ run'[v] # Idle => LeaseSeen(v)' /\ Traced(v)' /\ Evidenced(v)'
    <2>1. CASE claim'[v] = claim[v]
      BY <1>1, <2>1, RunKept
    <2>2. CASE claim'[v] # claim[v]
      <3>1. Claim(v) /\ claim'[v] = fence'
        BY <1>1, <2>2 DEF Claim, Supersede, ExecutionInv, ETypeOK
      <3>2. run[v].step \in {"idle", "observed"}
        BY <3>1 DEF Claim
      <3>3. run[v] # Idle => LeaseSeen(v) /\ Traced(v) /\ Evidenced(v)
        BY RunShaped
      <3>4. run[v] # Idle => LeaseSeen(v)'
        BY <1>1, <3>2, <3>3 DEF LeaseSeen, Executing
      <3>5. run[v] # Idle => Traced(v)' /\ Evidenced(v)'
        BY <1>1, <3>3 DEF Traced, Evidenced, Executing, Compiled
      <3> QED
        BY <1>1, <3>1, <3>4, <3>5
    <2> QED
      BY <2>1, <2>2
  <1> QED
    BY <1>3, <1>4, <1>5 DEF ExecutionInv

\* The end of a container nobody waits for keeps the invariant.
LEMMA OrphanInv ==
  ASSUME ExecutionInv, NEW c \in containers, OrphanEnds(c)
  PROVE  ExecutionInv'
  <1>1. UNCHANGED <<fence, claim, files, run>> /\ containers' \subseteq containers
    BY DEF OrphanEnds
  <1>2. ETypeOK'
    BY <1>1 DEF ETypeOK, ExecutionInv
  <1>3. ContainersInv'
    BY <1>1 DEF ContainersInv, ExecutionInv, Own
  <1>4. fence' \in Nat /\ fence <= fence'
    BY <1>1 DEF ETypeOK, ExecutionInv
  <1>5. ASSUME NEW v \in Workers
        PROVE  /\ claim'[v] <= fence'
               /\ run'[v] # Idle => LeaseSeen(v)' /\ Traced(v)' /\ Evidenced(v)'
    BY <1>1, <1>4, RunKept
  <1> QED
    BY <1>2, <1>3, <1>5 DEF ExecutionInv

\* A change of a file keeps the invariant: it makes the file differ from what
\* was hashed, or is a change undone.
LEMMA TamperInv ==
  ASSUME ExecutionInv, NEW w \in Workers, NEW file \in DOMAIN Forgeries,
         NEW content \in Forgeries[file], Tamper(w, file, content)
  PROVE  ExecutionInv'
  <1>1. PICK old, g : old = run[w] /\ g = files[w]
    OBVIOUS
  <1>2. PICK f : f = [g EXCEPT ![file] = content]
    OBVIOUS
  <1>3. PICK r : r = IF old # Idle /\ content = IF file = "sealed" THEN old.seal ELSE old.begun[file]
                     THEN [old EXCEPT !.restored = TRUE] ELSE old
    OBVIOUS
  <1>4. /\ run' = [run EXCEPT ![w] = r] /\ files' = [files EXCEPT ![w] = f]
        /\ UNCHANGED <<fence, claim, containers>>
    BY <1>1, <1>2, <1>3 DEF Tamper
  <1>5. file \in FileNames /\ file # "output" /\ content # None
    BY ExecutionAssumption DEF FileNames
  <1>6. DOMAIN g = FileNames
    BY <1>1, RunShaped
  <1>7. /\ DOMAIN f = FileNames /\ f.output = g.output
        /\ f.candidate = IF file = "candidate" THEN content ELSE g.candidate
        /\ f.sealed = IF file = "sealed" THEN content ELSE g.sealed
    BY <1>2, <1>5, <1>6 DEF FileNames
  <1>8. CASE old = Idle
    <2>1. r = Idle
      BY <1>3, <1>8
    <2> QED
      BY <1>1, <1>4, <1>7, <1>8, <2>1, QuietStep
  <1>9. CASE old # Idle
    <2>1. Shaped(old) /\ LeaseSeen(w) /\ Traced(w) /\ Evidenced(w)
      BY <1>1, <1>9, RunShaped
    <2>2. /\ Shaped(r) /\ r.step = old.step /\ r.under = old.under
          /\ r.phase = old.phase /\ r.begun = old.begun /\ r.before = old.before
          /\ r.seal = old.seal /\ r.result = old.result /\ r.printed = old.printed
          /\ r.kernel = old.kernel /\ r.dependency = old.dependency /\ r.execution = old.execution
          /\ ~r.restored => ~old.restored
      BY <1>3, <2>1 DEF Shaped, RunFields
    <2>3. ~r.restored => content # IF file = "sealed" THEN old.seal ELSE old.begun[file]
      BY <1>3, <1>9, <2>1 DEF Shaped, RunFields
    <2>4. ~r.restored /\ f.sealed = r.seal => g.sealed = old.seal
      BY <1>7, <2>2, <2>3
    <2>5. Executing(w) /\ ~r.restored /\ f.candidate = r.before => g.candidate = old.before
      BY <1>1, <1>7, <2>1, <2>2, <2>3 DEF Traced
    <2>6. ASSUME run'[w] = r, files'[w] = f
          PROVE  LeaseSeen(w)' /\ Traced(w)' /\ Evidenced(w)'
      <3>1. LeaseSeen(w)'
        BY <1>1, <1>4, <2>1, <2>2, <2>6 DEF LeaseSeen, Executing
      <3>2. Traced(w)'
        BY <1>1, <1>7, <2>1, <2>2, <2>4, <2>5, <2>6 DEF Traced, Executing, Compiled
      <3>3. Evidenced(w)'
        BY <1>1, <2>1, <2>2, <2>6 DEF Evidenced, Compiled
      <3> QED
        BY <3>1, <3>2, <3>3
    <2> QED
      BY <1>1, <1>4, <1>7, <2>2, <2>6, QuietStep
  <1> QED
    BY <1>8, <1>9

\* Every step of the verifier or of its host keeps the invariant.
LEMMA ExecutionStepInv ==
  ASSUME ExecutionInv,
         \/ HostStep
         \/ \E w \in Workers : VerifierStep(w) \/ Discard(w) \/ Die(w)
         \/ UNCHANGED executionVars
  PROVE  ExecutionInv'
  <1>1. CASE HostStep
    BY <1>1, FenceInv, OrphanInv, TamperInv DEF HostStep
  <1>2. ASSUME NEW w \in Workers, VerifierStep(w)
        PROVE  ExecutionInv'
    BY <1>2, FenceInv, MaterializeInv, ObserveInv, RenderInv, StartInv, LaunchInv, CompileInv,
       QueryInv, TimeOutInv, CleanupInv, AfterPhaseInv, SealInv, ReportInv DEF VerifierStep
  <1>3. ASSUME NEW w \in Workers, Discard(w) \/ Die(w)
        PROVE  ExecutionInv'
    BY <1>3, LeaveInv
  <1>4. CASE UNCHANGED executionVars
    <2>1. UNCHANGED <<fence, claim, files, run, containers>>
      BY <1>4 DEF executionVars
    <2> QED
      BY <2>1 DEF ExecutionInv, ETypeOK, ContainersInv, Own, LeaseSeen, Traced, Evidenced,
         Executing, Compiled
  <1> QED
    BY <1>1, <1>2, <1>3, <1>4

-----------------------------------------------------------------------------
(* The store *)

\* A step of one put, of a put's end, or of somebody who damages a blob.
StoreStep ==
    \/ \E c \in Callers :
           \/ \E content, whole : BeginPut(c, content, whole)
           \/ CreateTemporary(c) \/ SyncTemporary(c) \/ LinkBlob(c)
           \/ EndPut(c) \/ FailPut(c) \/ DiePutting(c)
    \/ \E d \in DOMAIN blobs : DamageBlob(d)
    \/ UNCHANGED storeVars

\* A name once published stays, and holds what it says until it is damaged.
LEMMA StoreStepInv ==
  ASSUME StoreInv, StoreStep
  PROVE  StoreInv' /\ DOMAIN blobs \subseteq DOMAIN blobs'
  <1> USE DEF StoreInv
  <1>1. ASSUME NEW c \in Callers, NEW content, NEW whole, BeginPut(c, content, whole)
        PROVE  StoreInv' /\ DOMAIN blobs \subseteq DOMAIN blobs'
    BY <1>1 DEF BeginPut, NoPut
  <1>2. ASSUME NEW c \in Callers, EndPut(c) \/ FailPut(c) \/ DiePutting(c)
        PROVE  StoreInv' /\ DOMAIN blobs \subseteq DOMAIN blobs'
    BY <1>2 DEF EndPut, FailPut, DiePutting
  <1>3. ASSUME NEW c \in Callers, NEW step \in {"sync", "link", "verify"}, puts[c] # NoPut,
               PutGoesTo(c, step)
        PROVE  /\ DOMAIN puts' = Callers
               /\ \A d \in Callers : puts'[d] # NoPut =>
                      DOMAIN puts'[d] = {"content", "step"} /\ puts'[d].step \in {"write", "sync", "link", "verify"}
    BY <1>3 DEF PutGoesTo
  <1>4. ASSUME NEW c \in Callers, CreateTemporary(c) \/ SyncTemporary(c)
        PROVE  StoreInv' /\ DOMAIN blobs \subseteq DOMAIN blobs'
    BY <1>3, <1>4 DEF CreateTemporary, SyncTemporary, PutAt, NoPut
  <1>5. ASSUME NEW c \in Callers, LinkBlob(c)
        PROVE  StoreInv' /\ DOMAIN blobs \subseteq DOMAIN blobs'
    <2>1. puts[c] # NoPut /\ PutGoesTo(c, "verify") /\ damaged' = damaged
      BY <1>5 DEF LinkBlob, PutAt, NoPut
    <2>2. PICK d : d = puts[c].content
      OBVIOUS
    <2>3. /\ DOMAIN blobs' = DOMAIN blobs \cup {d}
          /\ \A e \in DOMAIN blobs' : blobs'[e] = IF e \in DOMAIN blobs THEN blobs[e] ELSE d
      BY <1>5, <2>2 DEF LinkBlob
    <2> QED
      BY <1>3, <2>1, <2>3
  <1>6. ASSUME NEW d \in DOMAIN blobs, DamageBlob(d)
        PROVE  StoreInv' /\ DOMAIN blobs \subseteq DOMAIN blobs'
    BY <1>6 DEF DamageBlob
  <1>7. CASE UNCHANGED storeVars
    BY <1>7 DEF storeVars
  <1> QED
    BY <1>1, <1>2, <1>4, <1>5, <1>6, <1>7 DEF StoreStep

\* A step of another caller leaves a worker's put, and a put keeps its content.
LEMMA PutKept ==
  ASSUME StoreInv, NEW c \in Callers, NEW d \in Callers,
         \/ c # d /\ \/ \E content, whole : BeginPut(c, content, whole)
                     \/ EndPut(c) \/ FailPut(c) \/ DiePutting(c)
         \/ CreateTemporary(c) \/ SyncTemporary(c) \/ LinkBlob(c),
         puts[d] # NoPut
  PROVE  puts'[d] # NoPut /\ puts'[d].content = puts[d].content
  <1>1. CASE c # d
    BY <1>1 DEF StoreInv, BeginPut, EndPut, FailPut, DiePutting, CreateTemporary,
       SyncTemporary, LinkBlob, PutGoesTo
  <1>2. ASSUME c = d, NEW step \in {"sync", "link", "verify"}, PutGoesTo(c, step)
        PROVE  puts'[d] # NoPut /\ puts'[d].content = puts[d].content
    BY <1>2 DEF PutGoesTo, StoreInv, NoPut
  <1>3. CASE c = d
    BY <1>2, <1>3 DEF CreateTemporary, SyncTemporary, LinkBlob
  <1> QED
    BY <1>1, <1>3

-----------------------------------------------------------------------------
(* Calls and verdicts *)

\* What others do leaves the call of worker v as it was.
LEMMA CallKept ==
  ASSUME NEW v \in Workers, signing'[v] = signing[v], signing[v] # None => CallBound(v),
         DOMAIN blobs \subseteq DOMAIN blobs',
         puts[v] # NoPut => puts'[v] # NoPut /\ puts'[v].content = puts[v].content
  PROVE  signing'[v] # None => CallBound(v)'
  <1>1. PICK s : s = signing[v]
    OBVIOUS
  <1>2. ASSUME s # None
        PROVE  CallBound(v)'
    <2>1. /\ DOMAIN s = CallFields
          /\ Bound(s) /\ s.stored \in BOOLEAN
          /\ IF s.stored THEN s.artifact \in DOMAIN blobs
             ELSE puts[v] # NoPut /\ puts[v].content = s.artifact
      BY <1>1, <1>2 DEF CallBound
    <2>2. IF s.stored THEN s.artifact \in DOMAIN blobs'
          ELSE puts'[v] # NoPut /\ puts'[v].content = s.artifact
      BY <2>1
    <2> QED
      BY <1>1, <2>1, <2>2 DEF CallBound
  <1> QED
    BY <1>1, <1>2

\* A step of worker w, on its own call or on none, keeps the other calls.
LEMMA CallStep ==
  ASSUME StoreInv, SigningInv, NEW w \in Workers, DOMAIN blobs \subseteq DOMAIN blobs',
         DOMAIN signing' = Workers,
         \A v \in Workers : v # w => signing'[v] = signing[v] /\ puts'[v] = puts[v],
         signing'[w] # None => CallBound(w)',
         \A u \in verdicts' : u \in verdicts \/ VerdictBound(u)'
  PROVE  SigningInv'
  <1>1. \A v \in Workers : v # w => (signing'[v] # None => CallBound(v)')
    BY CallKept DEF SigningInv
  <1>2. \A u \in verdicts' : VerdictBound(u)'
    BY DEF SigningInv, VerdictBound
  <1> QED
    BY <1>1, <1>2 DEF SigningInv

\* The evidence of an authorized execution is about the candidate of its
\* submission, was made under one lease, and accepts only what Lean accepts.
LEMMA EvidenceBound ==
  ASSUME ExecutionInv, NEW w \in Workers, NEW submission, NEW digest, At(w, "observed"),
         Authorized(run[w].execution, claim[w]), ExecutionBinds(run[w].execution, submission),
         NEW s,
         s = [artifact |-> EvidenceArtifact(w, submission, digest), lease |-> claim[w],
              stored |-> FALSE, submission |-> submission,
              restored |-> run[w].restored, under |-> run[w].under]
  PROVE  Bound(s)
  <1>1. PICK r : r = run[w]
    OBVIOUS
  <1>2. r.step = "observed"
    BY <1>1 DEF At
  <1>3. run[w] # Idle
    BY <1>1, <1>2 DEF Idle
  <1>4. LeaseSeen(w) /\ Evidenced(w) /\ r.kernel \in BOOLEAN /\ r.dependency \in BOOLEAN
    BY <1>1, <1>3 DEF ExecutionInv, ETypeOK
  <1>5. /\ r.execution # None /\ r.execution.status = "pending" /\ r.execution.token = claim[w]
        /\ r.execution.image = Bundle.image /\ r.execution.candidate = CandidateOf(submission)
    BY <1>1 DEF Authorized, ExecutionBinds
  <1>6. r.under = {claim[w]}
    BY <1>1, <1>2, <1>4, <1>5 DEF LeaseSeen
  <1>7. /\ r.before = CandidateOf(submission)
        /\ r.kernel => (~r.restored => /\ Lean[r.before].compiles
                                       /\ r.printed = Lean[r.before]
                                       /\ r.printed.type = Bundle.type)
        /\ r.dependency => r.kernel /\ AxiomsHold(r.printed.axioms)
    BY <1>1, <1>2, <1>4, <1>5 DEF Evidenced, Compiled
  <1>8. PICK a : a = EvidenceArtifact(w, submission, digest)
    OBVIOUS
  <1>9. /\ a.execution = r.execution /\ a.clean = (r.execution # None)
        /\ a.kernel = r.kernel /\ a.dependency = r.dependency
        /\ r.kernel => a.axioms = r.printed.axioms
    BY <1>1, <1>8 DEF EvidenceArtifact
  <1>10. /\ s.artifact = a /\ s.lease = claim[w] /\ s.submission = submission
         /\ s.restored = r.restored /\ s.under = r.under
    BY <1>1, <1>8
  <1>11. a.dependency => a.kernel /\ AxiomsHold(a.axioms)
    BY <1>7, <1>9
  <1>12. a.kernel /\ a.dependency /\ ~s.restored =>
             /\ Lean[CandidateOf(submission)].compiles
             /\ Lean[CandidateOf(submission)].type = Bundle.type
             /\ AxiomsHold(Lean[CandidateOf(submission)].axioms)
    BY <1>7, <1>9, <1>10
  <1> QED
    BY <1>4, <1>5, <1>6, <1>9, <1>10, <1>11, <1>12 DEF Bound

\* A call that stores its evidence keeps the invariant.
LEMMA AttestInv ==
  ASSUME ExecutionInv, StoreInv, SigningInv, NEW w \in Workers, NEW submission, NEW digest,
         Attest(w, submission, digest)
  PROVE  SigningInv'
  <1>1. PICK s : s = [artifact |-> EvidenceArtifact(w, submission, digest), lease |-> claim[w],
                      stored |-> FALSE, submission |-> submission,
                      restored |-> run[w].restored, under |-> run[w].under]
    OBVIOUS
  <1>2. /\ BeginPut(w, s.artifact, TRUE) /\ signing' = [signing EXCEPT ![w] = s]
        /\ verdicts' = verdicts
    BY <1>1 DEF Attest
  <1>3. Bound(s)
    BY <1>1, EvidenceBound DEF Attest
  <1>4. DOMAIN s = CallFields /\ s.stored = FALSE
    BY <1>1 DEF CallFields
  <1>5. w \in Callers
    BY VerificationAssumption
  <1>6. /\ puts'[w] # NoPut /\ puts'[w].content = s.artifact
        /\ \A v \in Workers : v # w => puts'[v] = puts[v]
        /\ blobs' = blobs
    BY <1>2, <1>5 DEF BeginPut, StoreInv, NoPut
  <1>7. /\ DOMAIN signing' = Workers /\ signing'[w] = s
        /\ \A v \in Workers : v # w => signing'[v] = signing[v]
    BY <1>2 DEF SigningInv
  <1>8. CallBound(w)'
    BY <1>3, <1>4, <1>6, <1>7 DEF CallBound
  <1> QED
    BY <1>2, <1>6, <1>7, <1>8, CallStep DEF SigningInv

\* The end of a put leaves the other puts alone.
LEMMA PutEnded ==
  ASSUME StoreInv, NEW w \in Workers, EndPut(w) \/ FailPut(w) \/ DiePutting(w)
  PROVE  blobs' = blobs /\ \A v \in Workers : v # w => puts'[v] = puts[v]
  BY VerificationAssumption DEF StoreInv, EndPut, FailPut, DiePutting

\* A call whose evidence is stored has it in the store.
LEMMA StoredInv ==
  ASSUME StoreInv, SigningInv, NEW w \in Workers, Stored(w)
  PROVE  SigningInv'
  <1>1. PICK s : s = signing[w]
    OBVIOUS
  <1>2. PICK t : t = IF Verifies(puts[w].content) THEN [s EXCEPT !.stored = TRUE] ELSE None
    OBVIOUS
  <1>3. s # None /\ EndPut(w) /\ signing' = [signing EXCEPT ![w] = t] /\ verdicts' = verdicts
    BY <1>1, <1>2 DEF Stored
  <1>4. blobs' = blobs /\ \A v \in Workers : v # w => puts'[v] = puts[v]
    BY <1>3, PutEnded
  <1>5. /\ DOMAIN signing' = Workers /\ signing'[w] = t
        /\ \A v \in Workers : v # w => signing'[v] = signing[v]
    BY <1>3 DEF SigningInv
  <1>6. /\ DOMAIN s = CallFields
        /\ Bound(s) /\ s.stored \in BOOLEAN
        /\ IF s.stored THEN s.artifact \in DOMAIN blobs
           ELSE puts[w] # NoPut /\ puts[w].content = s.artifact
    BY <1>1, <1>3 DEF SigningInv, CallBound
  <1>7. ASSUME t # None
        PROVE  CallBound(w)'
    <2>1. Verifies(puts[w].content) /\ t = [s EXCEPT !.stored = TRUE]
      BY <1>2, <1>7
    <2>2. s.artifact \in DOMAIN blobs
      BY <1>6, <2>1 DEF Verifies, Exists
    <2>3. /\ DOMAIN t = CallFields /\ t.stored = TRUE
          /\ t.artifact = s.artifact /\ t.lease = s.lease /\ t.submission = s.submission
          /\ t.under = s.under /\ t.restored = s.restored
      BY <1>6, <2>1 DEF CallFields
    <2>4. Bound(t)
      BY <1>6, <2>3 DEF Bound
    <2> QED
      BY <1>4, <1>5, <2>2, <2>3, <2>4 DEF CallBound
  <1> QED
    BY <1>3, <1>4, <1>5, <1>7, CallStep DEF SigningInv

\* The gateway signs what the call has stored, for the call's lease and the
\* registered proof.
LEMMA SignInv ==
  ASSUME StoreInv, SigningInv, NEW w \in Workers, NEW confirmed, Sign(w, confirmed)
  PROVE  SigningInv'
  <1>1. PICK s : s = signing[w]
    OBVIOUS
  <1>2. /\ s # None /\ s.stored /\ signing' = [signing EXCEPT ![w] = None]
        /\ blobs' = blobs /\ puts' = puts
        /\ \/ verdicts' = verdicts
           \/ /\ s.lease = fence /\ ProofBinds(s.artifact)
              /\ verdicts' = verdicts \cup {[report |-> s, at |-> fence]}
    BY <1>1 DEF Sign, storeVars
  <1>3. Bound(s) /\ s.artifact \in DOMAIN blobs
    BY <1>1, <1>2 DEF SigningInv, CallBound
  <1>4. \A u \in verdicts' : u \in verdicts \/ VerdictBound(u)'
    BY <1>2, <1>3 DEF VerdictBound
  <1>5. /\ DOMAIN signing' = Workers /\ signing'[w] = None
        /\ \A v \in Workers : v # w => signing'[v] = signing[v]
    BY <1>2 DEF SigningInv
  <1> QED
    BY <1>2, <1>4, <1>5, CallStep

\* A call that ends without a verdict leaves the others alone.
LEMMA CallDropped ==
  ASSUME StoreInv, SigningInv, NEW w \in Workers, SinkFails(w) \/ DieVerifying(w)
  PROVE  SigningInv'
  <1>1. /\ signing' = [signing EXCEPT ![w] = None] /\ verdicts' = verdicts
        /\ FailPut(w) \/ DiePutting(w) \/ UNCHANGED storeVars
    BY DEF SinkFails, DieVerifying
  <1>2. blobs' = blobs /\ \A v \in Workers : v # w => puts'[v] = puts[v]
    <2>1. CASE UNCHANGED storeVars
      BY <2>1 DEF storeVars
    <2> QED
      BY <1>1, <2>1, PutEnded
  <1>3. /\ DOMAIN signing' = Workers /\ signing'[w] = None
        /\ \A v \in Workers : v # w => signing'[v] = signing[v]
    BY <1>1 DEF SigningInv
  <1> QED
    BY <1>1, <1>2, <1>3, CallStep

\* What concerns no call keeps them all.
LEMMA CallsKept ==
  ASSUME SigningInv, UNCHANGED <<signing, verdicts>>, DOMAIN blobs \subseteq DOMAIN blobs',
         \A v \in Workers :
             puts[v] # NoPut => puts'[v] # NoPut /\ puts'[v].content = puts[v].content
  PROVE  SigningInv'
  <1>1. \A v \in Workers : signing'[v] # None => CallBound(v)'
    BY CallKept DEF SigningInv
  <1> QED
    BY <1>1 DEF SigningInv, VerdictBound

\* A name once published stays.
LEMMA RegistryKept ==
  ASSUME RegistryStored, DOMAIN blobs \subseteq DOMAIN blobs'
  PROVE  RegistryStored'
  BY DEF RegistryStored

-----------------------------------------------------------------------------
(* The invariant *)

\* The invariant holds at first.
LEMMA VInitInv == VInit => VInv
  <1> SUFFICES ASSUME VInit PROVE VInv
    OBVIOUS
  <1>1. /\ fence = 1 /\ claim = [w \in Workers |-> 0] /\ files = [w \in Workers |-> Fresh]
        /\ run = [w \in Workers |-> Idle] /\ containers = {}
        /\ blobs = [d \in {Bundle} \cup {Registered[id] : id \in DOMAIN Registered} |-> d]
        /\ puts = [c \in Callers |-> NoPut]
        /\ signing = [w \in Workers |-> None] /\ verdicts = {}
    BY DEF VInit, ExecutionInit, StoreInit
  <1>2. DOMAIN Fresh = FileNames
    BY DEF Fresh, FileNames
  <1>3. ETypeOK
    BY <1>1, <1>2 DEF ETypeOK
  <1>4. ContainersInv
    BY <1>1 DEF ContainersInv, Own
  <1>5. ExecutionInv
    BY <1>1, <1>3, <1>4 DEF ExecutionInv
  <1>6. StoreInv
    BY <1>1 DEF StoreInv
  <1>7. SigningInv
    BY <1>1 DEF SigningInv
  <1>8. RegistryStored
    BY <1>1 DEF RegistryStored
  <1> QED
    BY <1>5, <1>6, <1>7, <1>8 DEF VInv

\* Every step keeps the invariant.
LEMMA VStepInv == VInv /\ [VNext]_verificationVars => VInv'
  <1> SUFFICES ASSUME ExecutionInv, StoreInv, RegistryStored, SigningInv, [VNext]_verificationVars
               PROVE  VInv'
    BY DEF VInv
  <1>0. \A w \in Workers : w \in Callers
    BY VerificationAssumption
  <1>1. ASSUME UNCHANGED storeVars, UNCHANGED <<signing, verdicts>>, ExecutionInv'
        PROVE  VInv'
    <2>1. blobs' = blobs /\ puts' = puts
      BY <1>1 DEF storeVars
    <2>2. StoreInv'
      BY <1>1, StoreStepInv DEF StoreStep
    <2>3. SigningInv'
      BY <1>1, <2>1, CallsKept
    <2>4. RegistryStored'
      BY <2>1, RegistryKept
    <2> QED
      BY <1>1, <2>2, <2>3, <2>4 DEF VInv
  <1>2. ASSUME NEW w \in Workers, VerifierStep(w) \/ Dismiss(w),
               UNCHANGED <<storeVars, signing, verdicts>>
        PROVE  VInv'
    <2>1. ExecutionInv'
      BY <1>2, ExecutionStepInv DEF Dismiss
    <2> QED
      BY <1>1, <1>2, <2>1
  <1>3. ASSUME HostStep, UNCHANGED <<storeVars, signing, verdicts>>
        PROVE  VInv'
    <2>1. ExecutionInv'
      BY <1>3, ExecutionStepInv
    <2> QED
      BY <1>1, <1>3, <2>1
  <1>4. ASSUME UNCHANGED executionVars, StoreStep, SigningInv'
        PROVE  VInv'
    BY <1>4, ExecutionStepInv, StoreStepInv, RegistryKept DEF VInv
  <1>5. ASSUME NEW w \in Workers, NEW submission, NEW digest, Attest(w, submission, digest)
        PROVE  VInv'
    <2>1. UNCHANGED executionVars /\ StoreStep
      BY <1>0, <1>5 DEF Attest, StoreStep
    <2> QED
      BY <1>4, <1>5, <2>1, AttestInv
  <1>6. ASSUME NEW w \in Workers, Stored(w) \/ SinkFails(w) \/ \E confirmed : Sign(w, confirmed)
        PROVE  VInv'
    <2>1. UNCHANGED executionVars /\ StoreStep
      BY <1>0, <1>6 DEF Stored, SinkFails, Sign, StoreStep
    <2>2. SigningInv'
      BY <1>6, StoredInv, CallDropped, SignInv
    <2> QED
      BY <1>4, <2>1, <2>2
  <1>7. ASSUME NEW w \in Workers, DieVerifying(w)
        PROVE  VInv'
    <2>1. Die(w) /\ StoreStep
      BY <1>0, <1>7 DEF DieVerifying, StoreStep
    <2>2. ExecutionInv' /\ StoreInv' /\ RegistryStored'
      BY <2>1, ExecutionStepInv, StoreStepInv, RegistryKept
    <2>3. SigningInv'
      BY <1>7, CallDropped
    <2> QED
      BY <2>2, <2>3 DEF VInv
  <1>8. ASSUME NEW c \in Callers, UNCHANGED <<executionVars, signing, verdicts>>,
               \/ CreateTemporary(c) \/ SyncTemporary(c) \/ LinkBlob(c)
               \/ c \notin Workers /\ OtherCaller(c)
        PROVE  VInv'
    <2>1. StoreStep
      BY <1>8 DEF OtherCaller, StoreStep
    <2>2. DOMAIN blobs \subseteq DOMAIN blobs'
      BY <2>1, StoreStepInv
    <2>3. ASSUME NEW v \in Workers, puts[v] # NoPut
          PROVE  puts'[v] # NoPut /\ puts'[v].content = puts[v].content
      <3>1. v \in Callers
        BY <1>0
      <3>2. \/ c # v /\ \/ \E content, whole : BeginPut(c, content, whole)
                        \/ EndPut(c) \/ FailPut(c) \/ DiePutting(c)
            \/ CreateTemporary(c) \/ SyncTemporary(c) \/ LinkBlob(c)
        BY <1>8 DEF OtherCaller
      <3> QED
        BY <2>3, <3>1, <3>2, PutKept
    <2>4. SigningInv'
      BY <1>8, <2>2, <2>3, CallsKept
    <2> QED
      BY <1>4, <1>8, <2>1, <2>4
  <1>9. ASSUME NEW d \in DOMAIN blobs, DamageBlob(d), UNCHANGED <<executionVars, signing, verdicts>>
        PROVE  VInv'
    <2>1. StoreStep /\ puts' = puts
      BY <1>9 DEF StoreStep, DamageBlob
    <2>2. DOMAIN blobs \subseteq DOMAIN blobs'
      BY <2>1, StoreStepInv
    <2>3. SigningInv'
      BY <1>9, <2>1, <2>2, CallsKept
    <2> QED
      BY <1>4, <1>9, <2>1, <2>3
  <1>10. CASE UNCHANGED verificationVars
    <2>1. UNCHANGED executionVars /\ UNCHANGED storeVars /\ UNCHANGED <<signing, verdicts>>
      BY <1>10 DEF verificationVars
    <2>2. ExecutionInv'
      BY <2>1, ExecutionStepInv
    <2> QED
      BY <1>1, <2>1, <2>2
  <1>11. CASE VNext
    <2>1. ASSUME NEW w \in Workers, Dismiss(w)
          PROVE  VInv'
      BY <1>2, <2>1 DEF Dismiss
    <2> QED
      BY <1>2, <1>3, <1>5, <1>6, <1>7, <1>8, <1>9, <1>11, <2>1 DEF VNext
  <1> QED
    BY <1>10, <1>11

\* The stages of a verdict, from the run of the verifier to the signature, hold
\* together whatever workers, callers and others do.
THEOREM VerificationInvariance == VSpec => []VInv
  <1>1. VInit => VInv
    BY VInitInv
  <1>2. VInv /\ [VNext]_verificationVars => VInv'
    BY VStepInv
  <1> QED
    BY <1>1, <1>2, PTL DEF VSpec

-----------------------------------------------------------------------------
(* What it gives *)

\* A signed acceptance is true of the proof presented for attestation
\* (verification_attestation.py), unless a change was undone in time.
THEOREM VerdictAlwaysFaithful == VSpec => []VerdictFaithful
  <1>1. VInv => VerdictFaithful
    <2> SUFFICES ASSUME VInv, NEW v \in verdicts PROVE Bound(v.report)
      BY DEF VerdictFaithful, Bound
    <2> QED
      BY DEF VInv, SigningInv, VerdictBound
  <1> QED
    BY <1>1, VerificationInvariance, PTL

\* One lease covers a verdict from its first container to its signature.
THEOREM OneLeaseCovers == VSpec => []OneLeasePerVerdict
  <1>1. VInv => OneLeasePerVerdict
    <2> SUFFICES ASSUME VInv PROVE OneLeasePerVerdict
      OBVIOUS
    <2>1. ASSUME NEW w \in Workers, At(w, "observed"), run[w].execution # None,
                 run[w].execution.status = "pending"
          PROVE  run[w].under = {run[w].execution.token}
      <3>1. run[w] # Idle
        BY <2>1 DEF At, Idle
      <3> QED
        BY <2>1, <3>1 DEF VInv, ExecutionInv, LeaseSeen, At
    <2>2. ASSUME NEW v \in verdicts
          PROVE  v.report.under \cup {v.at} = {v.report.artifact.execution.token}
      <3>1. Bound(v.report) /\ v.at = v.report.lease
        BY DEF VInv, SigningInv, VerdictBound
      <3> QED
        BY <3>1 DEF Bound
    <2> QED
      BY <2>1, <2>2 DEF OneLeasePerVerdict
  <1> QED
    BY <1>1, VerificationInvariance, PTL

\* Nothing is sealed, and no evidence given out, while a container of the run
\* is alive (_ensure_container_stopped).
THEOREM NoContainerSurvives == VSpec => []NoContainerLeft
  <1>1. VInv => NoContainerLeft
    BY DEF VInv, ExecutionInv, ContainersInv, NoContainerLeft, At
  <1> QED
    BY <1>1, VerificationInvariance, PTL

\* A name of the store holds what it names, and the evidence of every verdict
\* is there (artifacts.py), however many put it at once and die on the way.
THEOREM BlobsAlwaysSound == VSpec => []BlobsSound
  <1>1. VInv => BlobsSound
    BY DEF VInv, StoreInv, SigningInv, VerdictBound, BlobsSound
  <1> QED
    BY <1>1, VerificationInvariance, PTL

\* The control plane finds no failure exactly when its verifier found none and
\* was set up to be independent.
LEMMA SameVerdict ==
  ASSUME NEW v, Bound(v.report)
  PROVE  VerdictsAgree(v)
  <1>1. PICK a : a = v.report.artifact
    OBVIOUS
  <1>2. /\ a.kernel \in BOOLEAN /\ a.dependency \in BOOLEAN /\ a.clean
        /\ a.dependency => a.kernel /\ AxiomsHold(a.axioms)
    BY <1>1 DEF Bound
  <1>3. Binding.axioms = Bundle.axioms /\ Binding.strict = Bundle.strict
    BY DEF Binding
  <1>4. PICK passed : passed = [independent |-> a.independent, kernel |-> a.kernel,
                                dependency |-> a.dependency, clean |-> a.clean]
    OBVIOUS
  <1>5. VerificationFailures(v.report) =
            {check \in DOMAIN passed : ~passed[check]}
                \cup {"sorryAx" : x \in a.axioms \cap {"sorryAx"}}
                \cup {"unapproved" : x \in a.axioms \ Binding.axioms}
                \cup {"strict" : x \in IF Binding.strict THEN a.axioms ELSE {}}
    BY <1>1, <1>4, Zenon DEF VerificationFailures
  <1>6. /\ DOMAIN passed = {"independent", "kernel", "dependency", "clean"}
        /\ passed["independent"] = a.independent /\ passed["kernel"] = a.kernel
        /\ passed["dependency"] = a.dependency /\ passed["clean"] = a.clean
    BY <1>4
  <1>7. ASSUME VerificationFailures(v.report) = {}
        PROVE  a.kernel /\ a.dependency /\ a.independent
    <2>1. \A check \in DOMAIN passed : passed[check]
      BY <1>5, <1>7
    <2> QED
      BY <1>6, <2>1
  <1>8. ASSUME a.kernel, a.dependency, a.independent
        PROVE  VerificationFailures(v.report) = {}
    <2>1. AxiomsHold(a.axioms)
      BY <1>2, <1>8
    <2>2. /\ a.axioms \cap {"sorryAx"} = {} /\ a.axioms \ Binding.axioms = {}
          /\ (IF Binding.strict THEN a.axioms ELSE {}) = {}
      BY <1>3, <2>1, ExecutionAssumption DEF AxiomsHold
    <2>3. {check \in DOMAIN passed : ~passed[check]} = {}
      BY <1>2, <1>6, <1>8
    <2> QED
      BY <1>5, <2>2, <2>3
  <1> QED
    BY <1>1, <1>7, <1>8 DEF VerdictsAgree

\* The registered proof of a verdict is stored under its digest, and is the
\* proof its report is about.
LEMMA RegisteredProof ==
  ASSUME VInv, NEW v \in verdicts, NEW digest, digest = RegisteredDigest(v.report)
  PROVE  /\ digest \in DOMAIN blobs /\ Bundle \in DOMAIN blobs
         /\ v.report.artifact.digest = digest /\ v.report.artifact.manifest = Manifest(digest)
         /\ digest.id = v.report.artifact.proof
  <1>1. ProofBinds(v.report.artifact)
    BY DEF VInv, SigningInv, VerdictBound
  <1>2. digest = Registered[v.report.artifact.proof]
    BY DEF RegisteredDigest
  <1>3. digest \in DOMAIN blobs /\ Bundle \in DOMAIN blobs
    BY <1>1, <1>2 DEF ProofBinds, VInv, RegistryStored
  <1>4. digest.id = v.report.artifact.proof
    BY <1>1, <1>2, VerificationAssumption DEF ProofBinds
  <1> QED
    BY <1>1, <1>2, <1>3, <1>4 DEF ProofBinds

\* What the control plane admits was run on the bytes of the registered proof.
LEMMA AdmittedText ==
  ASSUME VInv, NEW v \in verdicts, Admits(v.report, v.at)
  PROVE  OfRegistered(v.report)
  <1>1. PICK digest : digest = RegisteredDigest(v.report)
    OBVIOUS
  <1>2. v.report.artifact.execution.candidate = CandidateOf(v.report.submission)
    BY DEF VInv, SigningInv, VerdictBound, Bound
  <1>3. /\ Readable(Bundle) /\ Readable(digest)
        /\ v.report.artifact.execution.candidate
               = Rendered(blobs[Bundle].statement, blobs[digest].proof)
    BY <1>1 DEF Admits, ArtifactAdmitted
  <1>4. blobs[Bundle] = Bundle /\ blobs[digest] = digest
    BY <1>3 DEF Readable
  <1>5. v.report.artifact.execution.candidate = CandidateOf(digest)
    BY <1>3, <1>4 DEF CandidateOf
  <1> QED
    BY <1>1, <1>2, <1>5 DEF OfRegistered

\* A report of the registered text is admitted when what the control plane
\* reads back is undamaged.
LEMMA RegisteredAdmitted ==
  ASSUME VInv, NEW v \in verdicts, OfRegistered(v.report),
         damaged \cap {v.report.artifact, RegisteredDigest(v.report), Bundle} = {}
  PROVE  Admits(v.report, v.at)
  <1>1. PICK a, digest : a = v.report.artifact /\ digest = RegisteredDigest(v.report)
    OBVIOUS
  <1>2. /\ Bound(v.report) /\ v.at = v.report.lease /\ a \in DOMAIN blobs
    BY <1>1 DEF VInv, SigningInv, VerdictBound
  <1>3. /\ digest \in DOMAIN blobs /\ Bundle \in DOMAIN blobs
        /\ a.digest = digest /\ a.manifest = Manifest(digest) /\ digest.id = a.proof
    BY <1>1, RegisteredProof
  <1>4. \A d \in DOMAIN blobs \ damaged : blobs[d] = d
    BY DEF VInv, StoreInv
  <1>5. blobs[a] = a /\ blobs[digest] = digest /\ blobs[Bundle] = Bundle
    BY <1>1, <1>2, <1>3, <1>4
  <1>6. Readable(a) /\ Readable(digest) /\ Readable(Bundle)
    BY <1>2, <1>3, <1>5 DEF Readable
  <1>7. /\ a.execution.status = "pending" /\ a.execution.image = Bundle.image
        /\ a.execution.token = v.at /\ a.execution.candidate = CandidateOf(v.report.submission)
    BY <1>1, <1>2 DEF Bound
  <1>8. a.execution.candidate = Rendered(blobs[Bundle].statement, blobs[digest].proof)
    BY <1>1, <1>5, <1>7 DEF OfRegistered, CandidateOf
  <1>9. Binding.image = Bundle.image
    BY DEF Binding
  <1>10. EvidenceAdmitted(v.report) /\ ReadsEvidence(v.report)
    BY <1>1, <1>3, <1>6, <1>7, <1>9 DEF EvidenceAdmitted, ReadsEvidence
  <1>11. ArtifactAdmitted(v.report, v.at)
    BY <1>1, <1>3, <1>5, <1>6, <1>7, <1>8, <1>9 DEF ArtifactAdmitted
  <1> QED
    BY <1>10, <1>11 DEF Admits

\* Of every signed report the control plane admits what was run on the
\* registered text and nothing else, and what it accepts is true of that text
\* (service.py, _verify_verification_attestation and _verification_failures).
THEOREM VerdictAlwaysAdmitted == VSpec => []VerdictAdmitted
  <1>1. VInv => VerdictAdmitted
    <2> SUFFICES ASSUME VInv, NEW v \in verdicts
                 PROVE  SignedAdmitted(v) /\ AdmittedRegistered(v) /\ AcceptedTrue(v) /\ VerdictsAgree(v)
      BY DEF VerdictAdmitted
    <2>1. Bound(v.report)
      BY DEF VInv, SigningInv, VerdictBound
    <2>2. SignedAdmitted(v)
      BY RegisteredAdmitted DEF SignedAdmitted
    <2>3. AdmittedRegistered(v)
      BY AdmittedText DEF AdmittedRegistered
    <2>4. VerdictsAgree(v)
      BY <2>1, SameVerdict
    <2>5. AcceptedTrue(v)
      <3>1. PICK source : source = CandidateOf(v.report.submission)
        OBVIOUS
      <3>2. ASSUME Admits(v.report, v.at), VerificationFailures(v.report) = {}, ~v.report.restored
            PROVE  /\ source = CandidateOf(RegisteredDigest(v.report))
                   /\ Lean[source].compiles
                   /\ Lean[source].type = Bundle.type
                   /\ AxiomsHold(Lean[source].axioms)
        <4>1. v.report.artifact.kernel /\ v.report.artifact.dependency
          BY <2>4, <3>2 DEF VerdictsAgree
        <4>2. source = CandidateOf(RegisteredDigest(v.report))
          BY <2>3, <3>1, <3>2 DEF AdmittedRegistered, OfRegistered
        <4> QED
          BY <2>1, <3>1, <3>2, <4>1, <4>2 DEF Bound
      <3> QED
        BY <3>2 DEF AcceptedTrue
    <2> QED
      BY <2>2, <2>3, <2>4, <2>5
  <1> QED
    BY <1>1, VerificationInvariance, PTL
=============================================================================
