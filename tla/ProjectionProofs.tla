-------------------------- MODULE ProjectionProofs --------------------------
(***************************************************************************)
(* Proofs about the dashboard: for every set of commands in which a gap    *)
(* report and a change request of one bundle have different identifiers,   *)
(* and for graphs of any size, a snapshot can be computed from any log the *)
(* service writes, its two replays agree, and its leverage counts are      *)
(* those of the registered documents.                                      *)
(*                                                                         *)
(* The projection keeps no state, so there is one invariant of the log,    *)
(* and then what the operators of the projection make of such a log.       *)
(***************************************************************************)
EXTENDS TaskGraph, ControlPlaneProofs, InductionProofs

\* No gap report and change request of one bundle share their identifier.
ReviewIdsDiffer ==
    \A r, s \in Requests :
        r.op = "gap" /\ s.op = "change" /\ r.bundle = s.bundle => r.id # s.id

-----------------------------------------------------------------------------
(* The invariant *)

\* Every position up to the head of the log is taken.
Filled == \A n \in 1 .. head : \E e \in events : e.pos = n

\* A bundle has been registered.
Known(bundle) == \E r \in events : Registration(r, bundle)

\* Whatever is recorded of a bundle follows its registration.
Followed ==
    \A e \in events : \E r \in events : Registration(r, e.req.bundle) /\ r.pos <= e.pos

\* A call other than a registration has found its bundle registered.
CallsKnown ==
    \A c \in Callers : calls[c] # Idle /\ calls[c].req.op # "register" => Known(calls[c].req.bundle)

\* An identifier is used once by each kind of evidence.
EvidenceOnce ==
    \A e, f \in Evidence : e.req.op = f.req.op /\ e.req.id = f.req.id => e = f

\* What is registered, or about to be, has valid graphs.
DocumentsValid ==
    /\ \A e \in Registrations : e.req.id \in ValidDocuments
    /\ \A c \in Callers : calls[c] # Idle /\ calls[c].req.op = "register" =>
           calls[c].req.id \in ValidDocuments

ReplayInv == Filled /\ Followed /\ CallsKnown /\ EvidenceOnce /\ DocumentsValid

\* A commit of a call whose checks hold keeps the log replayable.
LEMMA CommitReplayInv ==
  ASSUME TypeInv, LogInv, ReplayInv, NEW c \in Callers, Commits(c)
  PROVE  Filled' /\ Followed' /\ EvidenceOnce' /\ \A e \in Registrations' : e.req.id \in ValidDocuments
  <1>1. PICK new, req : new = New(c) /\ req = calls[c].req
    OBVIOUS
  <1>2. /\ events' = events \cup {new} /\ head' = head + 1
        /\ req \in Requests /\ calls[c] # Idle
        /\ new.req = req /\ new.pos = head + 1
    BY <1>1, CommitFacts DEF New, NewEvent
  <1>3. head \in Nat /\ \A e \in events : e.pos \in 1 .. head
    BY DEF TypeInv, TypeOK, LogInv, Positions
  <1>4. Filled'
    <2> SUFFICES ASSUME NEW n \in 1 .. head'
                 PROVE  \E e \in events' : e.pos = n
      BY DEF Filled
    <2>1. n \in 1 .. head \/ n = head + 1
      BY <1>2, <1>3
    <2> QED
      BY <1>2, <2>1 DEF ReplayInv, Filled
  <1>5. Followed'
    <2>1. ASSUME NEW e \in events
          PROVE  \E r \in events' : Registration(r, e.req.bundle) /\ r.pos <= e.pos
      BY <1>2 DEF ReplayInv, Followed
    <2>2. CASE req.op = "register"
      <3>1. Registration(new, new.req.bundle) /\ new.pos <= new.pos
        BY <1>2, <1>3, <2>2 DEF Registration
      <3> QED
        BY <1>2, <2>1, <3>1 DEF Followed, Registration
    <2>3. CASE req.op # "register"
      <3>1. PICK r \in events : Registration(r, req.bundle)
        BY <1>1, <1>2, <2>3 DEF ReplayInv, CallsKnown, Known
      <3>2. r.pos <= new.pos
        BY <1>2, <1>3
      <3> QED
        BY <1>2, <2>1, <3>1, <3>2 DEF Followed, Registration
    <2> QED
      BY <2>2, <2>3
  <1>6. EvidenceOnce'
    <2>1. CASE req.op \notin EvidenceOps
      BY <1>2, <2>1 DEF EvidenceOnce, Evidence, ReplayInv
    <2>2. CASE req.op \in EvidenceOps
      <3>1. entity_versions[Entity(req)] = 0
        BY <1>1, <2>2 DEF Commits, CanAppend, Expected, EvidenceOps
      <3>2. \A e \in events : Entity(e.req) # Entity(req)
        BY <3>1 DEF LogInv, StreamsGapless
      <3>3. \A e \in Evidence : ~(e.req.op = req.op /\ e.req.id = req.id)
        BY <2>2, <3>2 DEF Entity, Evidence, EvidenceOps
      <3> QED
        BY <1>2, <3>3 DEF EvidenceOnce, Evidence, ReplayInv
    <2> QED
      BY <2>1, <2>2
  <1>7. \A e \in Registrations' : e.req.id \in ValidDocuments
    BY <1>1, <1>2 DEF ReplayInv, DocumentsValid, Registrations
  <1> QED
    BY <1>4, <1>5, <1>6, <1>7

\* The log stays replayable.
LEMMA NextReplayInv ==
  ASSUME TypeInv, LogInv, ReplayInv, [GNext]_vars
  PROVE  ReplayInv'
  <1>1. CASE GNext
    <2>0. Next
      BY <1>1 DEF GNext
    <2>1. events \subseteq events'
      BY <2>0, StoresGrow
    <2>2. CallsKnown'
      <3> SUFFICES ASSUME NEW d \in Callers, calls'[d] # Idle, calls'[d].req.op # "register",
                          NEW r, r = calls'[d].req
                   PROVE  \E e \in events' : Registration(e, r.bundle)
        BY DEF CallsKnown, Known, Registration
      <3>1. \E e \in events : Registration(e, r.bundle)
        <4>1. CASE calls[d] # Idle /\ calls[d].req = r
          BY <4>1 DEF ReplayInv, CallsKnown, Known
        <4>2. CASE r.op \in EvidenceOps /\ BindsContract(r)
          BY <4>2 DEF BindsContract
        <4>3. r \in Requests
          BY <2>0, NextTypeInv DEF TypeInv, TypeOK, Call
        <4>4. r.op \in EvidenceOps \cup {"claim"}
          BY <4>3, RequestAssumption DEF Ops
        <4> QED
          BY <2>0, <4>1, <4>2, <4>4, CallStep
      <3> QED
        BY <2>1, <3>1
    <2>3. \A d \in Callers : calls'[d] # Idle /\ calls'[d].req.op = "register" =>
              calls'[d].req.id \in ValidDocuments
      BY <1>1 DEF GNext
    <2>4. Filled' /\ Followed' /\ EvidenceOnce' /\ \A e \in Registrations' : e.req.id \in ValidDocuments
      <3>1. CASE UNCHANGED <<events, head>>
        BY <3>1 DEF ReplayInv, Filled, Followed, EvidenceOnce, Evidence, DocumentsValid, Registrations
      <3> QED
        BY <2>0, <3>1, LogStep, CommitReplayInv
    <2> QED
      BY <2>2, <2>3, <2>4 DEF ReplayInv, DocumentsValid
  <1>2. CASE UNCHANGED vars
    BY <1>2 DEF vars, storeVars, serviceVars, ReplayInv, Filled, Followed, CallsKnown, Known,
       EvidenceOnce, Evidence, DocumentsValid, Registrations
  <1> QED
    BY <1>1, <1>2

\* Every log the service writes, for bundles whose documents are valid, can be
\* replayed.
THEOREM ReplayInvariance == GraphSpec => [](TypeInv /\ LogInv /\ ReplayInv)
  <1>1. GraphSpec => Spec
    BY PTL DEF GraphSpec, Spec, GNext
  <1>2. Init => ReplayInv
    BY DEF Init, StoreInit, ReplayInv, Filled, Followed, CallsKnown, EvidenceOnce, Evidence,
       DocumentsValid, Registrations
  <1>3. TypeInv /\ LogInv /\ ReplayInv /\ [GNext]_vars => ReplayInv'
    BY NextReplayInv
  <1> QED
    BY <1>1, <1>2, <1>3, LogInvariance, PTL DEF GraphSpec

-----------------------------------------------------------------------------
(* The dashboard *)

\* What the replay of a log of this kind may rely on.
LogOK ==
    /\ head \in Nat /\ IsFiniteSet(events)
    /\ \A e \in events : e.req \in Requests /\ e.req.bundle \in Jobs /\ e.req.op \in Ops /\ e.req.ok \in BOOLEAN
    /\ \A e \in events : e.pos \in 1 .. head
    /\ \A e, f \in events : e.pos = f.pos => e = f
    /\ Filled /\ Followed /\ EvidenceOnce /\ VerdictSound /\ DocumentsStored
    /\ \A e, f \in events :
           e.req.op = "register" /\ f.req.op = "register" /\ e.req.bundle = f.req.bundle => e = f
    /\ \A e \in events : e.req.op = "register" => e.req.id \in ValidDocuments

\* The task of an event is its bundle.
LEMMA TaskOf ==
  ASSUME NEW e, e.req.op \in Ops
  PROVE  EventTaskId(e) = e.req.bundle
  BY DEF EventTaskId, Entity

\* The invariants give all of that.
LEMMA LogIsOK ==
  ASSUME TypeInv, LogInv, ReplayInv
  PROVE  LogOK
  <1>1. head \in Nat /\ \A e \in events : e.pos \in 1 .. head
    BY DEF TypeInv, TypeOK, LogInv, Positions
  <1>2. \A e \in events : e.req \in Requests
    BY DEF TypeInv, TypeOK, Event
  <1>3. \A e \in events : e.req.bundle \in Jobs /\ e.req.op \in Ops /\ e.req.ok \in BOOLEAN
    BY <1>2, RequestAssumption
  <1>4. \A e, f \in events : e.pos = f.pos => e = f
    BY DEF LogInv, Positions
  <1>5. IsFiniteSet(events)
    <2>1. PICK f : f = [e \in events |-> e.pos]
      OBVIOUS
    <2>2. f \in Injection(events, 1 .. head)
      BY <1>1, <1>4, <2>1 DEF Injection, IsInjective
    <2> QED
      BY <1>1, <2>2, FS_Injection, FS_Interval
  <1>6. \A e, f \in events :
           e.req.op = "register" /\ f.req.op = "register" /\ e.req.bundle = f.req.bundle => e = f
    BY DEF LogInv, BindingsInv
  <1>7. \A e \in events : e.req.op = "register" => e.req.id \in ValidDocuments
    BY DEF ReplayInv, DocumentsValid, Registrations
  <1> QED
    BY <1>1, <1>2, <1>3, <1>4, <1>5, <1>6, <1>7 DEF LogOK, LogInv, ReplayInv

\* The last of some events.
LEMMA LastOf ==
  ASSUME LogOK, NEW S \in SUBSET events, S # {}
  PROVE  Last(S) \in S /\ \A f \in S : f.pos <= Last(S).pos
  <1>1. PICK T : T = {e.pos : e \in S}
    OBVIOUS
  <1>2. T \in SUBSET Nat /\ T # {} /\ \A n \in T : n <= head
    BY <1>1 DEF LogOK
  <1>3. PICK m \in T : \A k \in T : k <= m
    BY <1>2, GreatestNatural DEF LogOK
  <1>4. PICK e \in S : e.pos = m
    BY <1>1, <1>3
  <1>5. \A f \in S : f.pos <= e.pos
    BY <1>1, <1>3, <1>4
  <1> QED
    BY <1>5 DEF Last

\* The last of one event.
LEMMA LastOne ==
  ASSUME LogOK, NEW e \in events, NEW S, S = {e}
  PROVE  Last(S) = e
  BY LastOf

\* _phase_feedback does not raise.
LEMMA NothingRaised ==
  ASSUME LogOK, ReviewIdsDiffer
  PROVE  ProjectionRebuilds
  <1> SUFFICES ASSUME NEW bundle \in Jobs, FeedbackRaises(bundle)
               PROVE  FALSE
    BY DEF ProjectionRebuilds
  <1>1. \A e \in Replayed(bundle) : e \in events /\ e.req.bundle = bundle /\ e.req \in Requests
    BY TaskOf DEF LogOK, Replayed
  <1>2. PICK e, f \in Replayed(bundle) :
        /\ e.req.op = "register"
        /\ \/ f.req.op = "register" /\ f # e
           \/ f.pos < e.pos
           \/ \E g \in Replayed(bundle) \ {f} :
                  /\ g.req.id = f.req.id
                  /\ \/ f.req.op = "submit" /\ g.req.op = "submit"
                     \/ f.req.op = "verify" /\ g.req.op = "verify"
                     \/ {f.req.op, g.req.op} \subseteq ReviewOps
           \/ /\ f.req.op = "verify"
              /\ \A p \in Replayed(bundle) :
                     ~(p.req.op = "submit" /\ p.req.id = f.req.id /\ p.pos < f.pos)
    BY DEF FeedbackRaises
  <1>3. ~(f.req.op = "register" /\ f # e)
    BY <1>1, <1>2 DEF LogOK
  <1>4. ~(f.pos < e.pos)
    <2>1. PICK r \in events : Registration(r, bundle) /\ r.pos <= f.pos
      BY <1>1, <1>2 DEF LogOK, Followed
    <2>2. r = e
      BY <1>1, <1>2, <2>1 DEF LogOK, Registration
    <2>3. e.pos \in Nat /\ f.pos \in Nat
      BY <1>1, <1>2 DEF LogOK
    <2> QED
      BY <2>1, <2>2, <2>3
  <1>5. ASSUME NEW g \in Replayed(bundle), g # f, g.req.id = f.req.id,
               \/ f.req.op = "submit" /\ g.req.op = "submit"
               \/ f.req.op = "verify" /\ g.req.op = "verify"
               \/ {f.req.op, g.req.op} \subseteq ReviewOps
        PROVE  FALSE
    <2>1. f.req.op \in EvidenceOps /\ g.req.op \in EvidenceOps
      BY <1>5 DEF EvidenceOps, ReviewOps
    <2>2. f.req.op # g.req.op
      BY <1>1, <1>5, <2>1 DEF LogOK, EvidenceOnce, Evidence
    <2>3. {f.req.op, g.req.op} = {"gap", "change"}
      BY <1>5, <2>2 DEF ReviewOps
    <2> QED
      BY <1>1, <1>5, <2>3 DEF ReviewIdsDiffer
  <1>6. ASSUME f.req.op = "verify"
        PROVE  \E p \in Replayed(bundle) : p.req.op = "submit" /\ p.req.id = f.req.id /\ p.pos < f.pos
    <2>1. PICK p \in events : /\ p.req.op = "submit" /\ p.req.id = f.req.id
                              /\ p.req.bundle = f.req.bundle /\ p.pos < f.pos
      BY <1>1, <1>6 DEF LogOK, VerdictSound
    <2>2. p \in Replayed(bundle)
      BY <1>1, <2>1, TaskOf DEF LogOK, Replayed
    <2> QED
      BY <2>1, <2>2
  <1> QED
    BY <1>2, <1>3, <1>4, <1>5, <1>6

\* _capture_artifact: the documents named are stored.
LEMMA ArtifactsStored ==
  ASSUME LogOK
  PROVE  ProjectedArtifacts \subseteq artifacts
  BY DEF LogOK, DocumentsStored, ProjectedArtifacts

\* The proofs a bundle's feedback lists as accepted, and as rejected.
Accepted(bundle) == Judged(bundle, TRUE)
Rejected(bundle) == Judged(bundle, FALSE)

\* What a bundle's feedback says of a verdict.
LEMMA JudgedIs ==
  ASSUME LogOK, NEW bundle, NEW id
  PROVE  /\ id \in Accepted(bundle) <=>
                \E v \in events : v.req.op = "verify" /\ v.req.id = id /\ v.req.bundle = bundle /\ v.req.ok
         /\ id \in Rejected(bundle) <=>
                \E v \in events : v.req.op = "verify" /\ v.req.id = id /\ v.req.bundle = bundle /\ ~v.req.ok
  <1>1. Replayed(bundle) = {e \in events : e.req.bundle = bundle}
    BY TaskOf DEF LogOK, Replayed
  <1>2. \A e \in events : e.req.op = "verify" =>
            (Accepts(e) = TRUE <=> e.req.ok) /\ (Accepts(e) = FALSE <=> ~e.req.ok)
    BY DEF LogOK, Accepts
  <1> QED
    BY <1>1, <1>2 DEF Judged, Accepted, Rejected

\* What it says of a submission.
LEMMA SubmittedIs ==
  ASSUME LogOK, NEW bundle
  PROVE  Submitted(bundle) =
             {p.req.id : p \in {e \in events : e.req.op = "submit" /\ e.req.bundle = bundle}}
  <1>1. Replayed(bundle) = {e \in events : e.req.bundle = bundle}
    BY TaskOf DEF LogOK, Replayed
  <1> QED
    BY <1>1 DEF Submitted

\* The row of a run is that of its one submission.
LEMMA SubmissionIs ==
  ASSUME LogOK, NEW p \in events, p.req.op = "submit"
  PROVE  Submission(p.req.id) = p
  <1>1. {e \in events : e.req.op = "submit" /\ e.req.id = p.req.id} = {p}
    BY DEF LogOK, EvidenceOnce, Evidence, EvidenceOps
  <1> QED
    BY <1>1, LastOne DEF Submission

\* The verdict on a proof is on its one submission, and later.
LEMMA VerdictAfter ==
  ASSUME LogOK, NEW p \in events, p.req.op = "submit",
         NEW v \in events, v.req.op = "verify", v.req.id = p.req.id
  PROVE  v.req.bundle = p.req.bundle /\ v.pos > p.pos /\ \A w \in events : w.req.op = "verify" /\ w.req.id = v.req.id => w = v
  <1>1. PICK q \in events : /\ q.req.op = "submit" /\ q.req.id = v.req.id
                            /\ q.req.bundle = v.req.bundle /\ q.pos < v.pos
    BY DEF LogOK, VerdictSound
  <1>2. q = p
    BY <1>1 DEF LogOK, EvidenceOnce, Evidence, EvidenceOps
  <1>3. p.pos \in Nat /\ v.pos \in Nat
    BY DEF LogOK
  <1>4. \A w \in events : w.req.op = "verify" /\ w.req.id = v.req.id => w = v
    BY DEF LogOK, VerdictSound
  <1> QED
    BY <1>1, <1>2, <1>3, <1>4

\* The verdict a run shows.
LEMMA VerificationIs ==
  ASSUME LogOK, NEW p \in events, p.req.op = "submit"
  PROVE  /\ \A v \in events : v.req.op = "verify" /\ v.req.id = p.req.id =>
                Verification(p.req.id) = IF v.req.ok THEN "accepted" ELSE "rejected"
         /\ (\A v \in events : ~(v.req.op = "verify" /\ v.req.id = p.req.id)) =>
                Verification(p.req.id) = "pending"
  <1>1. PICK verdicts : verdicts = {e \in events : /\ e.req.op = "verify" /\ e.req.id = p.req.id
                                                   /\ e.pos > p.pos}
    OBVIOUS
  <1>2. Verification(p.req.id) = IF verdicts = {} THEN "pending"
                                 ELSE IF Accepts(Last(verdicts)) THEN "accepted" ELSE "rejected"
    BY <1>1, SubmissionIs DEF Verification
  <1>3. ASSUME NEW v \in events, v.req.op = "verify", v.req.id = p.req.id
        PROVE  Verification(p.req.id) = IF v.req.ok THEN "accepted" ELSE "rejected"
    <2>1. verdicts = {v}
      BY <1>1, <1>3, VerdictAfter
    <2>2. Last(verdicts) = v
      BY <2>1, LastOne
    <2>3. Accepts(v) <=> v.req.ok
      BY <1>3 DEF Accepts
    <2> QED
      BY <1>2, <2>1, <2>2, <2>3
  <1>4. ASSUME \A v \in events : ~(v.req.op = "verify" /\ v.req.id = p.req.id)
        PROVE  Verification(p.req.id) = "pending"
    BY <1>1, <1>2, <1>4
  <1> QED
    BY <1>3, <1>4

\* The fields of a bundle's feedback.
LEMMA FeedbackIs ==
  ASSUME NEW bundle
  PROVE  /\ Feedback(bundle).accepted = Accepted(bundle)
         /\ Feedback(bundle).rejected = Rejected(bundle)
         /\ Feedback(bundle).pending = Submitted(bundle) \ (Accepted(bundle) \cup Rejected(bundle))
         /\ Feedback(bundle).state =
                VerificationState(Submitted(bundle), Feedback(bundle).pending,
                                  Accepted(bundle), Rejected(bundle))
         /\ Feedback(bundle).reviews = UnresolvedReviews(bundle)
         /\ Feedback(bundle).last = Max({m.at : m \in Milestones(bundle)})
         /\ Feedback(bundle).behind = Cardinality({e \in events : e.pos > Feedback(bundle).last})
  BY DEF Feedback, Accepted, Rejected

\* Every run is in the feedback of its own task, with the verdict it shows.
LEMMA RunsAgree ==
  ASSUME LogOK, NEW run \in Runs, NEW bundle \in RegisteredBundles
  PROVE  /\ run.id \in Accepted(bundle) <=> run.task = bundle /\ run.verification = "accepted"
         /\ run.id \in Rejected(bundle) <=> run.task = bundle /\ run.verification = "rejected"
         /\ run.id \in Submitted(bundle) \ (Accepted(bundle) \cup Rejected(bundle))
                <=> run.task = bundle /\ run.verification = "pending"
  <1>1. PICK p \in events : /\ p.req.op = "submit"
                            /\ run = [id |-> p.req.id, task |-> Submission(p.req.id).req.bundle,
                                      verification |-> Verification(p.req.id)]
    BY DEF Runs
  <1>2. PICK id, shown : id = p.req.id /\ shown = Verification(p.req.id)
    OBVIOUS
  <1>3. run.id = id /\ run.task = p.req.bundle /\ run.verification = shown
    BY <1>1, <1>2, SubmissionIs
  <1>a. PICK accepted, rejected : accepted = Accepted(bundle) /\ rejected = Rejected(bundle)
    OBVIOUS
  <1>b. id \in accepted <=>
            \E v \in events : v.req.op = "verify" /\ v.req.id = id /\ v.req.bundle = bundle /\ v.req.ok
    BY <1>a, JudgedIs
  <1>c. id \in rejected <=>
            \E v \in events : v.req.op = "verify" /\ v.req.id = id /\ v.req.bundle = bundle /\ ~v.req.ok
    BY <1>a, JudgedIs
  <1>4. id \in Submitted(bundle) <=> p.req.bundle = bundle
    <2>1. \A q \in events : q.req.op = "submit" /\ q.req.id = id => q = p
      BY <1>1, <1>2 DEF LogOK, EvidenceOnce, Evidence, EvidenceOps
    <2> QED
      BY <1>1, <1>2, <2>1, SubmittedIs
  <1>5. CASE \A v \in events : ~(v.req.op = "verify" /\ v.req.id = id)
    <2>1. id \notin accepted /\ id \notin rejected
      BY <1>5, <1>b, <1>c
    <2>2. shown = "pending"
      BY <1>1, <1>2, <1>5, VerificationIs
    <2> QED
      BY <1>3, <1>4, <1>a, <2>1, <2>2
  <1>6. ASSUME NEW v \in events, v.req.op = "verify", v.req.id = id
        PROVE  /\ id \in accepted <=> p.req.bundle = bundle /\ shown = "accepted"
               /\ id \in rejected <=> p.req.bundle = bundle /\ shown = "rejected"
               /\ shown \in {"accepted", "rejected"}
    <2>1. /\ v.req.bundle = p.req.bundle
          /\ \A w \in events : w.req.op = "verify" /\ w.req.id = id => w = v
      BY <1>1, <1>2, <1>6, VerdictAfter
    <2>2. id \in accepted <=> p.req.bundle = bundle /\ v.req.ok
      BY <1>6, <2>1, <1>b, <1>c
    <2>3. id \in rejected <=> p.req.bundle = bundle /\ ~v.req.ok
      BY <1>6, <2>1, <1>b, <1>c
    <2>4. shown = IF v.req.ok THEN "accepted" ELSE "rejected"
      BY <1>1, <1>2, <1>6, VerificationIs
    <2> QED
      BY <2>2, <2>3, <2>4
  <1> QED
    BY <1>3, <1>4, <1>5, <1>6, <1>a

\* The events of a task.
LEMMA ReplayedIs ==
  ASSUME LogOK, NEW bundle
  PROVE  Replayed(bundle) = {e \in events : e.req.bundle = bundle}
  BY TaskOf DEF LogOK, Replayed

\* _prover_verification_state with an accepted candidate.
LEMMA StateWithAccepted ==
  ASSUME NEW submitted, NEW pending, NEW accepted, NEW rejected, submitted # {}, accepted # {}
  PROVE  VerificationState(submitted, pending, accepted, rejected)
             \in {"verified_candidate_available", "mixed_candidates"}
  <1>1. PICK X : X = {s \in {<<1, pending>>, <<2, accepted>>, <<3, rejected>>} : s[2] # {}}
    OBVIOUS
  <1>2. CASE pending = {}
    BY <1>2 DEF VerificationState
  <1>3. CASE pending # {}
    <2>1. PICK a, b : a = <<1, pending>> /\ b = <<2, accepted>>
      OBVIOUS
    <2>2. a # b /\ a \in X /\ b \in X
      BY <1>1, <1>3, <2>1
    <2>3. IsFiniteSet(X)
      <3>1. PICK Y : Y = {<<1, pending>>, <<2, accepted>>, <<3, rejected>>}
        OBVIOUS
      <3>2. IsFiniteSet(Y)
        <4>1. IsFiniteSet({<<1, pending>>} \cup {<<2, accepted>>})
          BY FS_Singleton, FS_AddElement
        <4>2. IsFiniteSet(({<<1, pending>>} \cup {<<2, accepted>>}) \cup {<<3, rejected>>})
          BY <4>1, FS_AddElement
        <4>3. Y = ({<<1, pending>>} \cup {<<2, accepted>>}) \cup {<<3, rejected>>}
          BY <3>1
        <4> QED
          BY <4>2, <4>3
      <3>3. X \in SUBSET Y
        BY <1>1, <3>1
      <3> QED
        BY <3>2, <3>3, FS_Subset
    <2>4. Cardinality(X) \in Nat /\ Cardinality(X) # 0
      BY <2>2, <2>3, FS_CardinalityType, FS_EmptySet
    <2>5. Cardinality(X) # 1
      BY <2>2, <2>3, FS_Singleton
    <2>6. Cardinality(X) > 1
      BY <2>4, <2>5
    <2> QED
      BY <1>1, <2>6, Zenon DEF VerificationState
  <1> QED
    BY <1>2, <1>3

\* A task shown as verified has an accepted candidate.
LEMMA StatusAgrees ==
  ASSUME LogOK, NEW bundle \in RegisteredBundles, TaskStatus(bundle) = "verified"
  PROVE  VerificationState(Submitted(bundle), Feedback(bundle).pending, Accepted(bundle), Rejected(bundle))
             \in {"verified_candidate_available", "mixed_candidates"}
  <1>1. PICK S : S = {e \in Replayed(bundle) : e.req.op # "submit"}
    OBVIOUS
  <1>2. S \in SUBSET events /\ S # {}
    BY <1>1, ReplayedIs DEF RegisteredBundles
  <1>3. PICK l : l = Last(S)
    OBVIOUS
  <1>4. l \in S
    BY <1>2, <1>3, LastOf
  <1>5. l \in events /\ l.req.bundle = bundle /\ l.req.op \in Ops /\ l.req.op # "submit"
    BY <1>1, <1>4, ReplayedIs DEF LogOK
  <1>6. StatusAfter(l) = "verified"
    BY <1>1, <1>3 DEF TaskStatus
  <1>7. l.req.op = "verify" /\ l.req.ok
    <2>1. CASE l.req.op = "register"
      BY <1>6, <2>1 DEF StatusAfter
    <2>2. CASE l.req.op = "claim"
      BY <1>6, <2>2 DEF StatusAfter
    <2>3. CASE l.req.op \in ReviewOps
      BY <1>6, <2>3 DEF StatusAfter, ReviewOps
    <2>4. CASE l.req.op = "verify"
      <3>1. StatusAfter(l) = IF Accepts(l) THEN "verified" ELSE "blocked"
        BY <2>4 DEF StatusAfter, ReviewOps
      <3> QED
        BY <1>6, <2>4, <3>1 DEF Accepts
    <2> QED
      BY <1>5, <2>1, <2>2, <2>3, <2>4 DEF Ops, EvidenceOps, ReviewOps
  <1>8. Accepted(bundle) # {}
    BY <1>5, <1>7, JudgedIs, ZenonT(30)
  <1>9. Submitted(bundle) # {}
    <2>1. PICK p \in events : p.req.op = "submit" /\ p.req.bundle = bundle
      BY <1>5, <1>7 DEF LogOK, VerdictSound
    <2>2. p \in Replayed(bundle)
      BY <2>1, ReplayedIs
    <2> QED
      BY <2>1, <2>2 DEF Submitted
  <1> QED
    BY <1>8, <1>9, StateWithAccepted

\* A task counted as blocked has a rejected candidate or a review.
LEMMA BlockedAgrees ==
  ASSUME LogOK, NEW bundle \in RegisteredBundles
  PROVE  bundle \in BlockedBundles <=> Rejected(bundle) \cup UnresolvedReviews(bundle) # {}
  <1>1. Rejected(bundle) # {} <=> \E e \in Replayed(bundle) : e.req.op = "verify" /\ ~Accepts(e)
    <2>1. Rejected(bundle) # {} <=> \E v \in events : v.req.op = "verify" /\ v.req.bundle = bundle /\ ~v.req.ok
      BY JudgedIs, SMTT(30)
    <2> QED
      BY <2>1, ReplayedIs DEF Accepts
  <1>2. UnresolvedReviews(bundle) # {} <=> \E e \in Replayed(bundle) : e.req.op \in ReviewOps
    BY DEF UnresolvedReviews
  <1>3. bundle \in Jobs
    BY DEF RegisteredBundles
  <1> QED
    BY <1>1, <1>2, <1>3 DEF BlockedBundles

\* The last milestone of a bundle.
LEMMA LastMilestone ==
  ASSUME LogOK, NEW bundle \in RegisteredBundles, NEW last, last = Max({m.at : m \in Milestones(bundle)})
  PROVE  /\ last \in 1 .. head
         /\ \A e \in events : e.pos > last => e.req.op = "claim" \/ e.req.bundle # bundle
  <1>1. PICK T : T = {m.at : m \in Milestones(bundle)}
    OBVIOUS
  <1>2. T = {e.pos : e \in {f \in events : f.req.bundle = bundle /\ f.req.op # "claim"}}
    <2>1. PICK E : E = {f \in events : f.req.bundle = bundle /\ f.req.op # "claim"}
      OBVIOUS
    <2>2. Milestones(bundle) = {[phase |-> e.req.op, at |-> e.pos] : e \in E}
      BY <2>1, ReplayedIs DEF Milestones
    <2>3. T = {e.pos : e \in E}
      <3>1. ASSUME NEW n \in T PROVE n \in {e.pos : e \in E}
        BY <1>1, <2>2
      <3>2. ASSUME NEW e \in E PROVE e.pos \in T
        <4>1. [phase |-> e.req.op, at |-> e.pos] \in Milestones(bundle)
          BY <2>2
        <4>2. [phase |-> e.req.op, at |-> e.pos].at = e.pos
          OBVIOUS
        <4> QED
          BY <1>1, <4>1, <4>2
      <3> QED
        BY <3>1, <3>2
    <2> QED
      BY <2>1, <2>3
  <1>3. T \in SUBSET Nat /\ T # {} /\ \A n \in T : n <= head /\ n \in 1 .. head
    <2>1. \E e \in events : e.req.bundle = bundle /\ e.req.op = "register"
      BY ReplayedIs DEF RegisteredBundles
    <2> QED
      BY <1>2, <2>1 DEF LogOK
  <1>4. \E m \in T : \A k \in T : k <= m
    BY <1>3, GreatestNatural DEF LogOK
  <1>5. last \in T /\ \A k \in T : last >= k
    <2>1. \E m \in T : \A k \in T : m >= k
      BY <1>3, <1>4
    <2>2. last = CHOOSE x \in T : \A y \in T : x >= y
      BY <1>1, Zenon DEF Max
    <2> QED
      BY <2>1, <2>2
  <1>6. ASSUME NEW e \in events, e.pos > last, e.req.op # "claim", e.req.bundle = bundle
        PROVE  FALSE
    <2>1. e.pos \in T
      BY <1>2, <1>6
    <2>2. e.pos \in Nat /\ last \in Nat
      BY <1>3, <1>5, <2>1
    <2> QED
      BY <1>5, <1>6, <2>1, <2>2
  <1> QED
    BY <1>3, <1>5, <1>6

\* As many events are behind a position as positions.
LEMMA CountBehind ==
  ASSUME LogOK, NEW last \in 1 .. head
  PROVE  Cardinality({e \in events : e.pos > last}) = head - last
  <1>1. PICK E : E = {e \in events : e.pos > last}
    OBVIOUS
  <1>2. PICK f : f = [e \in E |-> e.pos]
    OBVIOUS
  <1>3. head \in Nat /\ last \in Nat /\ last <= head /\ last >= 1
    BY DEF LogOK
  <1>4. f \in [E -> last + 1 .. head]
    <2>1. ASSUME NEW e \in E PROVE e.pos \in last + 1 .. head
      BY <1>1, <1>3 DEF LogOK
    <2> QED
      BY <1>2, <2>1
  <1>5. f \in Injection(E, last + 1 .. head)
    BY <1>1, <1>2, <1>4 DEF Injection, IsInjective, LogOK
  <1>6. \A n \in last + 1 .. head : \E e \in E : f[e] = n
    <2> TAKE n \in last + 1 .. head
    <2>1. n \in 1 .. head /\ n > last
      BY <1>3
    <2>2. PICK e \in events : e.pos = n
      BY <2>1 DEF LogOK, Filled
    <2> QED
      BY <1>1, <1>2, <2>1, <2>2
  <1>7. f \in Bijection(E, last + 1 .. head)
    BY <1>4, <1>5, <1>6 DEF Bijection, Surjection
  <1>8. IsFiniteSet(E)
    BY <1>1, FS_Subset DEF LogOK
  <1>9. Cardinality(last + 1 .. head) = Cardinality(E)
    BY <1>7, <1>8, FS_Bijection DEF ExistsBijection
  <1>10. Cardinality(last + 1 .. head) = head - last
    BY <1>3, FS_Interval
  <1> QED
    BY <1>1, <1>9, <1>10

\* Of a log that is in order, the dashboard tells one story.
LEMMA DashboardHolds ==
  ASSUME LogOK, ReviewIdsDiffer
  PROVE  DashboardSound
  <1>1. ASSUME NEW run \in Runs, NEW bundle \in RegisteredBundles
        PROVE  /\ run.id \in Feedback(bundle).accepted <=> run.task = bundle /\ run.verification = "accepted"
               /\ run.id \in Feedback(bundle).rejected <=> run.task = bundle /\ run.verification = "rejected"
               /\ run.id \in Feedback(bundle).pending <=> run.task = bundle /\ run.verification = "pending"
    <2>1. PICK accepted, rejected, submitted :
              accepted = Accepted(bundle) /\ rejected = Rejected(bundle) /\ submitted = Submitted(bundle)
      OBVIOUS
    <2>2. /\ run.id \in accepted <=> run.task = bundle /\ run.verification = "accepted"
          /\ run.id \in rejected <=> run.task = bundle /\ run.verification = "rejected"
          /\ run.id \in submitted \ (accepted \cup rejected)
                 <=> run.task = bundle /\ run.verification = "pending"
      BY <1>1, <2>1, RunsAgree
    <2>3. /\ Feedback(bundle).accepted = accepted
          /\ Feedback(bundle).rejected = rejected
          /\ Feedback(bundle).pending = submitted \ (accepted \cup rejected)
      BY <2>1, FeedbackIs
    <2> QED
      BY <2>2, <2>3
  <1>2. ASSUME NEW bundle \in RegisteredBundles
        PROVE  /\ TaskStatus(bundle) = "verified" =>
                      Feedback(bundle).state \in {"verified_candidate_available", "mixed_candidates"}
               /\ bundle \in BlockedBundles <=> Feedback(bundle).rejected \cup Feedback(bundle).reviews # {}
               /\ \A e \in events : e.pos > Feedback(bundle).last =>
                      e.req.op = "claim" \/ EventTaskId(e) # bundle
               /\ Feedback(bundle).behind = head - Feedback(bundle).last
    <2>1. TaskStatus(bundle) = "verified" =>
              Feedback(bundle).state \in {"verified_candidate_available", "mixed_candidates"}
      BY StatusAgrees, FeedbackIs
    <2>2. bundle \in BlockedBundles <=> Feedback(bundle).rejected \cup Feedback(bundle).reviews # {}
      BY BlockedAgrees, FeedbackIs
    <2>3. PICK last : last = Feedback(bundle).last
      OBVIOUS
    <2>4. last \in 1 .. head /\ \A e \in events : e.pos > last => e.req.op = "claim" \/ e.req.bundle # bundle
      BY <2>3, LastMilestone, FeedbackIs
    <2>5. Feedback(bundle).behind = head - last
      BY <2>3, <2>4, CountBehind, FeedbackIs
    <2>6. \A e \in events : EventTaskId(e) = e.req.bundle
      BY TaskOf DEF LogOK
    <2> QED
      BY <2>1, <2>2, <2>3, <2>4, <2>5, <2>6
  <1> QED
    BY <1>1, <1>2, NothingRaised, ArtifactsStored DEF DashboardSound

-----------------------------------------------------------------------------
(* The work list of the leverage counts *)

\* _transitive_dependents finds the least set that holds the node and, with a
\* node, its dependents.
LEMMA WorkListDone ==
  ASSUME NEW nodes, IsFiniteSet(nodes), NEW U, IsFiniteSet(U), Cardinality(U) <= Cardinality(nodes),
         NEW id \in U, \A c \in U : Dependents(nodes, c) \subseteq U
  PROVE  \E T \in SUBSET U :
             /\ TransitiveDependents(nodes, id) = T \ {id}
             /\ id \in T
             /\ \A c \in T : Dependents(nodes, c) \subseteq T
             /\ \A S \in SUBSET U :
                    id \in S /\ (\A c \in S : Dependents(nodes, c) \subseteq S) => T \subseteq S
  <1>1. PICK N : N = Cardinality(nodes)
    OBVIOUS
  <1>2. N \in Nat /\ Cardinality(U) <= N
    BY <1>1, FS_CardinalityType
  <1>a. PICK D : D = [c \in U |-> Dependents(nodes, c)]
    OBVIOUS
  <1>b. \A c \in U : D[c] = Dependents(nodes, c) /\ D[c] \in SUBSET U
    BY <1>a
  <1>3. PICK G : G = [S \in SUBSET U |-> S \cup UNION {D[c] : c \in S}]
    OBVIOUS
  <1>4. Grows(G, U)
    BY <1>b, <1>3 DEF Grows
  <1> DEFINE Seen(f) ==
                f = [n \in 0 .. N |->
                        IF n = 0 THEN {id}
                        ELSE LET before == f[n - 1]
                             IN  before \cup UNION {Dependents(nodes, c) : c \in before}]
  <1>c. ASSUME NEW S \in SUBSET U
        PROVE  G[S] = S \cup UNION {Dependents(nodes, c) : c \in S}
    BY <1>b, <1>3
  <1>5. \E f : Seen(f)
    <2>1. {id} \in SUBSET U
      OBVIOUS
    <2>2. PICK f \in [0 .. N -> SUBSET U] : f[0] = {id} /\ \A n \in 1 .. N : f[n] = G[f[n - 1]]
      <3>1. \E f : Repeats(f, G, {id}, U, N)
        BY <1>2, <1>4, <2>1, Iterated
      <3> QED
        BY <3>1 DEF Repeats
    <2>3. ASSUME NEW n \in 0 .. N
          PROVE  f[n] = IF n = 0 THEN {id}
                        ELSE f[n - 1] \cup UNION {Dependents(nodes, c) : c \in f[n - 1]}
      <3>1. CASE n = 0
        BY <2>2, <3>1
      <3>2. CASE n # 0
        <4>1. n \in 1 .. N /\ n - 1 \in 0 .. N
          BY <1>2, <3>2
        <4>2. f[n - 1] \in SUBSET U /\ f[n] = G[f[n - 1]]
          BY <2>2, <4>1
        <4> QED
          BY <1>c, <3>2, <4>2
      <3> QED
        BY <3>1, <3>2
    <2>4. Seen(f)
      BY <2>2, <2>3
    <2> QED
      BY <2>4
  <1>6. PICK f : f = (CHOOSE g : Seen(g))
    OBVIOUS
  <1>7. Seen(f)
    BY <1>5, <1>6
  <1>8. TransitiveDependents(nodes, id) = f[N] \ {id}
    BY <1>1, <1>6, Zenon DEF TransitiveDependents
  <1>d. f[0] = {id} /\ \A n \in Nat : n + 1 <= N => f[n + 1] = f[n] \cup UNION {Dependents(nodes, c) : c \in f[n]}
    <2>1. f[0] = {id}
      BY <1>2, <1>7
    <2>2. ASSUME NEW n \in Nat, n + 1 <= N
          PROVE  f[n + 1] = f[n] \cup UNION {Dependents(nodes, c) : c \in f[n]}
      <3>1. n + 1 \in 0 .. N /\ n + 1 # 0 /\ (n + 1) - 1 = n
        BY <1>2, <2>2
      <3> QED
        BY <1>7, <3>1
    <2> QED
      BY <2>1, <2>2
  <1>e. DOMAIN f = 0 .. N /\ f = [n \in 0 .. N |-> f[n]]
    BY <1>7
  <1> HIDE DEF Seen
  <1>9. ASSUME NEW S \in SUBSET U, id \in S, \A c \in S : Dependents(nodes, c) \subseteq S
        PROVE  \A n \in 0 .. N : f[n] \in SUBSET S
    <2> DEFINE In == {n \in Nat : n <= N => f[n] \in SUBSET S}
    <2>1. 0 \in In
      BY <1>9, <1>d
    <2>2. ASSUME NEW n \in Nat, n \in In PROVE n + 1 \in In
      <3>1. CASE n + 1 <= N
        <4>1. n <= N
          BY <1>2, <3>1
        <4>2. f[n + 1] = f[n] \cup UNION {Dependents(nodes, c) : c \in f[n]}
          BY <1>d, <3>1
        <4>3. f[n] \in SUBSET S
          BY <2>2, <4>1
        <4>4. f[n + 1] \in SUBSET S
          BY <1>9, <4>2, <4>3
        <4> QED
          BY <4>4
      <3> QED
        BY <3>1
    <2> HIDE DEF In
    <2>3. Nat \subseteq In
      BY <2>1, <2>2, SetInduction
    <2> QED
      BY <1>2, <2>3 DEF In
  <1>10. \A n \in 0 .. N : f[n] \in SUBSET U
    BY <1>9
  <1>11. \A n \in 1 .. N : f[n] = G[f[n - 1]]
    <2> TAKE n \in 1 .. N
    <2>1. PICK m \in Nat : m = n - 1 /\ m + 1 = n /\ m \in 0 .. N /\ m + 1 <= N
      BY <1>2
    <2>2. f[m] \in SUBSET U
      BY <1>10, <2>1
    <2>3. f[m + 1] = G[f[m]]
      BY <1>c, <1>d, <2>1, <2>2
    <2> QED
      BY <2>1, <2>3
  <1>12. G[f[N]] = f[N]
    <2>1. f \in [0 .. N -> SUBSET U]
      BY <1>e, <1>10
    <2>2. PICK x : x = {id}
      OBVIOUS
    <2>3. x # {} /\ Repeats(f, G, x, U, N)
      BY <1>d, <1>11, <2>1, <2>2 DEF Repeats
    <2> QED
      BY <1>2, <1>4, <2>3, Saturated
  <1>13. PICK T : T = f[N]
    OBVIOUS
  <1>14. T \in SUBSET U /\ N \in 0 .. N
    BY <1>2, <1>10, <1>13
  <1>15. T = T \cup UNION {Dependents(nodes, c) : c \in T}
    BY <1>c, <1>12, <1>13, <1>14
  <1>16. id \in T
    <2> DEFINE In == {n \in Nat : n <= N => id \in f[n]}
    <2>1. 0 \in In
      BY <1>d
    <2>2. ASSUME NEW n \in Nat, n \in In PROVE n + 1 \in In
      BY <1>2, <1>d, <2>2
    <2> HIDE DEF In
    <2>3. Nat \subseteq In
      BY <2>1, <2>2, SetInduction
    <2> QED
      BY <1>2, <1>13, <2>3 DEF In
  <1>17. \A c \in T : Dependents(nodes, c) \subseteq T
    BY <1>15
  <1>18. \A S \in SUBSET U :
             id \in S /\ (\A c \in S : Dependents(nodes, c) \subseteq S) => T \subseteq S
    BY <1>9, <1>13, <1>14
  <1> QED
    BY <1>8, <1>13, <1>14, <1>16, <1>17, <1>18

-----------------------------------------------------------------------------
(* The nodes of a task *)

\* The identifiers of the nodes of a graph.
Names(graph) == {n.id : n \in graph.nodes}

\* The mathematical node of a bundle with an identifier.
Public(bundle, id) == PublicId(bundle, "mathematical", id)

\* The nodes shown for a bundle are those of the graph, with its edges.
Shows(nodes, bundle, graph) ==
    /\ \A x \in nodes : x.source \in Names(graph) /\ x.id = Public(bundle, x.source)
    /\ \A i \in Names(graph) : \E x \in nodes : x.source = i
    /\ \A x, y \in nodes : x.source = y.source => x = y
    /\ \A x \in nodes : \A i : Public(bundle, i) \in x.dependencies <=>
           \E f \in graph.edges : f.source = i /\ f.target = x.source

\* Different identifiers stay different.
LEMMA PublicDiffer ==
  ASSUME NEW bundle, NEW i, NEW j, Public(bundle, i) = Public(bundle, j)
  PROVE  i = j
  BY DEF Public, PublicId

\* The nodes a registration contributes to the mathematical graph.
LEMMA PublicNodesShow ==
  ASSUME NEW bundle, NEW graphs
  PROVE  Shows({PublicNode(bundle, n) : n \in GraphNodes(graphs, "mathematical")}, bundle, graphs.mathematical)
  <1>1. PICK graph : graph = graphs["mathematical"]
    OBVIOUS
  <1>2. PICK nodes : nodes = {PublicNode(bundle, n) : n \in GraphNodes(graphs, "mathematical")}
    OBVIOUS
  <1>3. ASSUME NEW x \in nodes
        PROVE  \E n \in graph.nodes :
                   /\ x.source = n.id /\ x.id = Public(bundle, n.id)
                   /\ x = [id |-> Public(bundle, n.id), bundle |-> bundle, graph |-> "mathematical",
                           source |-> n.id,
                           dependencies |-> {Public(bundle, d) :
                               d \in {e.source : e \in {f \in graph.edges : f.target = n.id}}}]
    <2>1. PICK m \in GraphNodes(graphs, "mathematical") : x = PublicNode(bundle, m)
      BY <1>2
    <2>2. PICK n \in graph.nodes :
              m = [id |-> n.id, graph |-> "mathematical",
                   dependencies |-> {e.source : e \in {f \in graph.edges : f.target = n.id}}]
      BY <1>1, <2>1 DEF GraphNodes
    <2>3. m.id = n.id /\ m.graph = "mathematical"
          /\ m.dependencies = {e.source : e \in {f \in graph.edges : f.target = n.id}}
      BY <2>2
    <2> QED
      BY <2>1, <2>3 DEF PublicNode, Public
  <1>4. ASSUME NEW n \in graph.nodes
        PROVE  \E x \in nodes : x.source = n.id
    <2>1. PICK m : m = [id |-> n.id, graph |-> "mathematical",
                   dependencies |-> {e.source : e \in {f \in graph.edges : f.target = n.id}}]
      OBVIOUS
    <2>2. m \in GraphNodes(graphs, "mathematical") /\ m.id = n.id
      BY <1>1, <2>1 DEF GraphNodes
    <2>3. PublicNode(bundle, m).source = n.id
      BY <2>2 DEF PublicNode
    <2> QED
      BY <1>2, <2>2, <2>3
  <1>5. \A x \in nodes : x.source \in Names(graph) /\ x.id = Public(bundle, x.source)
    BY <1>3 DEF Names
  <1>6. \A i \in Names(graph) : \E x \in nodes : x.source = i
    BY <1>4 DEF Names
  <1>7. ASSUME NEW x \in nodes, NEW y \in nodes, x.source = y.source
        PROVE  x = y
    BY <1>3, <1>7
  <1>8. ASSUME NEW x \in nodes, NEW i
        PROVE  Public(bundle, i) \in x.dependencies <=> \E f \in graph.edges : f.source = i /\ f.target = x.source
    <2>1. PICK n \in graph.nodes :
              /\ x.source = n.id
              /\ x = [id |-> Public(bundle, n.id), bundle |-> bundle, graph |-> "mathematical",
                      source |-> n.id,
                      dependencies |-> {Public(bundle, d) :
                          d \in {e.source : e \in {f \in graph.edges : f.target = n.id}}}]
      BY <1>3
    <2>2. PICK S : S = {e.source : e \in {f \in graph.edges : f.target = n.id}}
      OBVIOUS
    <2>3. x.dependencies = {Public(bundle, d) : d \in S}
      BY <2>1, <2>2
    <2>4. Public(bundle, i) \in x.dependencies <=> i \in S
      BY <2>3, PublicDiffer
    <2> QED
      BY <2>1, <2>2, <2>4
  <1> QED
    BY <1>1, <1>2, <1>5, <1>6, <1>7, <1>8 DEF Shows

\* Another bundle's nodes have other identities, so a registration is never
\* overwritten: what is shown for a bundle is what its document contributes.
LEMMA TaskNodesAre ==
  ASSUME LogOK, NEW e \in Registrations
  PROVE  TaskNodes(e.req.bundle) =
             {PublicNode(e.req.bundle, n) : n \in GraphNodes(GraphsOf[e.req.id], "mathematical")}
  <1>1. PICK bundle, graphs, shown :
            /\ bundle = e.req.bundle /\ graphs = GraphsOf[e.req.id]
            /\ shown = {PublicNode(bundle, n) : n \in GraphNodes(graphs, "mathematical")}
    OBVIOUS
  <1>2. ASSUME NEW f \in Registrations
        PROVE  /\ f \in events /\ f.req.op = "register"
               /\ f.req.bundle \in Jobs /\ f.req.id \in DOMAIN GraphsOf
               /\ \A n : n \in Contributed(f) <=>
                      \E name \in GraphNames : \E m \in GraphNodes(GraphsOf[f.req.id], name) :
                          n = PublicNode(f.req.bundle, m)
    <2>1. f \in events /\ f.req.op = "register"
      BY DEF Registrations
    <2>2. f.req.bundle \in Jobs /\ f.req.id \in DOMAIN GraphsOf
      BY <2>1 DEF LogOK, ValidDocuments
    <2>3. Contributed(f) =
              UNION {{PublicNode(f.req.bundle, n) : n \in GraphNodes(GraphsOf[f.req.id], name)} : name \in GraphNames}
      <3> DEFINE All(b, d) == UNION {{PublicNode(b, n) : n \in GraphNodes(GraphsOf[d], name)} : name \in GraphNames}
      <3>1. Contribution = [b \in Jobs |-> [d \in DOMAIN GraphsOf |-> All(b, d)]]
        BY Zenon DEF Contribution
      <3> HIDE DEF All
      <3>2. Contribution[f.req.bundle][f.req.id] = All(f.req.bundle, f.req.id)
        BY <2>2, <3>1
      <3> QED
        BY <3>2, Zenon DEF All, Contributed
    <2> QED
      BY <2>1, <2>2, <2>3
  <1>3. ASSUME NEW b, NEW any, NEW name, NEW m \in GraphNodes(any, name)
        PROVE  /\ PublicNode(b, m).bundle = b /\ PublicNode(b, m).graph = name
               /\ PublicNode(b, m).id[1] = b
    <2>1. m.graph = name
      BY DEF GraphNodes
    <2> QED
      BY <2>1 DEF PublicNode, PublicId
  <1>4. ASSUME NEW f \in Registrations, NEW n \in Contributed(f)
        PROVE  n.bundle = f.req.bundle /\ n.id[1] = f.req.bundle
    <2>1. PICK name \in GraphNames : \E m \in GraphNodes(GraphsOf[f.req.id], name) : n = PublicNode(f.req.bundle, m)
      BY <1>2
    <2>2. PICK m \in GraphNodes(GraphsOf[f.req.id], name) : n = PublicNode(f.req.bundle, m)
      BY <2>1
    <2> QED
      BY <1>3, <2>2
  <1>5. ASSUME NEW n \in TaskNodes(bundle)
        PROVE  n \in shown
    <2>1. n \in Nodes /\ n.graph = "mathematical" /\ n.bundle = bundle
      BY DEF TaskNodes
    <2>2. PICK f \in Registrations : n \in Contributed(f)
      BY <2>1 DEF Nodes
    <2>3. f = e
      BY <1>1, <1>2, <1>4, <2>1, <2>2 DEF LogOK
    <2>4. PICK name \in GraphNames : \E m \in GraphNodes(GraphsOf[e.req.id], name) : n = PublicNode(e.req.bundle, m)
      BY <1>2, <2>2, <2>3
    <2>5. PICK m \in GraphNodes(GraphsOf[e.req.id], name) : n = PublicNode(e.req.bundle, m)
      BY <2>4
    <2>6. name = "mathematical"
      BY <1>3, <2>1, <2>5
    <2> QED
      BY <1>1, <2>5, <2>6
  <1>6. ASSUME NEW n \in shown
        PROVE  n \in TaskNodes(bundle)
    <2>1. PICK m \in GraphNodes(graphs, "mathematical") : n = PublicNode(bundle, m)
      BY <1>1
    <2>2. n.bundle = bundle /\ n.graph = "mathematical" /\ n.id[1] = bundle
      BY <1>1, <1>3, <2>1
    <2>3. n \in Contributed(e)
      BY <1>1, <1>2, <2>1 DEF GraphNames
    <2>4. ASSUME NEW f \in Registrations, f.pos > e.pos, NEW k \in Contributed(f)
          PROVE  k.id # n.id
      <3>1. e.pos \in Nat /\ f # e
        BY <1>2, <2>4 DEF LogOK
      <3>2. f.req.bundle # bundle
        BY <1>1, <1>2, <3>1 DEF LogOK
      <3> QED
        BY <1>4, <2>2, <2>4, <3>2
    <2>5. n \in Nodes
      BY <2>3, <2>4 DEF Nodes
    <2> QED
      BY <2>2, <2>5 DEF TaskNodes
  <1> QED
    BY <1>1, <1>5, <1>6

-----------------------------------------------------------------------------
(* What rests on a node *)

\* A finite graph with identifiers of its own, whose edges join its nodes.
Sound(graph) ==
    /\ IsFiniteSet(graph.nodes)
    /\ \A m, n \in graph.nodes : m.id = n.id => m = n
    /\ \A e \in graph.edges : e.source \in Names(graph) /\ e.target \in Names(graph)

\* The other nodes that rest on a node.
Above(graph, i) == {k \in Names(graph) : k # i /\ RestsOn(graph, k, i)}

\* A graph has as many identifiers as nodes.
LEMMA NamesFinite ==
  ASSUME NEW graph, Sound(graph)
  PROVE  /\ IsFiniteSet(Names(graph)) /\ Cardinality(Names(graph)) = Cardinality(graph.nodes)
         /\ Cardinality(graph.nodes) \in Nat
  <1>1. PICK f : f = [n \in graph.nodes |-> n.id]
    OBVIOUS
  <1>2. f \in Bijection(graph.nodes, Names(graph))
    <2>1. f \in [graph.nodes -> Names(graph)]
      BY <1>1 DEF Names
    <2>2. \A m, n \in graph.nodes : f[m] = f[n] => m = n
      BY <1>1 DEF Sound
    <2>3. \A i \in Names(graph) : \E n \in graph.nodes : f[n] = i
      BY <1>1 DEF Names
    <2> QED
      BY <2>1, <2>2, <2>3 DEF Bijection, Injection, IsInjective, Surjection
  <1> QED
    BY <1>2, FS_Bijection, FS_CardinalityType DEF ExistsBijection, Sound

\* As many nodes are shown as the graph has.
LEMMA ShownFinite ==
  ASSUME NEW graph, Sound(graph), NEW bundle, NEW nodes, Shows(nodes, bundle, graph)
  PROVE  IsFiniteSet(nodes) /\ Cardinality(nodes) = Cardinality(graph.nodes)
  <1>1. PICK f, U : f = [x \in nodes |-> x.source] /\ U = Names(graph)
    OBVIOUS
  <1>2. f \in [nodes -> U]
    BY <1>1 DEF Shows
  <1>3. f \in Injection(nodes, U)
    BY <1>1, <1>2 DEF Shows, Injection, IsInjective
  <1>4. f \in Surjection(nodes, U)
    BY <1>1, <1>2 DEF Shows, Surjection
  <1>5. IsFiniteSet(U) /\ Cardinality(U) = Cardinality(graph.nodes)
    BY <1>1, NamesFinite
  <1> QED
    BY <1>3, <1>4, <1>5, FS_Injection

\* Identities are as many as the nodes they stand for.
LEMMA PublicMany ==
  ASSUME NEW A, IsFiniteSet(A), NEW bundle, NEW B, B = {Public(bundle, i) : i \in A}
  PROVE  IsFiniteSet(B) /\ Cardinality(B) = Cardinality(A)
  <1>1. PICK f : f = [i \in A |-> Public(bundle, i)]
    OBVIOUS
  <1>2. f \in [A -> B] /\ \A b \in B : \E i \in A : f[i] = b
    BY <1>1
  <1>3. \A i, j \in A : f[i] = f[j] => i = j
    BY <1>1, PublicDiffer
  <1>4. f \in Bijection(A, B)
    BY <1>2, <1>3 DEF Bijection, Injection, IsInjective, Surjection
  <1> QED
    BY <1>4, FS_Bijection DEF ExistsBijection

\* The dependents of a node are the targets of its edges.
LEMMA DependentsAre ==
  ASSUME NEW graph, Sound(graph), NEW bundle, NEW nodes, Shows(nodes, bundle, graph), NEW i
  PROVE  Dependents(nodes, Public(bundle, i)) =
             {Public(bundle, t) : t \in {f.target : f \in {g \in graph.edges : g.source = i}}}
  <1>1. PICK id, T : id = Public(bundle, i) /\ T = {f.target : f \in {g \in graph.edges : g.source = i}}
    OBVIOUS
  <1>2. ASSUME NEW x \in nodes, id \in x.dependencies
        PROVE  x.source \in T /\ x.id = Public(bundle, x.source)
    BY <1>1, <1>2 DEF Shows
  <1>3. ASSUME NEW t \in T
        PROVE  \E x \in nodes : id \in x.dependencies /\ x.id = Public(bundle, t)
    <2>1. PICK f \in graph.edges : f.source = i /\ f.target = t
      BY <1>1
    <2>2. t \in Names(graph)
      BY <2>1 DEF Sound
    <2>3. PICK x \in nodes : x.source = t
      BY <2>2 DEF Shows
    <2> QED
      BY <1>1, <2>1, <2>3 DEF Shows
  <1>4. Dependents(nodes, id) = {Public(bundle, t) : t \in T}
    BY <1>2, <1>3 DEF Dependents
  <1> QED
    BY <1>1, <1>4

\* What rests on a node that rests on a third rests on the third.
LEMMA RestsTransitive ==
  ASSUME NEW graph, NEW k, NEW m, NEW i, RestsOn(graph, k, m), RestsOn(graph, m, i)
  PROVE  RestsOn(graph, k, i)
  <1>1. PICK U : U = {n.id : n \in graph.nodes}
    OBVIOUS
  <1>2. ASSUME NEW S \in SUBSET U, \A e \in graph.edges : e.target \in S \cup {k} => e.source \in S
        PROVE  i \in S
    <2>1. m \in S
      BY <1>1, <1>2 DEF RestsOn
    <2>2. \A e \in graph.edges : e.target \in S \cup {m} => e.source \in S
      BY <1>2, <2>1
    <2> QED
      BY <1>1, <2>2 DEF RestsOn
  <1> QED
    BY <1>1, <1>2 DEF RestsOn

\* What rests on the source of an edge, and the source itself, is under the target.
LEMMA RestsOnSource ==
  ASSUME NEW graph, NEW e \in graph.edges
  PROVE  RestsOn(graph, e.target, e.source)
  BY DEF RestsOn

\* The transitive dependents are the other nodes that rest on a node.
LEMMA TransitiveAre ==
  ASSUME NEW graph, Sound(graph), NEW bundle, NEW nodes, Shows(nodes, bundle, graph),
         NEW i \in Names(graph)
  PROVE  TransitiveDependents(nodes, Public(bundle, i)) = {Public(bundle, k) : k \in Above(graph, i)}
  <1>1. PICK I, U, id : I = Names(graph) /\ U = {Public(bundle, k) : k \in I} /\ id = Public(bundle, i)
    OBVIOUS
  <1>2. /\ IsFiniteSet(nodes) /\ IsFiniteSet(U) /\ Cardinality(U) <= Cardinality(nodes)
    <2>1. IsFiniteSet(nodes) /\ Cardinality(nodes) = Cardinality(I) /\ IsFiniteSet(I) /\ Cardinality(I) \in Nat
      BY <1>1, ShownFinite, NamesFinite
    <2>2. IsFiniteSet(U) /\ Cardinality(U) = Cardinality(I)
      BY <1>1, <2>1, PublicMany
    <2> QED
      BY <2>1, <2>2
  <1>3. ASSUME NEW k
        PROVE  \A y : y \in Dependents(nodes, Public(bundle, k)) <=>
                   \E e \in graph.edges : e.source = k /\ y = Public(bundle, e.target)
    BY DependentsAre
  <1>4. \A c \in U : Dependents(nodes, c) \subseteq U
    <2> SUFFICES ASSUME NEW c \in U, NEW y \in Dependents(nodes, c) PROVE y \in U
      OBVIOUS
    <2>1. PICK k \in I : c = Public(bundle, k)
      BY <1>1
    <2>2. PICK e \in graph.edges : e.source = k /\ y = Public(bundle, e.target)
      BY <1>3, <2>1
    <2> QED
      BY <1>1, <2>2 DEF Sound
  <1>5. id \in U
    BY <1>1
  <1>6. PICK T \in SUBSET U :
            /\ TransitiveDependents(nodes, id) = T \ {id}
            /\ id \in T
            /\ \A c \in T : Dependents(nodes, c) \subseteq T
            /\ \A S \in SUBSET U :
                   id \in S /\ (\A c \in S : Dependents(nodes, c) \subseteq S) => T \subseteq S
    BY <1>2, <1>4, <1>5, WorkListDone
  <1>7. ASSUME NEW e \in graph.edges, Public(bundle, e.source) \in T
        PROVE  Public(bundle, e.target) \in T
    <2>1. Public(bundle, e.target) \in Dependents(nodes, Public(bundle, e.source))
      BY <1>3
    <2> QED
      BY <1>6, <1>7, <2>1
  <1>8. ASSUME NEW k \in I, RestsOn(graph, k, i)
        PROVE  Public(bundle, k) \in T
    <2>1. SUFFICES ASSUME Public(bundle, k) \notin T PROVE FALSE
      OBVIOUS
    <2>2. PICK S : S = {m \in I : Public(bundle, m) \notin T}
      OBVIOUS
    <2>3. S \in SUBSET {n.id : n \in graph.nodes}
      BY <1>1, <2>2 DEF Names
    <2>4. ASSUME NEW e \in graph.edges, e.target \in S \cup {k}
          PROVE  e.source \in S
      <3>1. Public(bundle, e.target) \notin T
        BY <2>1, <2>2, <2>4
      <3>2. Public(bundle, e.source) \notin T
        BY <1>7, <3>1
      <3> QED
        BY <1>1, <2>2, <3>2 DEF Sound
    <2>5. i \in S
      BY <1>8, <2>3, <2>4 DEF RestsOn
    <2> QED
      BY <1>1, <1>6, <2>2, <2>5
  <1>9. ASSUME NEW k \in I, k # i, Public(bundle, k) \in T
        PROVE  RestsOn(graph, k, i)
    <2>1. PICK R : R = {m \in I : m = i \/ RestsOn(graph, m, i)}
      OBVIOUS
    <2>2. PICK S : S = {Public(bundle, m) : m \in R}
      OBVIOUS
    <2>3. S \in SUBSET U /\ id \in S
      BY <1>1, <2>1, <2>2
    <2>4. ASSUME NEW c \in S, NEW y \in Dependents(nodes, c)
          PROVE  y \in S
      <3>1. PICK m \in R : c = Public(bundle, m)
        BY <2>2
      <3>2. PICK e \in graph.edges : e.source = m /\ y = Public(bundle, e.target)
        BY <1>3, <2>4, <3>1
      <3>3. RestsOn(graph, e.target, m)
        BY <3>2, RestsOnSource
      <3>4. RestsOn(graph, e.target, i)
        <4>1. CASE m = i
          BY <3>3, <4>1
        <4>2. CASE RestsOn(graph, m, i)
          BY <3>3, <4>2, RestsTransitive
        <4> QED
          BY <2>1, <3>1, <4>1, <4>2
      <3>5. e.target \in R
        BY <1>1, <2>1, <3>4 DEF Sound
      <3> QED
        BY <2>2, <3>2, <3>5
    <2>5. Public(bundle, k) \in S
      BY <1>6, <1>9, <2>3, <2>4
    <2>6. k \in R
      BY <2>2, <2>5, PublicDiffer
    <2> QED
      BY <1>9, <2>1, <2>6
  <1>10. ASSUME NEW y
         PROVE  y \in T \ {id} <=> \E k \in Above(graph, i) : y = Public(bundle, k)
    <2>1. ASSUME y \in T \ {id} PROVE \E k \in Above(graph, i) : y = Public(bundle, k)
      <3>1. PICK k \in I : y = Public(bundle, k)
        BY <1>1, <1>6, <2>1
      <3>2. k # i
        BY <1>1, <2>1, <3>1
      <3>3. RestsOn(graph, k, i)
        BY <1>9, <2>1, <3>1, <3>2
      <3> QED
        BY <1>1, <3>1, <3>2, <3>3 DEF Above
    <2>2. ASSUME NEW k \in Above(graph, i), y = Public(bundle, k) PROVE y \in T \ {id}
      <3>1. k \in I /\ k # i /\ RestsOn(graph, k, i)
        BY <1>1 DEF Above
      <3>2. Public(bundle, k) # id
        BY <1>1, <3>1, PublicDiffer
      <3> QED
        BY <1>8, <2>2, <3>1, <3>2
    <2> QED
      BY <2>1, <2>2
  <1>11. T \ {id} = {Public(bundle, k) : k \in Above(graph, i)}
    BY <1>10
  <1> QED
    BY <1>1, <1>6, <1>11

\* A valid document has a sound mathematical graph.
LEMMA ValidIsSound ==
  ASSUME NEW d \in ValidDocuments
  PROVE  Sound(GraphsOf[d].mathematical)
  <1>1. PICK graph : graph = GraphsOf[d].mathematical
    OBVIOUS
  <1>2. d \in DOMAIN GraphsOf /\ GraphValid(graph.nodes, graph.edges, TRUE)
    BY <1>1 DEF ValidDocuments, GraphBundleValid, MathematicalGraphValid
  <1>3. IsFiniteSet(graph.nodes)
    BY <1>1, <1>2, GraphAssumption
  <1>4. /\ \A m, n \in graph.nodes : m.id = n.id => m = n
        /\ \A e \in graph.edges : {e.source, e.target} \subseteq {n.id : n \in graph.nodes}
    BY <1>2 DEF GraphValid
  <1> QED
    BY <1>1, <1>3, <1>4 DEF Sound, Names

\* The table of what rests on what.
LEMMA RestingIs ==
  ASSUME NEW d \in DOMAIN GraphsOf, NEW graph, graph = GraphsOf[d].mathematical
  PROVE  Resting[d] = {pair \in Names(graph) \X Names(graph) : RestsOn(graph, pair[1], pair[2])}
  <1>1. PICK I : I = Names(graph)
    OBVIOUS
  <1>2. Resting[d] = UNION {{<<n, m>> : m \in {k \in I : RestsOn(graph, n, k)}} : n \in I}
    BY <1>1 DEF Resting, Names
  <1>3. ASSUME NEW pair
        PROVE  pair \in Resting[d] <=> pair \in I \X I /\ RestsOn(graph, pair[1], pair[2])
    <2>1. pair \in Resting[d] <=> \E n \in I : \E m \in I : RestsOn(graph, n, m) /\ pair = <<n, m>>
      BY <1>2
    <2> QED
      BY <2>1
  <1> QED
    BY <1>1, <1>3

\* The table lists each node above another once.
LEMMA AboveMany ==
  ASSUME NEW d \in DOMAIN GraphsOf, NEW graph, graph = GraphsOf[d].mathematical, Sound(graph),
         NEW i \in Names(graph)
  PROVE  /\ IsFiniteSet(Above(graph, i))
         /\ Cardinality({pair \in Resting[d] : pair[2] = i /\ pair[1] # i}) = Cardinality(Above(graph, i))
  <1>1. PICK A, P : A = Above(graph, i) /\ P = {pair \in Resting[d] : pair[2] = i /\ pair[1] # i}
    OBVIOUS
  <1>2. A \in SUBSET Names(graph) /\ IsFiniteSet(A)
    <2>1. A \in SUBSET Names(graph)
      BY <1>1 DEF Above
    <2> QED
      BY <2>1, NamesFinite, FS_Subset
  <1>3. PICK f : f = [k \in A |-> <<k, i>>]
    OBVIOUS
  <1>4. ASSUME NEW k \in A PROVE <<k, i>> \in P
    <2>1. k \in Names(graph) /\ k # i /\ RestsOn(graph, k, i)
      BY <1>1 DEF Above
    <2> QED
      BY <1>1, <2>1, RestingIs
  <1>5. ASSUME NEW pair \in P PROVE \E k \in A : <<k, i>> = pair
    <2>1. pair \in Names(graph) \X Names(graph) /\ RestsOn(graph, pair[1], pair[2]) /\ pair[2] = i /\ pair[1] # i
      BY <1>1, RestingIs
    <2>2. pair[1] \in A /\ pair = <<pair[1], i>>
      BY <1>1, <2>1 DEF Above
    <2> QED
      BY <2>2
  <1>6. f \in [A -> P]
    BY <1>3, <1>4
  <1>7. \A j, k \in A : f[j] = f[k] => j = k
    BY <1>3
  <1>8. \A pair \in P : \E k \in A : f[k] = pair
    BY <1>3, <1>5
  <1>9. f \in Bijection(A, P)
    BY <1>6, <1>7, <1>8 DEF Bijection, Injection, IsInjective, Surjection
  <1>10. Cardinality(P) = Cardinality(A)
    BY <1>2, <1>9, FS_Bijection DEF ExistsBijection
  <1> QED
    BY <1>1, <1>2, <1>10

\* More rests on a node than on what rests on it.
LEMMA MoreAbove ==
  ASSUME NEW graph, Sound(graph), NEW i \in Names(graph), NEW j \in Names(graph),
         RestsOn(graph, j, i), ~RestsOn(graph, i, j)
  PROVE  /\ Cardinality(Above(graph, i)) \in Nat /\ Cardinality(Above(graph, j)) \in Nat
         /\ Cardinality(Above(graph, i)) > Cardinality(Above(graph, j))
  <1>1. PICK A, B : A = Above(graph, i) /\ B = Above(graph, j)
    OBVIOUS
  <1>2. A \in SUBSET Names(graph) /\ IsFiniteSet(Names(graph))
    BY <1>1, NamesFinite DEF Above
  <1>3. j \in A /\ j \notin B
    BY <1>1 DEF Above
  <1>4. ASSUME NEW k \in B PROVE k \in A
    <2>1. k \in Names(graph) /\ RestsOn(graph, k, j)
      BY <1>1 DEF Above
    <2>2. RestsOn(graph, k, i)
      BY <2>1, RestsTransitive
    <2> QED
      BY <1>1, <2>1, <2>2 DEF Above
  <1>5. B \in SUBSET A /\ A # B
    BY <1>3, <1>4
  <1>6. IsFiniteSet(A) /\ IsFiniteSet(B)
    BY <1>2, <1>5, FS_Subset
  <1>7. Cardinality(A) \in Nat /\ Cardinality(B) \in Nat
    BY <1>6, FS_CardinalityType
  <1>8. Cardinality(B) <= Cardinality(A) /\ Cardinality(A) # Cardinality(B)
    BY <1>5, <1>6, FS_Subset
  <1> QED
    BY <1>1, <1>7, <1>8

\* Rows with one for each node of a graph, and its counts.
RowsOf(rows, graph) ==
    /\ \A r \in rows :
           /\ r.source \in Names(graph)
           /\ r.direct = Cardinality({f.target : f \in {g \in graph.edges : g.source = r.source}})
           /\ ExactTransitive(graph.nodes) => r.transitive = Cardinality(Above(graph, r.source))
    /\ \A i \in Names(graph) : \E r \in rows : r.source = i
    /\ \A r, s \in rows : r.source = s.source => r = s

\* The rows of a registered bundle.
LEMMA RowsAre ==
  ASSUME LogOK, NEW e \in Registrations, NEW graph, graph = GraphsOf[e.req.id].mathematical,
         NEW rows, rows = Leverage(e.req.bundle)
  PROVE  RowsOf(rows, graph)
  <1>1. PICK bundle, nodes : bundle = e.req.bundle /\ nodes = TaskNodes(bundle)
    OBVIOUS
  <1>2. Sound(graph) /\ e.req.id \in DOMAIN GraphsOf
    <2>1. e.req.id \in ValidDocuments
      BY DEF LogOK, Registrations
    <2> QED
      BY <2>1, ValidIsSound DEF ValidDocuments
  <1>3. Shows(nodes, bundle, graph)
    <2>1. PICK graphs : graphs = GraphsOf[e.req.id]
      OBVIOUS
    <2>2. nodes = {PublicNode(bundle, n) : n \in GraphNodes(graphs, "mathematical")}
      BY <1>1, <2>1, TaskNodesAre, Zenon
    <2>3. Shows({PublicNode(bundle, n) : n \in GraphNodes(graphs, "mathematical")}, bundle, graphs.mathematical)
      BY PublicNodesShow, Zenon
    <2> QED
      BY <2>1, <2>2, <2>3, Zenon
  <1>4. /\ \A x \in nodes : x.source \in Names(graph) /\ x.id = Public(bundle, x.source)
        /\ \A i \in Names(graph) : \E x \in nodes : x.source = i
        /\ \A x, y \in nodes : x.source = y.source => x = y
    BY <1>3 DEF Shows
  <1>5. ASSUME NEW x \in nodes
        PROVE  Cardinality(Dependents(nodes, x.id)) =
                   Cardinality({f.target : f \in {g \in graph.edges : g.source = x.source}})
    <2>1. PICK T : T = {f.target : f \in {g \in graph.edges : g.source = x.source}}
      OBVIOUS
    <2>2. T \in SUBSET Names(graph)
      BY <1>2, <2>1 DEF Sound
    <2>3. IsFiniteSet(T)
      BY <1>2, <2>2, NamesFinite, FS_Subset
    <2>4. Dependents(nodes, x.id) = {Public(bundle, t) : t \in T}
      BY <1>2, <1>3, <1>4, <2>1, DependentsAre
    <2> QED
      BY <2>1, <2>3, <2>4, PublicMany
  <1>6. ASSUME NEW x \in nodes
        PROVE  Cardinality(TransitiveDependents(nodes, x.id)) = Cardinality(Above(graph, x.source))
    <2>1. TransitiveDependents(nodes, x.id) = {Public(bundle, k) : k \in Above(graph, x.source)}
      BY <1>2, <1>3, <1>4, TransitiveAre
    <2>2. IsFiniteSet(Above(graph, x.source))
      BY <1>2, <1>4, AboveMany
    <2> QED
      BY <2>1, <2>2, PublicMany
  <1>7. ExactTransitive(nodes) <=> ExactTransitive(graph.nodes)
    BY <1>2, <1>3, ShownFinite DEF ExactTransitive
  <1> DEFINE Row(x) ==
                [id |-> x.id, source |-> x.source, direct |-> Cardinality(Dependents(nodes, x.id)),
                 transitive |-> IF ExactTransitive(nodes) THEN Cardinality(TransitiveDependents(nodes, x.id))
                                ELSE -1]
  <1>8. rows = {Row(x) : x \in nodes}
    BY <1>1, Zenon DEF Leverage
  <1>9. ASSUME NEW x \in nodes
        PROVE  /\ Row(x).source = x.source
               /\ Row(x).direct = Cardinality(Dependents(nodes, x.id))
               /\ ExactTransitive(nodes) => Row(x).transitive = Cardinality(TransitiveDependents(nodes, x.id))
    OBVIOUS
  <1> HIDE DEF Row
  <1>10. ASSUME NEW r \in rows
         PROVE  /\ r.source \in Names(graph)
                /\ r.direct = Cardinality({f.target : f \in {g \in graph.edges : g.source = r.source}})
                /\ ExactTransitive(graph.nodes) => r.transitive = Cardinality(Above(graph, r.source))
    <2>1. PICK x \in nodes : r = Row(x)
      BY <1>8
    <2>2. r.source = x.source /\ r.source \in Names(graph)
      BY <1>4, <1>9, <2>1
    <2>3. r.direct = Cardinality({f.target : f \in {g \in graph.edges : g.source = x.source}})
      BY <1>5, <1>9, <2>1
    <2>4. ExactTransitive(graph.nodes) => r.transitive = Cardinality(Above(graph, x.source))
      BY <1>6, <1>7, <1>9, <2>1
    <2> QED
      BY <2>2, <2>3, <2>4
  <1>11. \A i \in Names(graph) : \E r \in rows : r.source = i
    BY <1>4, <1>8, <1>9
  <1>12. \A r, s \in rows : r.source = s.source => r = s
    BY <1>4, <1>8, <1>9
  <1> QED
    BY <1>10, <1>11, <1>12 DEF RowsOf

\* Of a log that is in order, the leverage counts are those of the documents.
LEMMA LeverageHolds ==
  ASSUME LogOK
  PROVE  LeverageSound
  <1> SUFFICES ASSUME NEW e \in Registrations
               PROVE  LET graph == GraphsOf[e.req.id].mathematical
                          resting == Resting[e.req.id]
                          rows == Leverage(e.req.bundle)
                      IN  /\ {r.source : r \in rows} = {n.id : n \in graph.nodes}
                          /\ Cardinality(rows) = Cardinality(graph.nodes)
                          /\ \A r \in rows : r.direct =
                                 Cardinality({f.target : f \in {g \in graph.edges : g.source = r.source}})
                          /\ ExactTransitive(graph.nodes) =>
                                 /\ \A r \in rows : r.transitive =
                                        Cardinality({pair \in resting : pair[2] = r.source /\ pair[1] # r.source})
                                 /\ \A r, s \in rows :
                                        <<s.source, r.source>> \in resting /\ <<r.source, s.source>> \notin resting
                                            => Before(r, s)
    BY DEF LeverageSound
  <1>1. PICK d, graph, resting, rows :
            /\ d = e.req.id /\ graph = GraphsOf[e.req.id].mathematical
            /\ resting = Resting[e.req.id] /\ rows = Leverage(e.req.bundle)
    OBVIOUS
  <1>2. Sound(graph) /\ d \in DOMAIN GraphsOf
    <2>1. d \in ValidDocuments
      BY <1>1 DEF LogOK, Registrations
    <2> QED
      BY <1>1, <2>1, ValidIsSound DEF ValidDocuments
  <1>3. /\ \A r \in rows :
               /\ r.source \in Names(graph)
               /\ r.direct = Cardinality({f.target : f \in {g \in graph.edges : g.source = r.source}})
               /\ ExactTransitive(graph.nodes) => r.transitive = Cardinality(Above(graph, r.source))
        /\ \A i \in Names(graph) : \E r \in rows : r.source = i
        /\ \A r, s \in rows : r.source = s.source => r = s
    <2>1. RowsOf(rows, graph)
      BY <1>1, RowsAre
    <2> QED
      BY <2>1 DEF RowsOf
  <1>4. {r.source : r \in rows} = {n.id : n \in graph.nodes}
    <2>1. PICK I : I = Names(graph)
      OBVIOUS
    <2>b. /\ \A r \in rows : r.source \in I
          /\ \A i \in I : \E r \in rows : r.source = i
      BY <1>3, <2>1
    <2>2. {r.source : r \in rows} = I
      BY <2>b
    <2> QED
      BY <2>1, <2>2, Zenon DEF Names
  <1>5. Cardinality(rows) = Cardinality(graph.nodes)
    <2>1. PICK f, I : f = [r \in rows |-> r.source] /\ I = Names(graph)
      OBVIOUS
    <2>2. f \in [rows -> I]
      BY <1>3, <2>1
    <2>3. f \in Injection(rows, I)
      BY <1>3, <2>1, <2>2 DEF Injection, IsInjective
    <2>4. f \in Surjection(rows, I)
      BY <1>3, <2>1, <2>2 DEF Surjection
    <2>5. IsFiniteSet(I) /\ Cardinality(I) = Cardinality(graph.nodes)
      BY <1>2, <2>1, NamesFinite
    <2> QED
      BY <2>3, <2>4, <2>5, FS_Injection
  <1>6. ASSUME ExactTransitive(graph.nodes), NEW r \in rows
        PROVE  r.transitive = Cardinality({pair \in resting : pair[2] = r.source /\ pair[1] # r.source})
    <2>1. PICK i \in Names(graph) : i = r.source
      BY <1>3
    <2>2. r.transitive = Cardinality(Above(graph, i))
      BY <1>3, <1>6, <2>1
    <2>3. Cardinality({pair \in resting : pair[2] = i /\ pair[1] # i}) = Cardinality(Above(graph, i))
      BY <1>1, <1>2, <2>1, AboveMany
    <2> QED
      BY <2>1, <2>2, <2>3
  <1>7. ASSUME ExactTransitive(graph.nodes), NEW r \in rows, NEW s \in rows,
               <<s.source, r.source>> \in resting, <<r.source, s.source>> \notin resting
        PROVE  Before(r, s)
    <2>1. PICK i \in Names(graph), j \in Names(graph) : i = r.source /\ j = s.source
      BY <1>3
    <2>2. r.transitive = Cardinality(Above(graph, i)) /\ s.transitive = Cardinality(Above(graph, j))
      BY <1>3, <1>7, <2>1
    <2>3. RestsOn(graph, j, i) /\ ~RestsOn(graph, i, j)
      BY <1>1, <1>2, <1>7, <2>1, RestingIs
    <2>4. Cardinality(Above(graph, i)) > Cardinality(Above(graph, j))
      BY <1>2, <2>1, <2>3, MoreAbove
    <2> QED
      BY <2>2, <2>4 DEF Before
  <1> QED
    BY <1>1, <1>3, <1>4, <1>5, <1>6, <1>7

\* Everything a snapshot says can be told from the log and the documents: the
\* two replays agree, and the leverage of a node is the number of nodes that
\* rest on it, in an order of study (DashboardProjection.snapshot).
THEOREM SnapshotAlwaysSound ==
  ASSUME ReviewIdsDiffer
  PROVE  GraphSpec => []SnapshotSound
  <1>1. TypeInv /\ LogInv /\ ReplayInv => SnapshotSound
    BY LogIsOK, DashboardHolds, LeverageHolds DEF SnapshotSound
  <1> QED
    BY <1>1, ReplayInvariance, PTL
=============================================================================
