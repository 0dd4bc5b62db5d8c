----------------------------- MODULE Projection -----------------------------
(***************************************************************************)
(* The read-only dashboard projection                                      *)
(* (packages/control_plane/src/autolean_control_plane/projection.py),      *)
(* recomputed from the whole event log.  The loops over the log are        *)
(* written as conditions on its events; an event's place in the replay is  *)
(* its global position, and "last write wins" is the greatest position.    *)
(* snapshot() computes the nodes, runs and counters of the overview;       *)
(* _phase_feedback() replays the same log a second time, bundle by bundle, *)
(* and raises where the two could disagree.                                *)
(***************************************************************************)
EXTENDS ControlPlane, FiniteSetsExt

\* gap.reported and contract_change.requested open a human review whose
\* identifier is the report_id or the request_id.
ReviewOps == {"gap", "change"}

\* _event_task_id: bundle_id of the payload; a claim has none and its stream is the
\* task's.
EventTaskId(e) == IF e.req.op = "claim" THEN Entity(e.req)[2] ELSE e.req.bundle

\* The events a bundle's replay looks at.
Replayed(bundle) == {e \in events : EventTaskId(e) = bundle}

Last(S) == CHOOSE e \in S : \A f \in S : f.pos <= e.pos

\* _verification_accepted: the event type and the flag agree in every event
\* verify_submission writes.
Accepts(e) == e.req.op = "verify" /\ e.req.ok

-----------------------------------------------------------------------------
(* snapshot() *)

\* What an event makes of the nodes of its task; _graph_nodes registers them
\* as frozen and a submission leaves them alone.
StatusAfter(e) ==
    CASE e.req.op = "register"   -> "frozen"
      [] e.req.op = "claim"      -> "running"
      [] e.req.op \in ReviewOps  -> "blocked"
      [] e.req.op = "verify"     -> IF Accepts(e) THEN "verified" ELSE "blocked"

\* _set_task_status, the last event to touch the task winning.
TaskStatus(bundle) == StatusAfter(Last({e \in Replayed(bundle) : e.req.op # "submit"}))

\* active_bundles: claims add, reviews and verdicts discard.
ActiveBundles ==
    {b \in Jobs : \E e \in Replayed(b) :
        /\ e.req.op = "claim"
        /\ \A f \in Replayed(b) : f.req.op \in ReviewOps \cup {"verify"} => f.pos < e.pos}

\* blocked_bundles: never discarded, so that "blocked" in the overview means
\* "was blocked once".
BlockedBundles ==
    {b \in Jobs : \E e \in Replayed(b) :
        e.req.op \in ReviewOps \/ (e.req.op = "verify" /\ ~Accepts(e))}

\* The last submission under a proof identifier, whatever its bundle.
Submission(proof) == Last({e \in events : e.req.op = "submit" /\ e.req.id = proof})

\* runs: a submission starts the row afresh, a later verdict closes it.
Verification(proof) ==
    LET verdicts == {e \in events : /\ e.req.op = "verify" /\ e.req.id = proof
                                    /\ e.pos > Submission(proof).pos} IN
    IF verdicts = {} THEN "pending"
    ELSE IF Accepts(Last(verdicts)) THEN "accepted" ELSE "rejected"

\* _run_from_submission
Runs ==
    {[id |-> e.req.id, task |-> Submission(e.req.id).req.bundle,
      verification |-> Verification(e.req.id)] : e \in {f \in events : f.req.op = "submit"}}

\* _capture_artifact: the documents the snapshot names.
ProjectedArtifacts == {Document(e.req) : e \in {f \in events : f.req.op # "claim"}}

-----------------------------------------------------------------------------
(* _phase_feedback() *)

\* _phase_feedback_registration: register_bundle records the whole immutable
\* binding, so every registration starts a state.
RegisteredBundles == {b \in Jobs : \E e \in Replayed(b) : e.req.op = "register"}

\* _phase_feedback would raise ProjectionError on this bundle's events.
FeedbackRaises(bundle) ==
    \E e, f \in Replayed(bundle) :
        /\ e.req.op = "register"
        /\ \/ f.req.op = "register" /\ f # e
           \/ f.pos < e.pos
           \/ \E g \in Replayed(bundle) \ {f} :
                  /\ g.req.id = f.req.id
                  /\ \/ f.req.op = "submit" /\ g.req.op = "submit"
                     \/ f.req.op = "verify" /\ g.req.op = "verify"
                     \/ {f.req.op, g.req.op} \subseteq ReviewOps
           \/ /\ f.req.op = "verify"
              /\ \A p \in Replayed(bundle) :
                     ~(p.req.op = "submit" /\ p.req.id = f.req.id /\ p.pos < f.pos)

Judged(bundle, accepted) ==
    {e.req.id : e \in {f \in Replayed(bundle) : f.req.op = "verify" /\ Accepts(f) = accepted}}

Submitted(bundle) == {e.req.id : e \in {f \in Replayed(bundle) : f.req.op = "submit"}}

\* _unresolved_review_assumption: nothing ever closes a review.
UnresolvedReviews(bundle) ==
    {e.req.id : e \in {f \in Replayed(bundle) : f.req.op \in ReviewOps}}

\* _prover_verification_state
VerificationState(submitted, pending, accepted, rejected) ==
    IF submitted = {} THEN "not_submitted"
    ELSE IF Cardinality({s \in {<<1, pending>>, <<2, accepted>>, <<3, rejected>>} : s[2] # {}}) > 1
      THEN "mixed_candidates"
    ELSE IF pending # {} THEN "candidate_pending_verification"
    ELSE IF accepted # {} THEN "verified_candidate_available"
    ELSE "all_candidates_rejected"

\* _feedback_milestone, one per event the replay keeps; a claim is no milestone.
Milestones(bundle) ==
    {[phase |-> e.req.op, at |-> e.pos] : e \in {f \in Replayed(bundle) : f.req.op # "claim"}}

\* The item of a registered bundle; the events after its last relevant one are
\* counted against the head of the log.
Feedback(bundle) ==
    LET accepted == Judged(bundle, TRUE)
        rejected == Judged(bundle, FALSE)
        pending  == Submitted(bundle) \ (accepted \cup rejected)
        last     == Max({m.at : m \in Milestones(bundle)}) IN
    [accepted |-> accepted, rejected |-> rejected, pending |-> pending,
     state |-> VerificationState(Submitted(bundle), pending, accepted, rejected),
     reviews |-> UnresolvedReviews(bundle), milestones |-> Milestones(bundle),
     last |-> last, behind |-> Cardinality({e \in events : e.pos > last})]

-----------------------------------------------------------------------------
\* docs/protocol.md: "The SQLite event log and artifact bytes are the local
\* system of record; projections can be discarded and rebuilt."  Whatever was
\* recorded, in whatever order, the projection's replay of it does not raise.
ProjectionRebuilds == \A bundle \in Jobs : ~FeedbackRaises(bundle)

\* The dashboard can be rebuilt from any log the service writes, and the two
\* replays of it tell one story: every run is listed, with the verdict the run
\* shows, in the feedback of exactly the task it belongs to; a task shown as
\* verified has a candidate its own feedback lists as accepted; the overview
\* counts as blocked the tasks with a rejected candidate or an open review;
\* feedback is as far behind the log as there are claims and events of other
\* tasks after it; and every artifact named is stored.
DashboardSound ==
    /\ ProjectionRebuilds
    /\ ProjectedArtifacts \subseteq artifacts
    /\ \A run \in Runs, bundle \in RegisteredBundles :
           LET feedback == Feedback(bundle) IN
           /\ run.id \in feedback.accepted <=> run.task = bundle /\ run.verification = "accepted"
           /\ run.id \in feedback.rejected <=> run.task = bundle /\ run.verification = "rejected"
           /\ run.id \in feedback.pending <=> run.task = bundle /\ run.verification = "pending"
    /\ \A bundle \in RegisteredBundles :
           LET feedback == Feedback(bundle) IN
           /\ TaskStatus(bundle) = "verified" =>
                  feedback.state \in {"verified_candidate_available", "mixed_candidates"}
           /\ bundle \in BlockedBundles <=> feedback.rejected \cup feedback.reviews # {}
           /\ \A e \in events : e.pos > feedback.last =>
                  e.req.op = "claim" \/ EventTaskId(e) # bundle
           /\ feedback.behind = head - feedback.last
=============================================================================
