--------------------------- MODULE SigningGateway ---------------------------
(***************************************************************************)
(* The verifier signing gateway                                            *)
(* (packages/control_plane/src/autolean_control_plane/                     *)
(* verifier_signing_gateway.py) beside the control plane it protects.      *)
(*                                                                         *)
(* ControlPlane!Sign is what verify_submission may rely on; here issue()   *)
(* is cut wherever another process can get between two of its accesses:    *)
(*                                                                         *)
(*   time and binding | ledger lookup | independent execution, binding |   *)
(*   reserve the request | remaining time | binding, sign, check |         *)
(*   binding again | record and return                                     *)
(*                                                                         *)
(* Any number of gateway processes share the ledger; each issue() call in  *)
(* progress is a member of Gateways.  A call may die anywhere; one that    *)
(* dies after its reservation leaves the ledger row pending for ever.      *)
(*                                                                         *)
(* A ticket is what a client puts into a signing request besides the       *)
(* lease: request_id, request_nonce, idempotency_key, the context to be    *)
(* signed, its date, ttl_seconds, and whether the evidence artifact in the *)
(* store says the same as that context and comes from an approved image.   *)
(***************************************************************************)
EXTENDS ControlPlane

CONSTANTS
    Gateways,  \* issue() calls that can be in progress at once
    Tickets,   \* [id, nonce, key, context, requested_at, ttl, evidence]
    MaxTtl,    \* max_ttl_seconds
    Margin     \* _SIGNING_EXPIRY_MARGIN_SECONDS

ASSUME GatewayAssumption ==
    /\ MaxTtl \in Nat
    /\ Margin \in Nat
    /\ \A ticket \in Tickets :
           ticket.requested_at \in Nat /\ ticket.ttl \in Nat /\ ticket.evidence \in BOOLEAN

VARIABLES
    signing_requests, \* table verifier_signing_requests
    issuing,          \* gateway -> NotIssuing or the locals of issue()
    signed,           \* every signature the signer has produced (history)
    issued            \* what clients have been answered (history)

gatewayVars == <<signing_requests, issuing, signed, issued>>
gvars == <<vars, gatewayVars>>

Lesser(m, n) == IF m < n THEN m ELSE n

NotIssuing == [pc |-> "idle"]

\* VerificationSigningContextV1: a report without its attestation.
Context(req) ==
    [bundle |-> req.bundle, id |-> req.id, contract |-> req.contract, ok |-> req.ok]

\* verification_gateway_attestation_payload.
Payload(request) == <<request.ticket.context, request.lease>>

SigningRequest == [ticket: Tickets, lease: Lease, expires_at: Int]

\* AttestationV1 with the report it is put into; its nonce is the report's.
Attestation ==
    [report: {Document(req) : req \in {r \in Requests : r.op = "verify"}},
     lease: Lease, expires_at: Int]

LedgerRow ==
    [request: SigningRequest, state: {"pending", "issued", "failed"},
     attestation: SUBSET Attestation]

\* The locals of issue().
IssueCall ==
    [pc: {"lookup", "execute", "reserve", "time", "sign", "recheck", "record"},
     request: SigningRequest, ttl: Int, attestation: SUBSET Attestation]

GInit ==
    /\ Init
    /\ signing_requests = {}
    /\ issuing = [g \in Gateways |-> NotIssuing]
    /\ signed = {}
    /\ issued = {}

-----------------------------------------------------------------------------
(* What issue() checks *)

\* VerificationSigningRequestV1.validate_request: neither may be exceeded.
WellFormed(request) ==
    /\ request.expires_at > request.ticket.requested_at
    /\ request.expires_at <= request.lease.expires

\* _validate_request_time.
InTime(request, now) ==
    /\ request.ticket.requested_at <= now
    /\ now < request.expires_at
    /\ request.expires_at - request.ticket.requested_at <= MaxTtl

\* _assert_authoritative_binding: the exact lease row is live, the context is
\* that of the registered bundle and of its submitted proof, and the evidence
\* artifact binds both.  The log and the artifacts only grow, so its reads
\* are one step, at the time of leases.current().
Authoritative(request) ==
    LET context == request.ticket.context
    IN  /\ request.lease.job = context.bundle
        /\ request.lease \in worker_leases
        /\ Live(request.lease, clock)
        /\ \E event \in events :
               /\ Registration(event, context.bundle)
               /\ event.req.contract = context.contract
        /\ \E event \in events :
               /\ event.req.op = "submit"
               /\ event.req.id = context.id
               /\ event.req.bundle = context.bundle
               /\ event.req.contract = context.contract
        /\ request.ticket.evidence

\* Rows that hold the request's idempotency key.
RowsOf(request) ==
    {row \in signing_requests : row.request.ticket.key = request.ticket.key}

\* Mutant: the canonical payload is not UNIQUE.
UnusedButPayload(request) ==
    \A row \in signing_requests :
        /\ row.request.ticket.id # request.ticket.id
        /\ row.request.ticket.nonce # request.ticket.nonce
        /\ row.request.ticket.key # request.ticket.key

\* The UNIQUE columns of verifier_signing_requests.
Unused(request) ==
    \A row \in signing_requests :
        /\ row.request.ticket.id # request.ticket.id
        /\ row.request.ticket.nonce # request.ticket.nonce
        /\ row.request.ticket.key # request.ticket.key
        /\ Payload(row.request) # Payload(request)

-----------------------------------------------------------------------------
(* The steps of issue() *)

Goto(g, pc) == issuing' = [issuing EXCEPT ![g].pc = pc]

\* The attestation a client is handed, and for which request.
Answer(g, attestation) ==
    /\ issuing' = [issuing EXCEPT ![g] = NotIssuing]
    /\ issued' = issued \cup
           {[request |-> issuing[g].request, attestation |-> attestation]}

\* A call that raises before its reservation, or dies.
Abandon(g) ==
    /\ issuing[g] # NotIssuing
    /\ issuing' = [issuing EXCEPT ![g] = NotIssuing]
    /\ UNCHANGED <<vars, signing_requests, signed, issued>>

Issue(g, request) ==
    /\ issuing[g] = NotIssuing
    /\ WellFormed(request)
    /\ InTime(request, clock)
    /\ Authoritative(request)
    /\ issuing' = [issuing EXCEPT ![g] =
           [pc |-> "lookup", request |-> request, ttl |-> 0, attestation |-> {}]]
    /\ UNCHANGED <<vars, signing_requests, signed, issued>>

\* Mutant: the request hash is not compared.
AnswerByKey(g) ==
    /\ \E row \in RowsOf(issuing[g].request) :
           /\ row.state = "issued"
           /\ \E attestation \in row.attestation :
                  attestation.expires_at > clock /\ Answer(g, attestation)
    /\ UNCHANGED <<vars, signing_requests, signed>>

\* A row under the key answers an exact retry when it is issued and its
\* signature has not lapsed (_validate_issued_replay).
AnswerFromLedger(g) ==
    /\ \E row \in RowsOf(issuing[g].request) :
           /\ row.request = issuing[g].request
           /\ row.state = "issued"
           /\ \E attestation \in row.attestation :
                  attestation.expires_at > clock /\ Answer(g, attestation)
    /\ UNCHANGED <<vars, signing_requests, signed>>

\* _load_issued_replay.
Lookup(g) ==
    /\ issuing[g].pc = "lookup"
    /\ \/ AnswerFromLedger(g)
       \/ /\ RowsOf(issuing[g].request) = {}
          /\ Goto(g, "execute")
          /\ UNCHANGED <<vars, signing_requests, signed, issued>>

\* _independently_verify_execution returns an authentic receipt for this very
\* request, and the binding still holds.
Execute(g) ==
    /\ issuing[g].pc = "execute"
    /\ Authoritative(issuing[g].request)
    /\ Goto(g, "reserve")
    /\ UNCHANGED <<vars, signing_requests, signed, issued>>

\* Mutant: an exact retry takes a pending row over.
ReserveAgain(g) ==
    /\ issuing[g].pc = "reserve"
    /\ \/ AnswerFromLedger(g)
       \/ /\ \A row \in RowsOf(issuing[g].request) :
                 row.request = issuing[g].request /\ row.state = "pending"
          /\ signing_requests' = signing_requests \cup
                 {[request |-> issuing[g].request, state |-> "pending",
                   attestation |-> {}]}
          /\ Goto(g, "time")
          /\ UNCHANGED <<vars, signed, issued>>

\* _reserve_request, one transaction.
Reserve(g) ==
    /\ issuing[g].pc = "reserve"
    /\ \/ AnswerFromLedger(g)
       \/ /\ RowsOf(issuing[g].request) = {}
          /\ Unused(issuing[g].request)
          /\ signing_requests' = signing_requests \cup
                 {[request |-> issuing[g].request, state |-> "pending",
                   attestation |-> {}]}
          /\ Goto(g, "time")
          /\ UNCHANGED <<vars, signed, issued>>

\* The authority left, less the safety margin.
Remaining(request, now) == request.expires_at - now - Margin

ReadTime(g) ==
    /\ issuing[g].pc = "time"
    /\ InTime(issuing[g].request, clock)
    /\ Remaining(issuing[g].request, clock) > 0
    /\ issuing' = [issuing EXCEPT ![g].pc = "sign",
                       ![g].ttl = Remaining(issuing[g].request, clock)]
    /\ UNCHANGED <<vars, signing_requests, signed, issued>>

\* The signer (external) draws a fresh nonce and dates the signature by its
\* own reading of the clock.
Signature(g, req) ==
    [report |-> Document(req), lease |-> issuing[g].request.lease,
     expires_at |-> clock + issuing[g].ttl]

\* _assert_authoritative_binding and _signer.issue().
SignPayload(g) ==
    /\ issuing[g].pc = "sign"
    /\ Authoritative(issuing[g].request)
    /\ \E req \in Requests :
           /\ req.op = "verify"
           /\ Context(req) = issuing[g].request.ticket.context
           /\ \A s \in signed : s.report.nonce # req.nonce
           /\ signed' = signed \cup {Signature(g, req)}
           /\ issuing' = [issuing EXCEPT ![g].pc = "recheck",
                              ![g].attestation = {Signature(g, req)}]
    /\ UNCHANGED <<vars, signing_requests, issued>>

\* Mutant: the expiry of the signature is not compared.
UsableAlways(request, attestation) == TRUE

\* _validate_issued_attestation.
Usable(request, attestation) == attestation.expires_at <= request.expires_at

\* Mutant: no second binding check once the signature is there.
RecheckBlind(g) ==
    /\ issuing[g].pc = "recheck"
    /\ \E attestation \in issuing[g].attestation :
           /\ Usable(issuing[g].request, attestation)
           /\ attestations' = attestations \cup
                  {[report |-> attestation.report, lease |-> attestation.lease]}
    /\ Goto(g, "record")
    /\ UNCHANGED <<leaseVars, storeVars, calls, artifacts, replies,
                   signing_requests, signed, issued>>

\* The last checks before the signature may leave the gateway: the step that
\* ControlPlane!Sign stands for.
Recheck(g) ==
    /\ issuing[g].pc = "recheck"
    /\ Authoritative(issuing[g].request)
    /\ \E attestation \in issuing[g].attestation :
           /\ Usable(issuing[g].request, attestation)
           /\ attestations' = attestations \cup
                  {[report |-> attestation.report, lease |-> attestation.lease]}
    /\ Goto(g, "record")
    /\ UNCHANGED <<leaseVars, storeVars, calls, artifacts, replies,
                   signing_requests, signed, issued>>

\* Mutant: the UPDATE does not name the request.
PendingAny(request) == {row \in signing_requests : row.state = "pending"}

\* UPDATE ... WHERE request_id = ? AND state = 'pending'.
Pending(request) ==
    {row \in signing_requests :
        row.request.ticket.id = request.ticket.id /\ row.state = "pending"}

\* Mutant: attestation_json is not written.
CompleteUnsigned(request, state, attestation) ==
    signing_requests' = (signing_requests \ Pending(request)) \cup
        {[request |-> row.request, state |-> state, attestation |-> {}] :
            row \in Pending(request)}

Complete(request, state, attestation) ==
    signing_requests' = (signing_requests \ Pending(request)) \cup
        {[request |-> row.request, state |-> state, attestation |-> attestation] :
            row \in Pending(request)}

\* _record_issued; a ledger without the pending row raises instead.
Record(g) ==
    /\ issuing[g].pc = "record"
    /\ Pending(issuing[g].request) # {}
    /\ Complete(issuing[g].request, "issued", issuing[g].attestation)
    /\ \E attestation \in issuing[g].attestation : Answer(g, attestation)
    /\ UNCHANGED <<vars, signed>>

\* _mark_failed: too late to sign, or the signer, the verifier or a check
\* after the reservation raised.
Fail(g) ==
    /\ \/ /\ issuing[g].pc = "time"
          /\ \/ ~InTime(issuing[g].request, clock)
             \/ Remaining(issuing[g].request, clock) <= 0
       \/ issuing[g].pc \in {"sign", "recheck"}
    /\ Complete(issuing[g].request, "failed", {})
    /\ issuing' = [issuing EXCEPT ![g] = NotIssuing]
    /\ UNCHANGED <<vars, signed, issued>>

-----------------------------------------------------------------------------

\* A report carries a signature its client was handed.
PresentsIssued ==
    \A c \in Callers :
        /\ calls[c] = Idle
        /\ calls'[c] # Idle
        /\ calls'[c].req.op = "verify"
        /\ ~DirectVerifier
        => \E a \in issued :
               /\ a.attestation.report = Document(calls'[c].req)
               /\ a.attestation.lease = calls'[c].lease
               /\ a.attestation.expires_at > clock

\* build_verification_signing_request, and any retry of what it built: a
\* lease the client holds, for at most the ticket's ttl.
Ask ==
    \E g \in Gateways, ticket \in Tickets, lease \in worker_leases :
        /\ Held(lease)
        /\ Issue(g, [ticket |-> ticket, lease |-> lease,
                     expires_at |-> Lesser(ticket.requested_at + ticket.ttl,
                                           lease.expires)])

IssueStep(g) ==
    \/ Lookup(g)
    \/ Execute(g)
    \/ Reserve(g)
    \/ ReadTime(g)
    \/ SignPayload(g)
    \/ Recheck(g)
    \/ Record(g)
    \/ Fail(g)
    \/ Abandon(g)

\* A step of the control plane, whose signatures now come from the gateway.
ControlStep ==
    /\ Serve
    /\ PresentsIssued
    /\ UNCHANGED gatewayVars

GNext == ControlStep \/ Ask \/ \E g \in Gateways : IssueStep(g)

GSpec == GInit /\ [][GNext]_gvars

-----------------------------------------------------------------------------
(* Properties *)

Reserved(g) == issuing[g].pc \in {"time", "sign", "recheck", "record"}

\* Every column, local and history of the gateway holds values of its type, and
\* attestation_json is there exactly in the issued rows.
GatewayTypeOK ==
    /\ signing_requests \subseteq LedgerRow
    /\ \A row \in signing_requests : row.state = "issued" <=> row.attestation # {}
    /\ issuing \in [Gateways -> IssueCall \cup {NotIssuing}]
    /\ signed \subseteq Attestation
    /\ issued \subseteq [request: SigningRequest, attestation: Attestation]

\* docs/attestation.md: "A different request cannot mint a second signature
\* for the same payload".  Not even a signature the gateway then withholds:
\* whatever calls race, die or are retried, the signer signs a context for a
\* lease once.
PayloadSignedOnce ==
    \A s, t \in signed :
        Context(s.report) = Context(t.report) /\ s.lease = t.lease => s = t

\* "An exact idempotent retry returns the same public attestation", and an
\* idempotency key never answers two requests.
RetriesAgree ==
    \A a, b \in issued : a.request.ticket.key = b.request.ticket.key => a = b

\* The row a call reserved is still pending, and its own, when the call comes
\* to complete it: "verification signing ledger changed before issuance
\* completed" is never raised.
ReservationKept ==
    /\ \A g \in Gateways : Reserved(g) =>
           \E row \in signing_requests :
               row.request = issuing[g].request /\ row.state = "pending"
    /\ \A g, h \in Gateways :
           Reserved(g) /\ Reserved(h)
               /\ issuing[g].request.ticket.id = issuing[h].request.ticket.id
           => g = h

\* No signature outlives the request it was issued for, nor the lease, however
\* late the signer reads its clock.
NothingOutlivesLease ==
    \A a \in issued :
        /\ a.attestation.expires_at <= a.request.expires_at
        /\ a.attestation.expires_at <= a.attestation.lease.expires

\* A failed attempt, or one whose call is gone.
Consumed(row) ==
    \/ row.state = "failed"
    \/ /\ row.state = "pending"
       /\ \A g \in Gateways : Reserved(g) => issuing[g].request # row.request

\* docs/attestation.md: "Failed or interrupted signing attempts remain consumed
\* and fail closed".  Such a row stays as it is for ever, no later call takes
\* it over, and its payload is never answered.
FailsClosed ==
    [][\A row \in signing_requests : Consumed(row) =>
          /\ row \in signing_requests' /\ Consumed(row)'
          /\ \A a \in issued' \ issued : Payload(a.request) # Payload(row.request)]_gvars

\* docs/attestation.md: verify_submission "reconstructs the same v2 gateway
\* payload from the current lease and report.  A signature minted under an
\* older holder, fencing token, or expiry therefore fails".
SignatureOfCurrentLease ==
    [][\A c \in Callers :
          calls[c] = Idle /\ calls'[c] # Idle /\ calls'[c].req.op = "verify"
          => calls'[c].lease \in worker_leases]_gvars

\* The gateway gives verify_submission what ControlPlane assumes of it: every
\* behaviour of the two together is one of ControlPlane.
ImplementsSign == Spec
=============================================================================
