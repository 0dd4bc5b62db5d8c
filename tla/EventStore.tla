----------------------------- MODULE EventStore -----------------------------
(***************************************************************************)
(* The append-only event store of the control plane                        *)
(* (packages/control_plane/src/autolean_control_plane/events.py).  It      *)
(* lives in the SQLite file of the lease store and every write runs in one *)
(* BEGIN IMMEDIATE transaction, so the operators below are the bodies of   *)
(* atomic steps.  Each table is a set of rows; entity_versions is a        *)
(* function, 0 standing for "no row".                                      *)
(*                                                                         *)
(* A command is a record of Requests.  Data that no check distinguishes is *)
(* left out; what is left plays, per command,                              *)
(*   op        the scope of its idempotency key                            *)
(*   key       the idempotency key                                         *)
(*   bundle    bundle_id                                                   *)
(*   worker    the claiming worker (claim)                                 *)
(*   id        handoff hash (register), proof_id (submit, verify),         *)
(*             report_id (gap), request_id (change)                        *)
(*   contract  the frozen contract the document binds: contract_hash with  *)
(*             the environment and proof boundary hashes                   *)
(*   nonce     nonce of the attestation (register, verify)                 *)
(*   ok        register: the handoff carries source-preparation evidence,  *)
(*             a valid Builder attestation and valid fidelity evidence;    *)
(*             submit: no sorry, admit or sorryAx; verify: every gate of   *)
(*             _verification_failures passes                               *)
(***************************************************************************)
EXTENDS LeaseStore

CONSTANTS
    Requests,   \* the commands clients may deliver, any number of times
    RevisionOf  \* contract hash -> (contract_id, revision) it was frozen as

EvidenceOps == {"submit", "gap", "change", "verify"}
Ops == {"register", "claim"} \cup EvidenceOps

ASSUME RequestAssumption ==
    \A req \in Requests :
        /\ req.op \in Ops
        /\ req.bundle \in Jobs
        /\ req.worker \in Holders
        /\ req.ok \in BOOLEAN

VARIABLES
    events,              \* table events: rows [pos, req, token, expires, seq]
    head,                \* its AUTOINCREMENT global_position
    entity_versions,     \* table entity_versions
    idempotency_records, \* table idempotency_records
    nonce_uses,          \* table attestation_nonce_uses: <<purpose, nonce>>
    revision_bindings    \* table contract_revision_bindings

storeVars == <<events, head, entity_versions, idempotency_records,
               nonce_uses, revision_bindings>>

\* The stream (entity_type, entity_id) a command appends to.
Entity(req) ==
    CASE req.op \in {"register", "claim"} -> <<"task", req.bundle>>
      [] req.op = "submit" -> <<"proof", req.id>>
      [] req.op = "gap"    -> <<"gap", req.id>>
      [] req.op = "change" -> <<"contract_change_request", req.id>>
      [] req.op = "verify" -> <<"verification", req.id>>

Entities == {Entity(req) : req \in Requests}

Event == [pos: Nat, req: Requests, token: Nat, expires: Nat, seq: Nat]

StoreInit ==
    /\ events = {}
    /\ head = 0
    /\ entity_versions = [x \in Entities |-> 0]
    /\ idempotency_records = {}
    /\ nonce_uses = {}
    /\ revision_bindings = {}

-----------------------------------------------------------------------------
(* Reads *)

\* request_hash covers the command's document and, for evidence commands,
\* the fence of the lease but not its expiry (_idempotency, _lease_identity).
SameRequestHash(record, req, lease) ==
    /\ record.req = req
    /\ req.op \in EvidenceOps => SameFence(record, lease)

\* A row of idempotency_records under this scope and key.
Recorded(req) ==
    \E record \in idempotency_records :
        record.req.op = req.op /\ record.req.key = req.key

\* The row an identical earlier command left; a row with another request
\* hash raises IdempotencyConflict instead.
Replays(record, req, lease) ==
    /\ record \in idempotency_records
    /\ SameRequestHash(record, req, lease)

\* get_binding: the registration event of a bundle.
Registration(event, bundle) ==
    event.req.op = "register" /\ event.req.bundle = bundle

-----------------------------------------------------------------------------
(* Transactions *)

\* Purposes keep the nonces of the two attestation kinds apart.
NoncesOf(req) ==
    IF req.op \in {"register", "verify"} THEN {<<req.op, req.nonce>>} ELSE {}

\* Mutant: no compare-and-swap on the stream version.
CanAppendBlind(req, expected) == NoncesOf(req) \cap nonce_uses = {}

\* Mutant: the nonce table is not consulted.
CanAppendReplayed(req, expected) == entity_versions[Entity(req)] = expected

\* _append_locked raises AttestationReplay or ConcurrencyError otherwise.
CanAppend(req, expected) ==
    /\ NoncesOf(req) \cap nonce_uses = {}
    /\ entity_versions[Entity(req)] = expected

\* The row to be inserted, numbered from the version the caller expects.  Payloads of claims and evidence carry the fencing
\* token; only a claim's payload carries the expiry of the lease.
NewEvent(req, lease, expected) ==
    [pos |-> head + 1, req |-> req, token |-> lease.token,
     expires |-> IF req.op = "claim" THEN lease.expires ELSE 0,
     seq |-> expected + 1]

NewRecord(req, lease, event) ==
    [req |-> req, event |-> event,
     job |-> lease.job, holder |-> lease.holder, token |-> lease.token]

\* Mutant: the event row is lost while the other rows are committed.
AppendLockedLosing(req, lease, expected) ==
    /\ UNCHANGED events
    /\ head' = head + 1
    /\ entity_versions' = [entity_versions EXCEPT ![Entity(req)] = expected + 1]
    /\ nonce_uses' = nonce_uses \cup NoncesOf(req)
    /\ idempotency_records' = idempotency_records \cup
           {NewRecord(req, lease, NewEvent(req, lease, expected))}

\* _append_locked: nonce, version, event and idempotency row, all or nothing.
AppendLocked(req, lease, expected) ==
    /\ events' = events \cup {NewEvent(req, lease, expected)}
    /\ head' = head + 1
    /\ entity_versions' = [entity_versions EXCEPT ![Entity(req)] = expected + 1]
    /\ nonce_uses' = nonce_uses \cup NoncesOf(req)
    /\ idempotency_records' = idempotency_records \cup
           {NewRecord(req, lease, NewEvent(req, lease, expected))}

NewBinding(req, event) ==
    [revision |-> RevisionOf[req.contract], bundle |-> req.bundle,
     handoff |-> req.id, contract |-> req.contract, event |-> event]

\* Mutant: only the bundle of a registration is looked up, not its revision.
BoundByBundle(req) == {row \in revision_bindings : row.bundle = req.bundle}

\* The rows a registration collides with: same contract revision or same bundle.
Bound(req) ==
    {row \in revision_bindings :
        row.revision = RevisionOf[req.contract] \/ row.bundle = req.bundle}

\* A row that binds exactly this handoff: the delivery is a retry.
SameBinding(row, req) ==
    /\ row.revision = RevisionOf[req.contract]
    /\ row.bundle = req.bundle
    /\ row.handoff = req.id
    /\ row.contract = req.contract

\* Mutant: the transaction trusts the idempotency lookup made before it.
AppendUnfencedUnchecked(req, lease, expected) ==
    /\ CanAppend(req, expected)
    /\ AppendLocked(req, lease, expected)
    /\ UNCHANGED revision_bindings

\* append(): compare-and-swap on the stream, no fence.
AppendUnfenced(req, lease, expected) ==
    /\ ~Recorded(req)
    /\ CanAppend(req, expected)
    /\ AppendLocked(req, lease, expected)
    /\ UNCHANGED revision_bindings

\* Mutant: the fence compares holder and token but not the expiry.
FenceHoldsUntimed(req, lease) ==
    /\ lease.job = req.bundle
    /\ \E row \in worker_leases : SameFence(row, lease)

\* _assert_current_fence: the lease row, read in the same transaction and
\* compared with the transaction's own time.
FenceHolds(req, lease) ==
    /\ lease.job = req.bundle
    /\ IsCurrent(lease, clock)

\* Mutant: the append trusts the lease check made before the transaction.
AppendFencedUnchecked(req, lease) ==
    /\ ~Recorded(req)
    /\ CanAppend(req, 0)
    /\ AppendLocked(req, lease, 0)
    /\ UNCHANGED revision_bindings

\* append_fenced(): the fence must hold and the stream must be new.
AppendFenced(req, lease) ==
    /\ ~Recorded(req)
    /\ FenceHolds(req, lease)
    /\ CanAppend(req, 0)
    /\ AppendLocked(req, lease, 0)
    /\ UNCHANGED revision_bindings

\* Mutant: the event is committed, the row of the binding table is not.
AppendRegistrationUnbound(req, lease) ==
    /\ ~Recorded(req)
    /\ Bound(req) = {}
    /\ CanAppend(req, 0)
    /\ AppendLocked(req, lease, 0)
    /\ UNCHANGED revision_bindings

\* append_contract_revision_registration(), revision and bundle unbound.
AppendRegistration(req, lease) ==
    /\ ~Recorded(req)
    /\ Bound(req) = {}
    /\ CanAppend(req, 0)
    /\ AppendLocked(req, lease, 0)
    /\ revision_bindings' =
           revision_bindings \cup {NewBinding(req, NewEvent(req, lease, 0))}

\* append_contract_revision_registration(), a retry under a new key: linked
\* to the original event, its nonce not consumed again.
LinkRegistration(req, lease, row) ==
    /\ ~Recorded(req)
    /\ SameBinding(row, req)
    /\ idempotency_records' =
           idempotency_records \cup {NewRecord(req, lease, row.event)}
    /\ UNCHANGED <<events, head, entity_versions, nonce_uses, revision_bindings>>

\* _assert_registration_events_match: the event a recorded registration names
\* is the one its row of the binding table names.
RegistrationMatches(record) == NewBinding(record.req, record.event) \in revision_bindings

-----------------------------------------------------------------------------
(* Opening the store *)

RegistrationEvents == {event \in events : event.req.op = "register"}

\* The rows the log calls for (_registration_binding_from_event_row).
ExpectedBindings == {NewBinding(event.req, event) : event \in RegistrationEvents}

\* _initialize_contract_revision_bindings raises ProjectionError: the log binds
\* a contract revision or a bundle twice, or the table holds a row that no
\* registration event accounts for.
OpenRaises(rows) ==
    \/ \E e, f \in RegistrationEvents :
           /\ e # f
           /\ e.req.bundle = f.req.bundle \/ RevisionOf[e.req.contract] = RevisionOf[f.req.contract]
    \/ \E row \in rows : row \notin ExpectedBindings

\* The table after opening: rows a legacy database lacks are inserted.
Backfilled(rows) == rows \cup ExpectedBindings
=============================================================================
