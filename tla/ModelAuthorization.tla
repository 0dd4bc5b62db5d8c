------------------------- MODULE ModelAuthorization -------------------------
(***************************************************************************)
(* The durable ledger of model-execution authority                         *)
(* (packages/control_plane/src/autolean_control_plane/                     *)
(* model_authorization.py): operator approvals of a provider, signed       *)
(* capabilities bound to a worker lease, and the attempts reserved,        *)
(* settled, abandoned and revoked under them.                              *)
(*                                                                         *)
(* Every write is one BEGIN IMMEDIATE transaction of the database that     *)
(* also holds the leases, hence LeaseStore.  issue() signs before its      *)
(* transaction and is two steps.  The operations of the gate               *)
(* (preflight, reserve, settle, abandon) are stated here as what one       *)
(* transaction reads and appends; ProviderRegistry calls them.             *)
(***************************************************************************)
EXTENDS LeaseStore, Sequences, FiniteSetsExt

CONSTANTS
    Approvals,    \* enabled approvals: [id, binding, class, rates]
    Offers,       \* what issue() is asked for: [id, bundle, approval, request, budget,
                  \*                             ttl, rights, matches]
    Reasons,      \* revocation reasons
    Keys,         \* idempotency keys: [approve, issue, revoke]
    Issuers,      \* issue() calls that can be in progress at once
    MaxIssueTtl,  \* max_ttl_seconds
    Threshold,    \* provider_failure_threshold
    Cooldown      \* provider_failure_cooldown_seconds

ASSUME AuthorizationAssumption ==
    /\ MaxIssueTtl \in Nat \ {0}
    /\ Threshold \in Nat \ {0}
    /\ Cooldown \in Nat \ {0}

\* ModelExecutionPricingV1 and ModelExecutionBudgetV1: no field is negative.
ASSUME OfferAssumption ==
    /\ \A approval \in Approvals :
           /\ approval.rates.input \in Nat
           /\ approval.rates.cached \in Nat
           /\ approval.rates.output \in Nat
    /\ \A offer \in Offers :
           /\ offer.budget.attempts \in Nat
           /\ offer.budget.input \in Nat
           /\ offer.budget.output \in Nat
           /\ offer.budget.total \in Nat
           /\ offer.budget.cost \in Nat

VARIABLES
    approvals,       \* table model_execution_provider_approvals
    approval_keys,   \* its idempotency table
    authorizations,  \* table model_execution_authorizations
    authorization_keys, \* its idempotency table, scopes issue and revoke
    ledger,          \* model_execution_authorization_ledger, in event order
    health,          \* model_execution_provider_health_ledger, in event order
    minting,         \* issuer -> None, or the capability it signed
    capabilities     \* every capability issue() has returned (history)

authorizationVars ==
    <<approvals, approval_keys, authorizations, authorization_keys, ledger, health,
      minting, capabilities>>

None == [pc |-> "none"]

HealthCodes == {"probe_failed", "probe_invalid", "generation_failed", "response_invalid"}

FailureCodes ==
    HealthCodes \cup {"capability_mismatch", "settlement_rejected", "local_policy"}

AuthorizationInit ==
    /\ approvals = {}
    /\ approval_keys = {}
    /\ authorizations = {}
    /\ authorization_keys = {}
    /\ ledger = <<>>
    /\ health = <<>>
    /\ minting = [i \in Issuers |-> None]
    /\ capabilities = {}

-----------------------------------------------------------------------------
(* Prices *)

\* ModelExecutionPricingV1.cost_for_usage.
CostOf(rates, usage) ==
    (usage.input - usage.cached) * rates.input
        + usage.cached * rates.cached + usage.output * rates.output

\* Mutant: cached tokens are assumed never to be dearer.
ReserveAtInputRate(rates, input, output) ==
    rates.input * input + rates.output * output

\* ModelExecutionPricingV1.reserve_cost: whatever turns out to be cached.
ReserveCost(rates, input, output) ==
    Max({rates.input, rates.cached}) * input + rates.output * output

\* ModelEgressPolicyV1.permits.
Permits(rights, class) ==
    /\ rights.overall \notin {"unknown", "deny"}
    /\ \/ class = "local"
       \/ class = "approved_external" /\ rights.egress /\ class \in rights.classes

-----------------------------------------------------------------------------
(* Operator approvals and capabilities *)

\* _stored_provider_approval: at most one row has the id.
StoredApproval(id) == {row \in approvals : row.id = id}

\* _idempotent_provider_approval: the key is new or belongs to this record.
ApprovalKeyFits(key, approval) ==
    \A row \in approval_keys : row.key = key => row.approval = approval

\* register_operator_approval: a key answers one record, an id names one.
RegisterApproval(approval, key) ==
    /\ ApprovalKeyFits(key, approval)
    /\ StoredApproval(approval.id) \subseteq {approval}
    /\ approvals' = approvals \cup {approval}
    /\ approval_keys' = approval_keys \cup {[key |-> key, approval |-> approval]}
    /\ UNCHANGED <<authorizations, authorization_keys, ledger, health, minting, capabilities>>

\* _assert_bundle_binding, _assert_current_issue_lease, _validate_request_hashes.
\* matches: the bundle is the registered frozen task and both hashes are
\* prompt digests.
Frozen(offer, lease) ==
    /\ offer.matches
    /\ lease.job = offer.bundle
    /\ IsCurrent(lease, clock)

\* _validate_ttl.
ValidTtl(ttl) == ttl \in 1 .. MaxIssueTtl

\* issue(): the capability ends no later than its lease.
LeaseCovers(offer, lease) == clock + offer.ttl <= lease.expires

\* issue() up to the signature.  The lease row is checked, and the expiry is
\* compared with the lease the caller presents.
Mint(i, offer, key, lease) ==
    /\ minting[i] = None
    /\ ValidTtl(offer.ttl)
    /\ Frozen(offer, lease)
    /\ LeaseCovers(offer, lease)
    /\ \E approval \in StoredApproval(offer.approval) :
           /\ Permits(offer.rights, approval.class)
           /\ minting' = [minting EXCEPT ![i] =
                  [pc |-> "minted", key |-> key,
                   capability |-> [offer |-> offer, lease |-> lease, approval |-> approval,
                                   issued_at |-> clock, expires |-> clock + offer.ttl,
                                   issuer |-> i]]]
    /\ UNCHANGED <<approvals, approval_keys, authorizations, authorization_keys, ledger,
                   health, capabilities>>

\* issue_request: what a retry must repeat, the lease's expiry included.
IssueRequest(capability) == <<capability.offer, capability.lease, capability.approval>>

\* The row a request for this capability is answered with.
Stored(capability) == {row \in authorizations : row.offer.id = capability.offer.id}

\* Neither the key nor the id belongs to another request.
Consistent(key, capability) ==
    /\ \A row \in authorization_keys :
           row.scope = "issue" /\ row.key = key => row.request = IssueRequest(capability)
    /\ \A row \in Stored(capability) : IssueRequest(row) = IssueRequest(capability)

\* Mutant: a retry is answered with the capability it has just signed.
CommitOwn(i) ==
    LET capability == minting[i].capability
    IN  /\ minting[i] # None
        /\ Consistent(minting[i].key, capability)
        /\ authorizations' = authorizations \cup {capability}
        /\ authorization_keys' = authorization_keys \cup
               {[scope |-> "issue", key |-> minting[i].key,
                 request |-> IssueRequest(capability)]}
        /\ capabilities' = capabilities \cup
               {[key |-> minting[i].key, capability |-> capability]}
        /\ minting' = [minting EXCEPT ![i] = None]
        /\ UNCHANGED <<approvals, approval_keys, ledger, health>>

\* issue(), its transaction: a stored request is answered with the stored
\* capability, whatever this call has signed meanwhile.
Commit(i) ==
    LET capability == minting[i].capability
        stored == Stored(capability)
        answers == IF stored = {} THEN {capability} ELSE stored
    IN  /\ minting[i] # None
        /\ Consistent(minting[i].key, capability)
        /\ authorizations' = authorizations \cup answers
        /\ authorization_keys' = authorization_keys \cup
               {[scope |-> "issue", key |-> minting[i].key,
                 request |-> IssueRequest(capability)]}
        /\ capabilities' = capabilities \cup
               {[key |-> minting[i].key, capability |-> answer] : answer \in answers}
        /\ minting' = [minting EXCEPT ![i] = None]
        /\ UNCHANGED <<approvals, approval_keys, ledger, health>>

\* The transaction raises, or the process dies with the signature.
Forget(i) ==
    /\ minting[i] # None
    /\ minting' = [minting EXCEPT ![i] = None]
    /\ UNCHANGED <<approvals, approval_keys, authorizations, authorization_keys, ledger,
                   health, capabilities>>

-----------------------------------------------------------------------------
(* The ledger *)

Of(a, type) == {n \in DOMAIN ledger : ledger[n].type = type /\ ledger[n].auth = a}

Revoked(a) == Of(a, "revoked") # {}

\* revoke(): one row per capability; a repeated key changes nothing.
Revoke(id, reason, key) ==
    /\ \E row \in authorizations : row.offer.id = id
    /\ \A row \in authorization_keys :
           row.scope = "revoke" /\ row.key = key => row.request = <<id, reason>>
    /\ authorization_keys' = authorization_keys \cup
           {[scope |-> "revoke", key |-> key, request |-> <<id, reason>>]}
    /\ ledger' = IF Revoked(id) THEN ledger
                 ELSE Append(ledger, [type |-> "revoked", auth |-> id, reason |-> reason])
    /\ UNCHANGED <<approvals, approval_keys, authorizations, health, minting, capabilities>>

\* The events of the ledger that end reservation n, in the order of the log.
Ends(n) ==
    {m \in DOMAIN ledger :
        ledger[m].type \in {"settled", "abandoned"} /\ ledger[m].reservation = n}

\* Mutant: abandoned attempts are forgotten altogether.
AttemptsHeld(a) == Cardinality({n \in Of(a, "reserved") : \A m \in Ends(n) : ledger[m].type = "settled"})

\* _usage_totals: every attempt ever reserved counts, ...
Attempts(a) == Cardinality(Of(a, "reserved"))

\* ... an abandoned one is free, a settled one costs what was reported, and
\* one that is still open costs its worst case.
Charge(n) ==
    LET abandoned == \E m \in Ends(n) : ledger[m].type = "abandoned"
    IN  IF abandoned THEN [input |-> 0, output |-> 0, cost |-> 0]
        ELSE IF Ends(n) # {} THEN ledger[Max(Ends(n))].charge
        ELSE ledger[n].charge

\* What the attempts ns cost together.
Charged(ns) ==
    [input |-> SumFunctionOnSet([n \in ns |-> Charge(n).input], ns),
     output |-> SumFunctionOnSet([n \in ns |-> Charge(n).output], ns),
     cost |-> SumFunctionOnSet([n \in ns |-> Charge(n).cost], ns)]

\* Mutant: only settled attempts count.
SettledUsage(a) == Charged({n \in Of(a, "reserved") : Ends(n) # {}})

Usage(a) == Charged(Of(a, "reserved"))

\* _assert_provider_circuit_closed raises: the newest Threshold events of the
\* binding are failures and the newest of them is recent.
CircuitOpen(binding) ==
    LET rows == SelectSeq(health, LAMBDA e : e.binding = binding)
    IN  /\ Len(rows) >= Threshold
        /\ \A k \in Len(rows) - Threshold + 1 .. Len(rows) : rows[k].type = "failure"
        /\ clock < rows[Len(rows)].at + Cooldown

\* Mutant: the worker's lease is not looked up again.
ActiveUnleased(auth) == auth.expires > clock /\ ~Revoked(auth.offer.id)

\* _verify_capability and _assert_active.
Active(auth) ==
    /\ auth.expires > clock
    /\ ~Revoked(auth.offer.id)
    /\ IsCurrent(auth.lease, clock)

\* _validate_request_limits: the call is the one the capability is for.
RequestFits(auth, request) ==
    LET budget == auth.offer.budget
    IN  /\ auth.offer.request = request.hash
        /\ request.input \in 1 .. budget.input
        /\ request.output \in 1 .. budget.output
        /\ request.input + request.output <= budget.total

\* _stored_authorization, _assert_same_capability: the record says the same.
Genuine(auth) == auth \in authorizations

\* preflight(): also everything reserve() checks before it adds up.
Authorized(auth, request) ==
    /\ RequestFits(auth, request)
    /\ Genuine(auth)
    /\ Active(auth)
    /\ ~CircuitOpen(auth.approval.binding)

WorstCase(auth, request) ==
    [input |-> request.input, output |-> request.output,
     cost |-> ReserveCost(auth.approval.rates, request.input, request.output)]

\* reserve(): the worst case of one more attempt still fits.
CanReserve(auth, request) ==
    LET budget == auth.offer.budget
        used == Usage(auth.offer.id)
        more == WorstCase(auth, request)
    IN  /\ Authorized(auth, request)
        /\ Attempts(auth.offer.id) < budget.attempts
        /\ used.input + more.input <= budget.input
        /\ used.output + more.output <= budget.output
        /\ used.input + used.output + more.input + more.output <= budget.total
        /\ used.cost + more.cost <= budget.cost

Reservation(auth, request) ==
    [type |-> "reserved", auth |-> auth.offer.id, attempt |-> Attempts(auth.offer.id) + 1,
     charge |-> WorstCase(auth, request), token |-> auth.lease.token]

\* _append_provider_health_event.
HealthEvent(auth, n, type) ==
    [binding |-> auth.approval.binding, type |-> type, at |-> clock, reservation |-> n]

\* settle(): the capability is active and the usage within the reservation n.
CanSettle(auth, n, usage) ==
    /\ Active(auth)
    /\ Ends(n) = {}
    /\ usage.input <= ledger[n].charge.input
    /\ usage.output <= ledger[n].charge.output
    /\ CostOf(auth.approval.rates, usage) <= ledger[n].charge.cost

Settlement(auth, n, usage) ==
    [type |-> "settled", auth |-> auth.offer.id, reservation |-> n,
     charge |-> [input |-> usage.input, output |-> usage.output,
                 cost |-> CostOf(auth.approval.rates, usage)],
     token |-> auth.lease.token]

Settle(auth, n, usage) ==
    /\ ledger' = Append(ledger, Settlement(auth, n, usage))
    /\ health' = Append(health, HealthEvent(auth, n, "success"))

\* Mutant: every failure counts against the provider.
AbandonUnhealthy(auth, n, code) ==
    IF Ends(n) # {} THEN UNCHANGED <<ledger, health>>
    ELSE /\ ledger' = Append(ledger, [type |-> "abandoned", auth |-> auth.offer.id,
                                      reservation |-> n, reason |-> code])
         /\ health' = Append(health, HealthEvent(auth, n, "failure"))

\* abandon(): a reservation that has ended stays as it is.
Abandon(auth, n, code) ==
    IF Ends(n) # {} THEN UNCHANGED <<ledger, health>>
    ELSE /\ ledger' = Append(ledger, [type |-> "abandoned", auth |-> auth.offer.id,
                                      reservation |-> n, reason |-> code])
         /\ health' = IF code \in HealthCodes
                      THEN Append(health, HealthEvent(auth, n, "failure"))
                      ELSE health

-----------------------------------------------------------------------------
(* Properties *)

\* A retry or a race never makes two capabilities of one authorization id, nor
\* gives one idempotency key two answers, although each call signs its own.
OneCapability ==
    \A c, d \in capabilities :
        c.key = d.key \/ c.capability.offer.id = d.capability.offer.id
        => c.capability = d.capability

\* "concurrent workers cannot over-reserve a capability's budget": whatever
\* attempts run, fail or are lost, the ledger's totals stay within every limit.
BudgetHolds ==
    \A auth \in authorizations :
        LET budget == auth.offer.budget
            used == Usage(auth.offer.id)
        IN  /\ used.input <= budget.input
            /\ used.output <= budget.output
            /\ used.input + used.output <= budget.total
            /\ used.cost <= budget.cost

\* _reservation_states never raises on a ledger the service wrote: an end
\* follows its reservation, each reservation ends at most once, and attempts
\* are numbered without gaps.
LedgerReplays ==
    \A n \in DOMAIN ledger :
        /\ ledger[n].type \in {"settled", "abandoned"} =>
               /\ ledger[n].reservation \in 1 .. n - 1
               /\ ledger[ledger[n].reservation].type = "reserved"
               /\ Ends(ledger[n].reservation) = {n}
        /\ ledger[n].type = "reserved" =>
               ledger[n].attempt =
                   Cardinality({m \in 1 .. n : ledger[m].type = "reserved"
                                                /\ ledger[m].auth = ledger[n].auth})

\* revoke(): "reservations can release but can never settle afterward", and
\* nothing is reserved afterwards.
RevocationFinal ==
    \A m, n \in DOMAIN ledger :
        m < n /\ ledger[m].type = "revoked" /\ ledger[m].auth = ledger[n].auth
        => ledger[n].type = "abandoned"

Fenced(n) == ledger[n].type \in {"reserved", "settled"}

BundleOf(n) == (CHOOSE auth \in authorizations : auth.offer.id = ledger[n].auth).offer.bundle

\* docs/protocol.md: "lease fencing applies to egress as well".  Once a worker
\* has reserved or settled under a fencing token, no worker with an older
\* token of that bundle does.
LedgerInFenceOrder ==
    \A m, n \in DOMAIN ledger :
        m < n /\ Fenced(m) /\ Fenced(n) /\ BundleOf(m) = BundleOf(n)
        => ledger[m].token <= ledger[n].token

\* What the ledger says can be replayed, and no authority is used after it was
\* withdrawn, by the operator or by the lease store.
LedgerSound == LedgerReplays /\ RevocationFinal /\ LedgerInFenceOrder
=============================================================================
