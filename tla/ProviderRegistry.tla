-------------------------- MODULE ProviderRegistry --------------------------
(***************************************************************************)
(* Model generation (Prover/src/autolean_prover/providers/registry.py)     *)
(* against the authority of ModelAuthorization.  generate() is cut at      *)
(* every call of the gate and at every call of the provider:               *)
(*                                                                         *)
(*   binding, preflight | reserve | probe, binding | generate, binding |   *)
(*   settle | abandon when anything after the reservation failed           *)
(*                                                                         *)
(* Processes register providers in memory, may die anywhere, and then have *)
(* to register again.  A provider object may change its properties after   *)
(* its registration (drifted), and change them back.                       *)
(***************************************************************************)
EXTENDS ModelAuthorization

CONSTANTS
    Provers,  \* processes with a registry, each running one generate() at a time
    Prompts   \* [hash, input, output]: outbound_request_hash and token limits

VARIABLES
    registered, \* prover -> bindings registered in its process
    drifted,    \* <<prover, binding>> whose object differs from its registration
    runs,       \* prover -> None or the locals of generate()
    called,     \* reservations under which a provider was called, in order (history)
    answered,   \* responses returned to callers (history)
    lost        \* reservations whose process died (history)

registryVars == <<registered, drifted, runs, called, answered, lost>>
rvars == <<leaseVars, authorizationVars, registryVars>>

RInit ==
    /\ LeaseInit
    /\ AuthorizationInit
    /\ registered = [p \in Provers |-> {}]
    /\ drifted = {}
    /\ runs = [p \in Provers |-> None]
    /\ called = <<>>
    /\ answered = {}
    /\ lost = {}

Binding(p) == runs[p].auth.approval.binding

\* _assert_provider_binding raises.
Drifted(p, binding) == <<p, binding>> \in drifted

\* register(): a name is registered once.
Register(p, binding) ==
    /\ binding \notin registered[p]
    /\ registered' = [registered EXCEPT ![p] = @ \cup {binding}]
    /\ UNCHANGED <<leaseVars, authorizationVars, drifted, runs, called, answered, lost>>

\* The provider object is changed by its owner (external).
Drift(p, binding) ==
    /\ binding \in registered[p]
    /\ drifted' = SymDiff(drifted, {<<p, binding>>})
    /\ UNCHANGED <<leaseVars, authorizationVars, registered, runs, called, answered, lost>>

\* generate() up to and with preflight; what raises here leaves no trace.
Begin(p, auth, prompt) ==
    /\ runs[p] = None
    /\ auth.approval.binding \in registered[p]
    /\ ~Drifted(p, auth.approval.binding)
    /\ Authorized(auth, prompt)
    /\ runs' = [runs EXCEPT ![p] = [pc |-> "reserve", auth |-> auth, prompt |-> prompt]]
    /\ UNCHANGED <<leaseVars, authorizationVars, registered, drifted, called, answered, lost>>

\* Mutant: a denied reservation is tried again until it succeeds.
ReserveRetrying(p) ==
    /\ runs[p].pc = "reserve"
    /\ CanReserve(runs[p].auth, runs[p].prompt)
    /\ ledger' = Append(ledger, Reservation(runs[p].auth, runs[p].prompt))
    /\ runs' = [runs EXCEPT ![p] =
           [pc |-> "probe", auth |-> runs[p].auth, prompt |-> runs[p].prompt,
            n |-> Len(ledger) + 1]]
    /\ UNCHANGED <<leaseVars, approvals, approval_keys, authorizations, authorization_keys,
                   health, minting, capabilities, registered, drifted, called, answered, lost>>

\* reserve(), or its denial.
ReserveAttempt(p) ==
    /\ runs[p].pc = "reserve"
    /\ IF CanReserve(runs[p].auth, runs[p].prompt)
       THEN /\ ledger' = Append(ledger, Reservation(runs[p].auth, runs[p].prompt))
            /\ runs' = [runs EXCEPT ![p] =
                   [pc |-> "probe", auth |-> runs[p].auth, prompt |-> runs[p].prompt,
                    n |-> Len(ledger) + 1]]
       ELSE runs' = [runs EXCEPT ![p] = None] /\ UNCHANGED ledger
    /\ UNCHANGED <<leaseVars, approvals, approval_keys, authorizations, authorization_keys,
                   health, minting, capabilities, registered, drifted, called, answered, lost>>

Continue(p, pc) ==
    runs' = [runs EXCEPT ![p] = [pc |-> pc, auth |-> @.auth, prompt |-> @.prompt, n |-> @.n]]

\* The exception leaves generate() through its finally block.
FailWith(p, code) ==
    runs' = [runs EXCEPT ![p] =
        [pc |-> "abandon", auth |-> @.auth, prompt |-> @.prompt, n |-> @.n, code |-> code]]

\* probe(): it raises, returns no capabilities, or returns capabilities that
\* are compared after the provider's binding.
ProbeProvider(p) ==
    /\ runs[p].pc = "probe"
    /\ \/ \E code \in {"probe_failed", "probe_invalid"} : FailWith(p, code)
       \/ Drifted(p, Binding(p)) /\ FailWith(p, "local_policy")
       \/ ~Drifted(p, Binding(p)) /\ FailWith(p, "capability_mismatch")
       \/ ~Drifted(p, Binding(p)) /\ Continue(p, "generate")
    /\ UNCHANGED <<leaseVars, authorizationVars, registered, drifted, called, answered, lost>>

\* The usage of a response the registry accepts: some input, within the limits.
Usages(prompt) ==
    {usage \in [input: 1 .. prompt.input, cached: 0 .. prompt.input,
                output: 0 .. prompt.output] : usage.cached <= usage.input}

\* provider.generate(), the validation of its response, and the binding again.
CallProvider(p) ==
    /\ runs[p].pc = "generate"
    /\ called' = Append(called, runs[p].n)
    /\ \/ \E code \in {"generation_failed", "local_policy", "response_invalid"} :
              FailWith(p, code)
       \/ Drifted(p, Binding(p)) /\ FailWith(p, "local_policy")
       \/ /\ ~Drifted(p, Binding(p))
          /\ \E usage \in Usages(runs[p].prompt) :
                 runs' = [runs EXCEPT ![p] =
                     [pc |-> "settle", auth |-> @.auth, prompt |-> @.prompt, n |-> @.n,
                      usage |-> usage]]
    /\ UNCHANGED <<leaseVars, authorizationVars, registered, drifted, answered, lost>>

Return(p) ==
    /\ answered' = answered \cup {[n |-> runs[p].n, usage |-> runs[p].usage]}
    /\ runs' = [runs EXCEPT ![p] = None]

\* settle(): refused, or recorded; the gate's answer may still be lost.
SettleAttempt(p) ==
    /\ runs[p].pc = "settle"
    /\ IF CanSettle(runs[p].auth, runs[p].n, runs[p].usage)
       THEN /\ Settle(runs[p].auth, runs[p].n, runs[p].usage)
            /\ \/ Return(p)
               \/ FailWith(p, "settlement_rejected") /\ UNCHANGED answered
       ELSE FailWith(p, "settlement_rejected") /\ UNCHANGED <<ledger, health, answered>>
    /\ UNCHANGED <<leaseVars, approvals, approval_keys, authorizations, authorization_keys,
                   minting, capabilities, registered, drifted, called, lost>>

\* The finally block.
AbandonAttempt(p) ==
    /\ runs[p].pc = "abandon"
    /\ Abandon(runs[p].auth, runs[p].n, runs[p].code)
    /\ runs' = [runs EXCEPT ![p] = None]
    /\ UNCHANGED <<leaseVars, approvals, approval_keys, authorizations, authorization_keys,
                   minting, capabilities, registered, drifted, called, answered, lost>>

Holding(p) == runs[p].pc \in {"probe", "generate", "settle", "abandon"}

\* The process dies, or cannot reach the database any more and raises
\* "model execution failure accounting was unavailable".
Die(p) ==
    /\ runs[p] # None
    /\ runs' = [runs EXCEPT ![p] = None]
    /\ registered' = [registered EXCEPT ![p] = {}]
    /\ drifted' = {d \in drifted : d[1] # p}
    /\ lost' = lost \cup (IF Holding(p) THEN {runs[p].n} ELSE {})
    /\ UNCHANGED <<leaseVars, authorizationVars, called, answered>>

-----------------------------------------------------------------------------

RunStep(p) ==
    \/ ReserveAttempt(p)
    \/ ProbeProvider(p)
    \/ CallProvider(p)
    \/ SettleAttempt(p)
    \/ AbandonAttempt(p)

Bindings == {approval.binding : approval \in Approvals}

\* What workers, clients and provider owners do.
Environment ==
    \/ LeaseNext /\ UNCHANGED <<authorizationVars, registryVars>>
    \/ \E p \in Provers, binding \in Bindings : Register(p, binding) \/ Drift(p, binding)
    \/ \E p \in Provers, c \in capabilities, prompt \in Prompts :
           Begin(p, c.capability, prompt)
    \/ \E p \in Provers : Die(p)

\* What operators do.
Operator ==
    /\ \/ \E approval \in Approvals, key \in Keys.approve : RegisterApproval(approval, key)
       \/ \E i \in Issuers, offer \in Offers, key \in Keys.issue, lease \in granted :
              Mint(i, offer, key, lease)
       \/ \E i \in Issuers : Commit(i) \/ Forget(i)
       \/ \E offer \in Offers, reason \in Reasons, key \in Keys.revoke :
              Revoke(offer.id, reason, key)
    /\ UNCHANGED <<leaseVars, registryVars>>

RNext == Environment \/ Operator \/ \E p \in Provers : RunStep(p)

RSpec == RInit /\ [][RNext]_rvars

\* generate() runs to its end unless its process dies: provider calls have
\* timeouts and transactions terminate.
FairRSpec == RSpec /\ \A p \in Provers : WF_rvars(RunStep(p))

-----------------------------------------------------------------------------
(* Properties *)

\* docs/protocol.md: "lost workers therefore retain their consumed attempt slot
\* and cannot reset a budget by restarting".  However processes fail, restart
\* and race, a provider is called at most max_attempts times under one
\* capability, each time under a reservation of its own.
CallsWithinAttempts ==
    /\ \A i, j \in DOMAIN called : called[i] = called[j] => i = j
    /\ \A auth \in authorizations :
           Cardinality({i \in DOMAIN called : ledger[called[i]].auth = auth.offer.id})
               <= auth.offer.budget.attempts

\* A response reaches its caller only after its usage was settled.
AnswersSettled ==
    \A a \in answered : \E m \in Ends(a.n) :
        /\ ledger[m].type = "settled"
        /\ ledger[m].charge.input = a.usage.input
        /\ ledger[m].charge.output = a.usage.output

\* A response that passed the registry's checks never exceeds its reservation,
\* whatever part of its input was cached: settle() refuses it for want of
\* authority only.
UsageCovered ==
    \A p \in Provers : runs[p].pc = "settle" =>
        LET charge == ledger[runs[p].n].charge
            usage == runs[p].usage
        IN  /\ usage.input <= charge.input
            /\ usage.output <= charge.output
            /\ CostOf(runs[p].auth.approval.rates, usage) <= charge.cost

\* An open reservation belongs to a call in progress, which alone ends it, or
\* its process is gone: no failure of a step leaks budget.
NoOrphans ==
    /\ \A n \in DOMAIN ledger :
           ledger[n].type = "reserved" /\ Ends(n) = {} /\ n \notin lost
           => \E p \in Provers : Holding(p) /\ runs[p].n = n
    /\ \A p, q \in Provers : Holding(p) /\ Holding(q) /\ runs[p].n = runs[q].n => p = q

\* docs/model-provider-policy.md: "Only the four provider-health codes above
\* write failure events", one per attempt: denials, mismatches and refused
\* settlements never open the circuit.
CircuitJustified ==
    \A k \in DOMAIN health :
        /\ \E m \in Ends(health[k].reservation) :
               IF health[k].type = "success" THEN ledger[m].type = "settled"
               ELSE ledger[m].type = "abandoned" /\ ledger[m].reason \in HealthCodes
        /\ \A j \in DOMAIN health : health[j].reservation = health[k].reservation => j = k

\* No failure, race or retry breaks the link between a call and its accounting.
CallsAccounted == AnswersSettled /\ UsageCovered /\ NoOrphans

\* Every generate() ends, and with it its reservation.
CallsEnd == \A p \in Provers : runs[p] # None ~> runs[p] = None

\* preflight(): "a revocation racing with a probe still prevents generation".
RevocationStopsGeneration ==
    [][\A i \in DOMAIN called' \ DOMAIN called : ~Revoked(ledger[called'[i]].auth)]_rvars
=============================================================================
