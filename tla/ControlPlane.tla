---------------------------- MODULE ControlPlane ----------------------------
(***************************************************************************)
(* The control plane's command service                                     *)
(* (packages/control_plane/src/autolean_control_plane/service.py) over the *)
(* lease store and the event store.                                        *)
(*                                                                         *)
(* Any number of service processes share the SQLite file; each call in     *)
(* progress is a member of Callers.  A handler is cut at every point where *)
(* another process can get between two of its database accesses:           *)
(*                                                                         *)
(*   claim       lookup, binding | lease transaction | sequence | append   *)
(*   evidence    lookup, checks, artifact | fenced append                  *)
(*   register    lookup, checks, artifact | registration append            *)
(*                                                                         *)
(* A handler that raises leaves every table as it was and its call ends;   *)
(* one that raises before its first write is simply not a step.  A process *)
(* may die between any two steps.  Delivery is at-least-once: a command    *)
(* may be delivered again at any time, concurrently with itself.           *)
(***************************************************************************)
EXTENDS EventStore

CONSTANTS
    Callers,        \* calls that can be in progress at once
    DirectVerifier  \* allow_test_only_direct_verifier_attestations

ASSUME DirectAssumption == DirectVerifier \in BOOLEAN

VARIABLES
    calls,        \* caller -> Idle or the handler's locals
    artifacts,    \* documents in the content-addressed store
    attestations, \* what the signing gateway has signed
    replies       \* what clients have been answered (history)

serviceVars == <<calls, artifacts, attestations, replies>>
vars == <<leaseVars, storeVars, serviceVars>>

Idle == [pc |-> "idle"]

Call == [pc: {"lease", "sequence", "commit"}, req: Requests, lease: Lease,
         expected: Nat, since: Nat]

\* Stands for "no lease yet" in the commands that take none.
Blank(req) == [job |-> req.bundle, holder |-> req.worker, token |-> 0, expires |-> 0]

\* The typed document a command stores; the store names it by its content.
Document(req) ==
    [op |-> req.op, bundle |-> req.bundle, id |-> req.id,
     contract |-> req.contract, nonce |-> req.nonce, ok |-> req.ok]

Init ==
    /\ LeaseInit
    /\ StoreInit
    /\ calls = [c \in Callers |-> Idle]
    /\ artifacts = {}
    /\ attestations = {}
    /\ replies = {}

Start(c, req, pc, lease) ==
    /\ calls[c] = Idle
    /\ ~Recorded(req)
    /\ calls' = [calls EXCEPT ![c] = [pc |-> pc, req |-> req, lease |-> lease,
                                      expected |-> 0, since |-> clock]]

\* The handler returns to its client.
Return(c, lease, event) ==
    /\ calls' = [calls EXCEPT ![c] = Idle]
    /\ replies' = replies \cup
           {[req |-> calls[c].req, lease |-> lease, event |-> event]}

\* The handler raises, or its process dies: only its locals are lost.
Drop(c) ==
    /\ calls[c] # Idle
    /\ calls' = [calls EXCEPT ![c] = Idle]
    /\ UNCHANGED <<leaseVars, storeVars, artifacts, attestations, replies>>

-----------------------------------------------------------------------------
(* The first step of each command *)

\* A command found under its idempotency key is answered from its event; a
\* claim's receipt is rebuilt from the event payload.
Replay(req, lease) ==
    \E record \in idempotency_records :
        /\ Replays(record, req, lease)
        /\ LET event == record.event
               answer == IF req.op = "claim"
                         THEN [job |-> req.bundle, holder |-> event.req.worker,
                               token |-> event.token, expires |-> event.expires]
                         ELSE Blank(req)
           IN  replies' = replies \cup
                   {[req |-> req, lease |-> answer, event |-> event]}
        /\ UNCHANGED <<leaseVars, storeVars, calls, artifacts, attestations>>

\* _verify_builder_attestation and _verify_builder_fidelity_artifact accept
\* the handoff.
BuilderAuthority(req) == req.ok

\* register_bundle: Builder authority is checked and the bundle is stored.
BeginRegister(c, req) ==
    /\ req.op = "register"
    /\ BuilderAuthority(req)
    /\ Start(c, req, "commit", Blank(req))
    /\ artifacts' = artifacts \cup {Document(req)}
    /\ UNCHANGED <<leaseVars, storeVars, attestations, replies>>

\* claim: the bundle must be registered.
BeginClaim(c, req) ==
    /\ req.op = "claim"
    /\ \E event \in events : Registration(event, req.bundle)
    /\ Start(c, req, "lease", Blank(req))
    /\ UNCHANGED <<leaseVars, storeVars, artifacts, attestations, replies>>

\* The document binds the contract the bundle was registered with.
BindsContract(req) ==
    \E event \in events :
        /\ Registration(event, req.bundle)
        /\ event.req.contract = req.contract

\* _proof_event and the proof half of _validate_verification_binding.  The
\* proof's own bundle_id is not compared.
ProofSubmitted(req) ==
    \E event \in events :
        /\ event.req.op = "submit"
        /\ event.req.id = req.id
        /\ event.req.contract = req.contract

\* _verify_verification_attestation: the gateway signed this report for this
\* exact lease and the signature, which ends with the lease, has not lapsed.
Attested(req, lease) ==
    \/ DirectVerifier
    \/ /\ [report |-> Document(req), lease |-> lease] \in attestations
       /\ Live(lease, clock)

\* verify_submission up to the report's artifact: the proof, then the
\* attestation; a report that fails a gate is recorded as a rejection.
VerifyAdmissible(req, lease) == ProofSubmitted(req) /\ Attested(req, lease)

\* submit_proof, report_gap, request_contract_change and verify_submission up
\* to the fenced append.
BeginEvidence(c, req, lease) ==
    /\ req.op \in EvidenceOps
    /\ FenceHolds(req, lease)
    /\ BindsContract(req)
    /\ req.op = "submit" => req.ok
    /\ req.op = "verify" => VerifyAdmissible(req, lease)
    /\ Start(c, req, "commit", lease)
    /\ artifacts' = artifacts \cup {Document(req)}
    /\ UNCHANGED <<leaseVars, storeVars, attestations, replies>>

-----------------------------------------------------------------------------
(* claim: the lease transaction, then the sequence read *)

LeaseStep(c, lease) ==
    /\ calls' = [calls EXCEPT ![c].pc = "sequence", ![c].lease = lease]
    /\ UNCHANGED <<storeVars, artifacts, attestations, replies>>

\* leases.claim() samples the clock somewhere between the lookup and here.
ClaimLease(c) ==
    /\ calls[c].pc = "lease"
    /\ \E now \in calls[c].since .. clock :
           LET job == calls[c].req.bundle
               holder == calls[c].req.worker
           IN  \/ /\ ClaimFresh(job, holder, now)
                  /\ LeaseStep(c, NewLease(job, holder, now))
               \/ /\ ClaimAgain(job, holder, now)
                  /\ \E row \in worker_leases :
                         row.job = job /\ LeaseStep(c, row)
               \/ /\ Unavailable(job, holder, now)
                  /\ Drop(c)

ReadSequence(c) ==
    /\ calls[c].pc = "sequence"
    /\ calls' = [calls EXCEPT ![c].pc = "commit",
                     ![c].expected = entity_versions[Entity(calls[c].req)]]
    /\ UNCHANGED <<leaseVars, storeVars, artifacts, attestations, replies>>

-----------------------------------------------------------------------------
(* The transaction that ends each command *)

\* A concurrent delivery of the same command committed first: its event is
\* returned.  claim() pairs that event with the lease IT was granted.
ReturnRecorded(c) ==
    /\ calls[c].pc = "commit"
    /\ \E record \in idempotency_records :
           /\ Replays(record, calls[c].req, calls[c].lease)
           /\ calls[c].req.op = "register" => RegistrationMatches(record)
           /\ Return(c, IF calls[c].req.op = "claim" THEN calls[c].lease
                        ELSE Blank(calls[c].req), record.event)
    /\ UNCHANGED <<leaseVars, storeVars, artifacts, attestations>>

CommitClaim(c) ==
    /\ calls[c].pc = "commit"
    /\ calls[c].req.op = "claim"
    /\ AppendUnfenced(calls[c].req, calls[c].lease, calls[c].expected)
    /\ Return(c, calls[c].lease,
              NewEvent(calls[c].req, calls[c].lease, calls[c].expected))
    /\ UNCHANGED <<leaseVars, artifacts, attestations>>

CommitEvidence(c) ==
    /\ calls[c].pc = "commit"
    /\ calls[c].req.op \in EvidenceOps
    /\ AppendFenced(calls[c].req, calls[c].lease)
    /\ Return(c, Blank(calls[c].req), NewEvent(calls[c].req, calls[c].lease, 0))
    /\ UNCHANGED <<leaseVars, artifacts, attestations>>

CommitRegister(c) ==
    /\ calls[c].pc = "commit"
    /\ calls[c].req.op = "register"
    /\ \/ /\ AppendRegistration(calls[c].req, calls[c].lease)
          /\ Return(c, Blank(calls[c].req), NewEvent(calls[c].req, calls[c].lease, 0))
       \/ \E row \in revision_bindings :
              /\ LinkRegistration(calls[c].req, calls[c].lease, row)
              /\ Return(c, Blank(calls[c].req), row.event)
    /\ UNCHANGED <<leaseVars, artifacts, attestations>>

-----------------------------------------------------------------------------
(* The verifier signing gateway, as far as verify_submission depends on it  *)

\* issue(): a signature with a fresh nonce, for the exact lease row of a live
\* lease and a proof submitted for the same bundle.  The step stands for the
\* last _assert_authoritative_binding; the requests issue() rejects, or signs
\* and then withholds, are the steps not taken.
Sign(req, lease) ==
    /\ req.op = "verify"
    /\ lease \in worker_leases
    /\ lease.job = req.bundle
    /\ Live(lease, clock)
    /\ BindsContract(req)
    /\ ProofSubmitted(req)
    /\ \E event \in events : event.req.op = "submit" /\ event.req.id = req.id
                             /\ event.req.bundle = req.bundle
    /\ \A a \in attestations : a.report.nonce # req.nonce
    /\ attestations' = attestations \cup {[report |-> Document(req), lease |-> lease]}
    /\ UNCHANGED <<leaseVars, storeVars, calls, artifacts, replies>>

-----------------------------------------------------------------------------

\* A lease a client can present: one some claim has answered with, renewed
\* or not.
Held(lease) ==
    /\ lease \in granted
    /\ \E reply \in replies :
           reply.req.op = "claim" /\ SameFence(reply.lease, lease)

LeaseApi ==
    /\ \/ Tick
       \/ \E lease \in granted :
              /\ Held(lease)
              /\ \/ \E now \in SampledSince(lease) : Renew(lease, now)
                 \/ ReleaseCheck(lease)
       \/ \E lease \in releasing : ReleaseDelete(lease)
    /\ UNCHANGED <<storeVars, serviceVars>>

Commands ==
    \E req \in Requests :
        \/ req.op \notin EvidenceOps /\ Replay(req, Blank(req))
        \/ \E lease \in granted :
               Held(lease) /\ req.op \in EvidenceOps /\ Replay(req, lease)
        \/ \E c \in Callers : BeginRegister(c, req) \/ BeginClaim(c, req)
        \/ \E c \in Callers, lease \in granted :
               Held(lease) /\ BeginEvidence(c, req, lease)

Signing == \E req \in Requests, lease \in granted : Sign(req, lease)

Deliver == Commands \/ Signing

Proceed(c) ==
    \/ ClaimLease(c)
    \/ ReadSequence(c)
    \/ ReturnRecorded(c)
    \/ CommitClaim(c)
    \/ CommitEvidence(c)
    \/ CommitRegister(c)
    \/ Drop(c)

\* The control plane's own steps.
Serve == LeaseApi \/ Commands \/ \E c \in Callers : Proceed(c)

Next == LeaseApi \/ Deliver \/ \E c \in Callers : Proceed(c)

Spec == Init /\ [][Next]_vars

-----------------------------------------------------------------------------
(* Properties *)

Evidence == {event \in events : event.req.op \in EvidenceOps}

\* Every table, history and handler local holds values of its type.
TypeOK ==
    /\ LeaseTypeOK
    /\ events \subseteq Event
    /\ head \in Nat
    /\ entity_versions \in [Entities -> Nat]
    /\ \A record \in idempotency_records :
           record.req \in Requests /\ record.event \in events
    /\ \A row \in revision_bindings : row.event \in events
    /\ calls \in [Callers -> Call \cup {Idle}]
    /\ \A reply \in replies :
           reply.req \in Requests /\ reply.event \in events /\ reply.lease \in Lease

\* At-least-once delivery, exactly-once effect.  One idempotency row per scope
\* and key; every event of the log is some command's; and no two commands
\* share an event, except registrations of one handoff under several keys.
ExactlyOnce ==
    /\ \A r, s \in idempotency_records :
           r.req.op = s.req.op /\ r.req.key = s.req.key => r = s
    /\ \A event \in events :
           \E r \in idempotency_records : r.event = event /\ r.req = event.req
    /\ \A r, s \in idempotency_records :
           r.event = s.event /\ r.event.req.op # "register" => r = s

\* All answers ever given to one command name the same event, whichever
\* delivery raced with, crashed before or came after which.
RepliesAgree ==
    \A p, q \in replies :
        p.req.op = q.req.op /\ p.req.key = q.req.key => p.event = q.event

\* However often a command is delivered, concurrently with itself, after its
\* lease expired or after a crash, it has one effect and one answer.
DeliverySound == ExactlyOnce /\ RepliesAgree

\* Fencing as the log shows it: once evidence of a bundle is recorded under a
\* token, nothing is recorded later under an older one.
EvidenceInFenceOrder ==
    \A e, f \in Evidence :
        e.req.bundle = f.req.bundle /\ e.pos < f.pos => e.token <= f.token

\* "its old token cannot submit evidence once a newer lease has been issued"
\* (docs/protocol.md): evidence enters the log only under the newest
\* token of its bundle and while that lease is live.
StaleFenceSilenced ==
    [][\A e \in Evidence' \ Evidence :
          /\ e.token = lease_counters[e.req.bundle]
          /\ \E row \in worker_leases :
                 row.job = e.req.bundle /\ row.token = e.token /\ Live(row, clock)]_vars

\* A proof has at most one verdict, and a verdict is about a proof submitted
\* before it for the same bundle, although verify_submission never compares
\* the proof's bundle_id: contract revisions bind one bundle each.
VerdictSound ==
    \A v \in events : v.req.op = "verify" =>
        /\ \A w \in events : w.req.op = "verify" /\ w.req.id = v.req.id => w = v
        /\ \E p \in events :
               /\ p.req.op = "submit" /\ p.req.id = v.req.id
               /\ p.req.bundle = v.req.bundle
               /\ p.pos < v.pos

\* "One (contract_id, revision) can bind only one bundle ID and handoff hash":
\* reopening the store after a crash at any point never raises ProjectionError,
\* and a database that lost the binding table, or predates it, gets back the
\* very rows its registrations wrote.
ReopenSucceeds ==
    /\ ~OpenRaises(revision_bindings)
    /\ ~OpenRaises({})
    /\ Backfilled({}) = revision_bindings

\* An attestation is spent by at most one event.
NonceSpentOnce ==
    \A e, f \in events : NoncesOf(e.req) \cap NoncesOf(f.req) # {} => e = f

\* The log never refers to a document that a crash kept from being stored.
DocumentsStored ==
    \A e \in events : e.req.op # "claim" => Document(e.req) \in artifacts

\* Streams are gapless: entity_versions counts the events of each stream and
\* their sequence numbers are distinct.
StreamsGapless ==
    /\ \A e \in events : e.seq \in 1 .. entity_versions[Entity(e.req)]
    /\ \A e, f \in events : Entity(e.req) = Entity(f.req) /\ e.seq = f.seq => e = f
    /\ \A x \in Entities : \A n \in 1 .. entity_versions[x] :
           \E e \in events : Entity(e.req) = x /\ e.seq = n

\* The log is whole at every moment, whatever crashed when: no stream has a
\* gap and no event names a document that is not stored.
LogWhole == StreamsGapless /\ DocumentsStored

\* The evidence of the log, seen as an abstract ledger.
Entry(event) ==
    [op |-> event.req.op, id |-> event.req.id, bundle |-> event.req.bundle,
     token |-> event.token]

Ledger == INSTANCE FencedLedger WITH
    Bundles <- Jobs,
    fence <- lease_counters,
    ledger <- {Entry(event) : event \in Evidence}

\* The whole service, with its leases, races, retries and crashes, behaves
\* towards its clients as the fenced ledger.
ImplementsLedger == Ledger!LedgerSpec

\* docs/protocol.md, claim: "Records task claim; gives temporary authority to
\* submit evidence for that bundle".  Evidence recorded under a token follows
\* the task.claimed event of that token.
EvidenceFollowsItsClaim ==
    \A e \in Evidence :
        \E k \in events :
            /\ k.req.op = "claim" /\ k.req.bundle = e.req.bundle
            /\ k.token = e.token
            /\ k.pos < e.pos
=============================================================================
