------------------------- MODULE ControlPlaneProofs -------------------------
(***************************************************************************)
(* Proofs about the command service, for every set of commands, callers,   *)
(* workers and bundles and for every clock behaviour.                      *)
(*                                                                         *)
(* The argument has four layers: the types; the fact that every step of    *)
(* the service is a step of the lease store, which brings the lease        *)
(* invariant along; the invariants of the log; and what the idempotency    *)
(* table makes of deliveries that race, crash or come late.                *)
(***************************************************************************)
EXTENDS ControlPlane, LeaseStoreProofs

TypeInv == TypeOK /\ LeaseInv

-----------------------------------------------------------------------------
(* Typing facts used throughout *)

\* A command names a job, a worker and a stream of the model.
LEMMA RequestTyped ==
  ASSUME NEW req \in Requests
  PROVE  /\ req.bundle \in Jobs /\ req.worker \in Holders
         /\ Blank(req) \in Lease
         /\ Entity(req) \in Entities
  BY RequestAssumption DEF Blank, Lease, Entities

\* A call past its first step has all its locals.
LEMMA CallTyped ==
  ASSUME TypeOK, NEW c \in Callers, calls[c].pc \in {"lease", "sequence", "commit"}
  PROVE  /\ calls[c] \in Call
         /\ calls[c] # Idle
         /\ calls[c].req \in Requests /\ calls[c].lease \in Lease
         /\ calls[c].expected \in Nat /\ calls[c].since \in Nat
  BY DEF TypeOK, Call, Idle

\* The row an append inserts is a row of the events table.
LEMMA NewEventTyped ==
  ASSUME TypeOK, NEW req \in Requests, NEW lease \in Lease, NEW expected \in Nat
  PROVE  NewEvent(req, lease, expected) \in Event
  BY RequestTyped DEF TypeOK, NewEvent, Event, Lease

-----------------------------------------------------------------------------
(* Every step of the service is a step of the lease store, or none. *)

\* A step of the service changes the lease tables as LeaseStore allows, or not.
LEMMA NextIsLeaseStep ==
  ASSUME TypeOK, Next
  PROVE  [LeaseNext]_leaseVars
  <1>1. CASE LeaseApi
    BY <1>1 DEF LeaseApi, LeaseNext, LeaseRenew, LeaseRelease
  <1>2. CASE Deliver
    BY <1>2 DEF Deliver, Commands, Signing, Replay, BeginRegister, BeginClaim, BeginEvidence, Sign
  <1>3. ASSUME NEW c \in Callers, Proceed(c)
        PROVE  [LeaseNext]_leaseVars
    <2>1. CASE ClaimLease(c)
      <3>1. calls[c].pc = "lease"
        BY <2>1 DEF ClaimLease
      <3>2. calls[c].req.bundle \in Jobs /\ calls[c].req.worker \in Holders
            /\ calls[c].since \in Nat
        BY <3>1, CallTyped, RequestTyped
      <3>3. PICK now \in calls[c].since .. clock :
               \/ ClaimFresh(calls[c].req.bundle, calls[c].req.worker, now)
               \/ ClaimAgain(calls[c].req.bundle, calls[c].req.worker, now)
               \/ Drop(c)
        BY <2>1 DEF ClaimLease
      <3>4. now \in 0 .. clock
        BY <3>2 DEF TypeOK, LeaseTypeOK
      <3>5. CASE Drop(c)
        BY <3>5 DEF Drop
      <3> QED
        BY <3>2, <3>3, <3>4, <3>5 DEF LeaseNext, LeaseClaim
    <2>2. CASE ReadSequence(c) \/ ReturnRecorded(c) \/ CommitClaim(c)
               \/ CommitEvidence(c) \/ CommitRegister(c) \/ Drop(c)
      BY <2>2 DEF ReadSequence, ReturnRecorded, CommitClaim, CommitEvidence,
         CommitRegister, Drop
    <2> QED
      BY <1>3, <2>1, <2>2 DEF Proceed
  <1> QED
    BY <1>1, <1>2, <1>3 DEF Next

-----------------------------------------------------------------------------
(* Types *)

\* The empty database is typed.
LEMMA InitTypeInv == Init => TypeInv
  <1> SUFFICES ASSUME Init PROVE TypeInv
    OBVIOUS
  <1>1. LeaseInv
    BY LeaseInitInv DEF Init
  <1>2. TypeOK
    BY <1>1 DEF Init, StoreInit, TypeOK, LeaseInv
  <1> QED
    BY <1>1, <1>2 DEF TypeInv

\* The service part of TypeOK, the part the lease store does not give.
ServiceTypeOK ==
    /\ events \subseteq Event
    /\ head \in Nat
    /\ entity_versions \in [Entities -> Nat]
    /\ \A record \in idempotency_records :
           record.req \in Requests /\ record.event \in events
    /\ \A row \in revision_bindings : row.event \in events
    /\ calls \in [Callers -> Call \cup {Idle}]
    /\ \A reply \in replies :
           reply.req \in Requests /\ reply.event \in events /\ reply.lease \in Lease

\* The locals a new call starts with are typed.
LEMMA StartType ==
  ASSUME TypeOK, NEW c \in Callers, NEW req \in Requests, NEW lease \in Lease,
         NEW pc \in {"lease", "sequence", "commit"}, Start(c, req, pc, lease)
  PROVE  calls' \in [Callers -> Call \cup {Idle}]
  BY DEF TypeOK, LeaseTypeOK, Start, Call

\* Delivering a command keeps tables, calls and replies typed.
LEMMA DeliverType ==
  ASSUME TypeOK, Deliver
  PROVE  ServiceTypeOK'
  <1>1. PICK req \in Requests :
          \/ req.op \notin EvidenceOps /\ Replay(req, Blank(req))
          \/ \E lease \in granted :
                 Held(lease) /\ req.op \in EvidenceOps /\ Replay(req, lease)
          \/ \E c \in Callers : BeginRegister(c, req) \/ BeginClaim(c, req)
          \/ \E c \in Callers, lease \in granted :
                 Held(lease) /\ BeginEvidence(c, req, lease)
          \/ \E lease \in granted : Sign(req, lease)
    BY DEF Deliver, Commands, Signing
  <1>2. ASSUME NEW lease, Replay(req, lease) PROVE ServiceTypeOK'
    <2>1. PICK record \in idempotency_records :
            LET event == record.event
                answer == IF req.op = "claim"
                          THEN [job |-> req.bundle, holder |-> event.req.worker,
                                token |-> event.token, expires |-> event.expires]
                          ELSE Blank(req)
            IN  replies' = replies \cup
                    {[req |-> req, lease |-> answer, event |-> event]}
      BY <1>2 DEF Replay
    <2>2. record.event \in events /\ record.event.req \in Requests
          /\ record.event.token \in Nat /\ record.event.expires \in Nat
      BY DEF TypeOK, Event
    <2>3. record.event.req.worker \in Holders /\ req.bundle \in Jobs /\ Blank(req) \in Lease
      BY <2>2, RequestTyped
    <2>4. \A reply \in replies' : reply.req \in Requests /\ reply.event \in events
                                  /\ reply.lease \in Lease
      BY <2>1, <2>2, <2>3 DEF TypeOK, Lease
    <2> QED
      BY <1>2, <2>4 DEF Replay, storeVars, TypeOK, ServiceTypeOK
  <1>3. ASSUME NEW c \in Callers, BeginRegister(c, req) \/ BeginClaim(c, req)
        PROVE  ServiceTypeOK'
    <2>1. calls' \in [Callers -> Call \cup {Idle}]
      BY <1>3, StartType, RequestTyped DEF BeginRegister, BeginClaim
    <2> QED
      BY <1>3, <2>1 DEF BeginRegister, BeginClaim, storeVars, TypeOK, ServiceTypeOK
  <1>4. ASSUME NEW c \in Callers, NEW lease \in granted, BeginEvidence(c, req, lease)
        PROVE  ServiceTypeOK'
    <2>1. lease \in Lease
      BY DEF TypeOK, LeaseTypeOK
    <2>2. calls' \in [Callers -> Call \cup {Idle}]
      BY <1>4, <2>1, StartType DEF BeginEvidence
    <2> QED
      BY <1>4, <2>2 DEF BeginEvidence, storeVars, TypeOK, ServiceTypeOK
  <1>5. ASSUME NEW lease, Sign(req, lease) PROVE ServiceTypeOK'
    BY <1>5 DEF Sign, storeVars, TypeOK, ServiceTypeOK
  <1> QED
    BY <1>1, <1>2, <1>3, <1>4, <1>5

\* What a return does to the calls and the replies.
LEMMA ReturnType ==
  ASSUME TypeOK, NEW c \in Callers, calls[c].req \in Requests,
         NEW lease \in Lease, NEW event \in events', events \subseteq events',
         Return(c, lease, event)
  PROVE  /\ calls' \in [Callers -> Call \cup {Idle}]
         /\ \A reply \in replies' :
                reply.req \in Requests /\ reply.event \in events' /\ reply.lease \in Lease
  BY DEF TypeOK, Return

\* What an append does to the tables.
LEMMA AppendType ==
  ASSUME TypeOK, NEW req \in Requests, NEW lease \in Lease, NEW expected \in Nat,
         AppendLocked(req, lease, expected)
  PROVE  /\ events' \subseteq Event /\ events \subseteq events'
         /\ NewEvent(req, lease, expected) \in events'
         /\ head' \in Nat
         /\ entity_versions' \in [Entities -> Nat]
         /\ \A record \in idempotency_records' :
                record.req \in Requests /\ record.event \in events'
  <1>1. NewEvent(req, lease, expected) \in Event
    BY NewEventTyped
  <1>2. Entity(req) \in Entities
    BY RequestTyped
  <1> QED
    BY <1>1, <1>2 DEF TypeOK, AppendLocked, NewRecord

\* Every later step of a handler keeps tables, calls and replies typed.
LEMMA ProceedType ==
  ASSUME TypeOK, NEW c \in Callers, Proceed(c)
  PROVE  ServiceTypeOK'
  <1>1. CASE Drop(c)
    BY <1>1 DEF Drop, storeVars, TypeOK, ServiceTypeOK
  <1>2. CASE ClaimLease(c)
    <2>1. calls[c].pc = "lease"
      BY <1>2 DEF ClaimLease
    <2>2. calls[c] \in Call /\ calls[c].req.bundle \in Jobs
          /\ calls[c].req.worker \in Holders /\ calls[c].since \in Nat
      BY <2>1, CallTyped, RequestTyped
    <2>3. ASSUME NEW lease \in Lease, LeaseStep(c, lease)
          PROVE  ServiceTypeOK'
      <3>1. calls' \in [Callers -> Call \cup {Idle}]
        BY <2>2, <2>3 DEF LeaseStep, TypeOK, Call
      <3> QED
        BY <2>3, <3>1 DEF LeaseStep, storeVars, TypeOK, ServiceTypeOK
    <2>4. PICK now \in calls[c].since .. clock :
            \/ LeaseStep(c, NewLease(calls[c].req.bundle, calls[c].req.worker, now))
            \/ \E row \in worker_leases : LeaseStep(c, row)
            \/ Drop(c)
      BY <1>2 DEF ClaimLease
    <2>5. NewLease(calls[c].req.bundle, calls[c].req.worker, now) \in Lease
      BY <2>2, LeaseAssumption DEF TypeOK, LeaseTypeOK, NewLease, Lease
    <2>6. worker_leases \subseteq Lease
      BY DEF TypeOK, LeaseTypeOK
    <2> QED
      BY <1>1, <2>3, <2>4, <2>5, <2>6
  <1>3. CASE ReadSequence(c)
    <2>1. calls[c].pc = "sequence"
      BY <1>3 DEF ReadSequence
    <2>2. calls[c] \in Call /\ calls[c].req \in Requests
      BY <2>1, CallTyped
    <2>3. entity_versions[Entity(calls[c].req)] \in Nat
      BY <2>2, RequestTyped DEF TypeOK
    <2>4. calls' \in [Callers -> Call \cup {Idle}]
      BY <1>3, <2>2, <2>3 DEF ReadSequence, TypeOK, Call
    <2> QED
      BY <1>3, <2>4 DEF ReadSequence, storeVars, TypeOK, ServiceTypeOK
  <1>4. CASE calls[c].pc = "commit"
    <2>0. calls[c].req \in Requests /\ calls[c].lease \in Lease
          /\ Blank(calls[c].req) \in Lease /\ calls[c].expected \in Nat
      BY <1>4, CallTyped, RequestTyped
    <2>1. CASE ReturnRecorded(c)
      <3>1. PICK record \in idempotency_records :
              Return(c, IF calls[c].req.op = "claim" THEN calls[c].lease
                        ELSE Blank(calls[c].req), record.event)
        BY <2>1 DEF ReturnRecorded
      <3>2. UNCHANGED storeVars /\ record.event \in events
        BY <2>1 DEF ReturnRecorded, TypeOK
      <3>3. record.event \in events' /\ events \subseteq events'
        BY <3>2 DEF storeVars
      <3>4. (IF calls[c].req.op = "claim" THEN calls[c].lease
             ELSE Blank(calls[c].req)) \in Lease
        BY <2>0
      <3> QED
        BY <2>0, <3>1, <3>2, <3>3, <3>4, ReturnType DEF storeVars, TypeOK, ServiceTypeOK
    <2>2. CASE CommitClaim(c) \/ CommitEvidence(c)
      <3>1. PICK lease \in Lease, expected \in Nat :
              /\ AppendLocked(calls[c].req, calls[c].lease, expected)
              /\ UNCHANGED revision_bindings
              /\ Return(c, lease, NewEvent(calls[c].req, calls[c].lease, expected))
        BY <2>0, <2>2 DEF CommitClaim, CommitEvidence, AppendUnfenced, AppendFenced
      <3> QED
        BY <2>0, <3>1, AppendType, ReturnType DEF TypeOK, ServiceTypeOK
    <2>3. CASE CommitRegister(c) /\ AppendRegistration(calls[c].req, calls[c].lease)
               /\ Return(c, Blank(calls[c].req), NewEvent(calls[c].req, calls[c].lease, 0))
      <3>1. AppendLocked(calls[c].req, calls[c].lease, 0)
            /\ revision_bindings' = revision_bindings \cup
                {NewBinding(calls[c].req, NewEvent(calls[c].req, calls[c].lease, 0))}
        BY <2>3 DEF AppendRegistration
      <3>2. \A row \in revision_bindings' : row.event \in events'
        BY <2>0, <3>1, AppendType DEF TypeOK, NewBinding
      <3> QED
        BY <2>0, <2>3, <3>1, <3>2, AppendType, ReturnType DEF TypeOK, ServiceTypeOK
    <2>4. ASSUME NEW row \in revision_bindings,
                 LinkRegistration(calls[c].req, calls[c].lease, row),
                 Return(c, Blank(calls[c].req), row.event)
          PROVE  ServiceTypeOK'
      <3>1. row.event \in events' /\ events' = events
        BY <2>4 DEF LinkRegistration, TypeOK
      <3>2. \A record \in idempotency_records' :
                record.req \in Requests /\ record.event \in events'
        BY <2>0, <2>4, <3>1 DEF LinkRegistration, NewRecord, TypeOK
      <3> QED
        BY <2>0, <2>4, <3>1, <3>2, ReturnType DEF LinkRegistration, TypeOK, ServiceTypeOK
    <2>5. CASE CommitRegister(c)
      BY <2>5, <2>3, <2>4 DEF CommitRegister
    <2>6. CASE Drop(c)
      BY <2>6, <1>1
    <2> QED
      BY <1>2, <1>3, <2>1, <2>2, <2>5, <2>6 DEF Proceed
  <1> QED
    BY <1>1, <1>2, <1>3, <1>4 DEF Proceed, ReturnRecorded, CommitClaim,
       CommitEvidence, CommitRegister

\* Typing and the lease invariant are inductive.
LEMMA NextTypeInv ==
  ASSUME TypeInv, [Next]_vars
  PROVE  TypeInv'
  <1>1. CASE Next
    <2>1. LeaseInv'
      BY <1>1, NextIsLeaseStep, LeaseNextInv DEF TypeInv
    <2>2. ServiceTypeOK'
      <3>1. CASE LeaseApi
        BY <3>1 DEF LeaseApi, storeVars, serviceVars, TypeInv, TypeOK, ServiceTypeOK
      <3> QED
        BY <1>1, <3>1, DeliverType, ProceedType DEF Next, TypeInv
    <2> QED
      BY <2>1, <2>2 DEF TypeInv, TypeOK, ServiceTypeOK, LeaseInv
  <1>2. CASE UNCHANGED vars
    BY <1>2 DEF vars, leaseVars, storeVars, serviceVars, TypeInv, TypeOK, LeaseInv,
       LeaseTypeOK, OneRowPerJob, RowHasNewestToken, TokenNamesOneHolder
  <1> QED
    BY <1>1, <1>2

\* Typing and the lease invariant hold of the service in every reachable state.
THEOREM TypeInvariance == Spec => []TypeInv
  <1>1. TypeInv /\ [Next]_vars => TypeInv'
    BY NextTypeInv
  <1> QED
    BY <1>1, InitTypeInv, PTL DEF Spec

\* Tables, histories and handler locals always have their types.
THEOREM TypeCorrect == Spec => []TypeOK
  <1>1. TypeInv => TypeOK
    BY DEF TypeInv
  <1> QED
    BY <1>1, TypeInvariance, PTL

\* The service uses the lease store only through the steps LeaseStore allows,
\* so everything proved of LeaseSpec holds of the service.
THEOREM ImplementsLeaseStore == Spec => LeaseSpec
  <1>1. TypeInv /\ [Next]_vars => [LeaseNext]_leaseVars
    BY NextIsLeaseStep DEF TypeInv, vars
  <1>2. Init => LeaseInit
    BY DEF Init
  <1> QED
    BY <1>1, <1>2, TypeInvariance, PTL DEF Spec, LeaseSpec

-----------------------------------------------------------------------------
(* The invariants of the log *)

\* Global positions are assigned once, in order.
Positions ==
    /\ \A e \in events : e.pos \in 1 .. head
    /\ \A e, f \in events : e.pos = f.pos => e = f

\* Evidence was recorded under a token its bundle has handed out, for a
\* document that binds the contract its bundle was registered with.
EvidenceBound ==
    \A e \in Evidence :
        /\ e.token \in 1 .. lease_counters[e.req.bundle]
        /\ BindsContract(e.req)

\* What the first step of a call has checked stays true until it commits,
\* because the log and the artifact store only grow.
ChecksHold ==
    \A c \in Callers : calls[c] # Idle =>
        /\ calls[c].req.op # "claim" => Document(calls[c].req) \in artifacts
        /\ calls[c].req.op \in EvidenceOps => BindsContract(calls[c].req)
        /\ calls[c].req.op = "verify" => ProofSubmitted(calls[c].req)

\* The log registers each revision and each bundle once, and the binding table
\* is what the log calls for.
BindingsInv ==
    LET registered == {e \in events : e.req.op = "register"}
    IN  /\ \A e, f \in registered :
               \/ e.req.bundle = f.req.bundle
               \/ RevisionOf[e.req.contract] = RevisionOf[f.req.contract]
               => e = f
        /\ revision_bindings = {NewBinding(e.req, e) : e \in registered}

LogInv ==
    /\ Positions
    /\ StreamsGapless
    /\ EvidenceBound
    /\ EvidenceInFenceOrder
    /\ ChecksHold
    /\ BindingsInv
    /\ VerdictSound
    /\ DocumentsStored

\* The empty log satisfies the invariants of the log.
LEMMA InitLogInv == Init => LogInv
  BY DEF Init, LeaseInit, StoreInit, LogInv, Positions, StreamsGapless, EvidenceBound,
     EvidenceInFenceOrder, Evidence, ChecksHold, BindingsInv, VerdictSound, DocumentsStored

\* The stream version a commit expects, and the row it inserts.
Expected(c) == IF calls[c].req.op = "claim" THEN calls[c].expected ELSE 0
New(c) == NewEvent(calls[c].req, calls[c].lease, Expected(c))

\* A call commits: its transaction appends one event for its command.
Commits(c) ==
    /\ calls[c].pc = "commit"
    /\ CanAppend(calls[c].req, Expected(c))
    /\ AppendLocked(calls[c].req, calls[c].lease, Expected(c))
    /\ UNCHANGED <<leaseVars, artifacts>>
    /\ calls' = [calls EXCEPT ![c] = Idle]
    /\ \/ /\ calls[c].req.op = "claim"
          /\ UNCHANGED revision_bindings
       \/ /\ calls[c].req.op \in EvidenceOps
          /\ FenceHolds(calls[c].req, calls[c].lease)
          /\ UNCHANGED revision_bindings
       \/ /\ calls[c].req.op = "register"
          /\ Bound(calls[c].req) = {}
          /\ revision_bindings' =
                 revision_bindings \cup {NewBinding(calls[c].req, New(c))}

\* Every step appends one command's event or leaves the log alone.
LEMMA LogStep ==
  ASSUME TypeInv, Next
  PROVE  \/ UNCHANGED <<events, head, entity_versions, nonce_uses, revision_bindings>>
         \/ \E c \in Callers : Commits(c)
  <1>1. CASE LeaseApi
    BY <1>1 DEF LeaseApi, storeVars
  <1>2. CASE Deliver
    BY <1>2 DEF Deliver, Commands, Signing, Replay, BeginRegister, BeginClaim, BeginEvidence, Sign, storeVars
  <1>3. ASSUME NEW c \in Callers, Proceed(c)
        PROVE  \/ UNCHANGED <<events, head, entity_versions, nonce_uses, revision_bindings>>
               \/ Commits(c)
    <2>1. CASE ClaimLease(c) \/ ReadSequence(c) \/ ReturnRecorded(c) \/ Drop(c)
      BY <2>1 DEF ClaimLease, LeaseStep, ReadSequence, ReturnRecorded, Drop, storeVars
    <2>2. CASE CommitClaim(c)
      BY <2>2 DEF CommitClaim, AppendUnfenced, Return, Commits, Expected
    <2>3. CASE CommitEvidence(c)
      BY <2>3 DEF CommitEvidence, AppendFenced, Return, Commits, Expected, EvidenceOps
    <2>4. CASE CommitRegister(c)
      BY <2>4 DEF CommitRegister, AppendRegistration, LinkRegistration, Return, Commits,
         Expected, New
    <2> QED
      BY <1>3, <2>1, <2>2, <2>3, <2>4 DEF Proceed
  <1> QED
    BY <1>1, <1>2, <1>3 DEF Next

\* What a commit is about and what it does to the log.
LEMMA CommitFacts ==
  ASSUME TypeInv, NEW c \in Callers, Commits(c)
  PROVE  /\ calls[c].req \in Requests /\ calls[c].lease \in Lease
         /\ calls[c] # Idle
         /\ Entity(calls[c].req) \in Entities
         /\ New(c) \in Event
         /\ events' = events \cup {New(c)}
         /\ head' = head + 1
         /\ entity_versions[Entity(calls[c].req)] = Expected(c)
         /\ entity_versions' =
                [entity_versions EXCEPT ![Entity(calls[c].req)] = @ + 1]
  <1>1. calls[c].req \in Requests /\ calls[c].lease \in Lease /\ calls[c] # Idle
        /\ Expected(c) \in Nat
    BY CallTyped DEF Commits, TypeInv, Expected
  <1>2. entity_versions[Entity(calls[c].req)] = Expected(c)
    BY DEF Commits, CanAppend
  <1> QED
    BY <1>1, <1>2, RequestTyped, NewEventTyped DEF Commits, AppendLocked, New, TypeInv

\* A commit takes the next global position.
LEMMA PositionsStep ==
  ASSUME TypeInv, Positions, NEW c \in Callers, Commits(c)
  PROVE  Positions'
  <1> DEFINE new == New(c)
  <1>1. events' = events \cup {new} /\ head' = head + 1
    BY CommitFacts
  <1>2. new.pos = head + 1
    BY DEF New, NewEvent
  <1> HIDE DEF new
  <1> QED
    BY <1>1, <1>2 DEF Positions, TypeInv, TypeOK, Event

\* A commit appends to the end of its stream, which the version counts.
LEMMA StreamsStep ==
  ASSUME TypeInv, StreamsGapless, NEW c \in Callers, Commits(c)
  PROVE  StreamsGapless'
  <1> DEFINE new == New(c)
             x == Entity(calls[c].req)
  <1>1. /\ events' = events \cup {new}
        /\ entity_versions' = [entity_versions EXCEPT ![x] = @ + 1]
        /\ x \in Entities
    BY CommitFacts
  <1>2. new.seq = entity_versions[x] + 1 /\ Entity(new.req) = x
    BY CommitFacts DEF New, NewEvent
  <1>3. \A e \in events : e.seq \in Nat /\ Entity(e.req) \in Entities
    BY RequestTyped DEF TypeInv, TypeOK, Event
  <1>4. entity_versions \in [Entities -> Nat]
    BY DEF TypeInv, TypeOK
  <1> HIDE DEF new, x
  <1>5. \A e \in events' : e.seq \in 1 .. entity_versions'[Entity(e.req)]
    BY <1>1, <1>2, <1>3, <1>4 DEF StreamsGapless
  <1>6. \A e, f \in events' : Entity(e.req) = Entity(f.req) /\ e.seq = f.seq => e = f
    BY <1>1, <1>2, <1>3, <1>4 DEF StreamsGapless
  <1>7. ASSUME NEW y \in Entities, NEW n \in 1 .. entity_versions'[y]
        PROVE  \E e \in events' : Entity(e.req) = y /\ e.seq = n
    <2>1. CASE n \in 1 .. entity_versions[y]
      BY <2>1, <1>1 DEF StreamsGapless
    <2>2. CASE n \notin 1 .. entity_versions[y]
      BY <2>2, <1>1, <1>2, <1>4
    <2> QED
      BY <2>1, <2>2
  <1> QED
    BY <1>5, <1>6, <1>7 DEF StreamsGapless

\* Registration: the transaction finds the revision and the bundle unbound in
\* a table that mirrors the log, so they are unbound in the log.
LEMMA ReopenStep ==
  ASSUME TypeInv, BindingsInv, NEW c \in Callers, Commits(c)
  PROVE  BindingsInv'
  <1> DEFINE req == calls[c].req
             new == New(c)
             Registered(E) == {e \in E : e.req.op = "register"}
  <1>1. events' = events \cup {new} /\ new.req = req
    BY CommitFacts DEF New, NewEvent
  <1>2. CASE req.op # "register"
    <2>1. Registered(events') = Registered(events) /\ revision_bindings' = revision_bindings
      BY <1>1, <1>2 DEF Commits
    <2> QED
      BY <2>1 DEF BindingsInv
  <1>3. CASE req.op = "register"
    <2>1. /\ Bound(req) = {}
          /\ revision_bindings' = revision_bindings \cup {NewBinding(req, new)}
      BY <1>3 DEF Commits, EvidenceOps
    <2>2. Registered(events') = Registered(events) \cup {new}
      BY <1>1, <1>3
    <2>3. ASSUME NEW e \in Registered(events)
          PROVE  /\ e.req.bundle # req.bundle
                 /\ RevisionOf[e.req.contract] # RevisionOf[req.contract]
      <3>1. NewBinding(e.req, e) \in revision_bindings
        BY DEF BindingsInv
      <3>2. NewBinding(e.req, e).revision = RevisionOf[e.req.contract]
            /\ NewBinding(e.req, e).bundle = e.req.bundle
        BY DEF NewBinding
      <3> QED
        BY <2>1, <3>1, <3>2 DEF Bound
    <2>4. \A e, f \in Registered(events') :
               \/ e.req.bundle = f.req.bundle
               \/ RevisionOf[e.req.contract] = RevisionOf[f.req.contract]
               => e = f
      <3> HIDE DEF new, req
      <3> QED
        BY <1>1, <2>2, <2>3 DEF BindingsInv
    <2>5. revision_bindings' = {NewBinding(e.req, e) : e \in Registered(events')}
      <3>1. revision_bindings = {NewBinding(e.req, e) : e \in Registered(events)}
        BY DEF BindingsInv
      <3> HIDE DEF new, req, Registered
      <3> QED
        BY <1>1, <2>1, <2>2, <3>1
    <2> QED
      BY <2>4, <2>5 DEF BindingsInv, NewBinding
  <1> QED
    BY <1>2, <1>3

\* A fence that holds at the append names the newest token of the bundle.
LEMMA FenceIsNewest ==
  ASSUME TypeInv, NEW req \in Requests, NEW lease \in Lease, FenceHolds(req, lease)
  PROVE  /\ lease.token = lease_counters[req.bundle]
         /\ lease.token \in 1 .. lease_counters[req.bundle]
         /\ \E row \in worker_leases : row.job = req.bundle /\ row.token = lease.token
                                        /\ Live(row, clock)
  <1>1. PICK row \in worker_leases : SameFence(row, lease) /\ Live(row, clock)
    BY DEF FenceHolds, IsCurrent
  <1>2. row \in granted /\ row.token = lease_counters[row.job]
        /\ row.token \in 1 .. lease_counters[row.job]
    BY DEF TypeInv, LeaseInv, RowHasNewestToken
  <1> QED
    BY <1>1, <1>2 DEF FenceHolds, SameFence

\* Counters only advance.
LEMMA CountersAdvance ==
  ASSUME LeaseTypeOK, [LeaseNext]_leaseVars, NEW job \in Jobs
  PROVE  lease_counters'[job] \in Nat /\ lease_counters'[job] >= lease_counters[job]
  <1>1. lease_counters \in [Jobs -> Nat]
    BY DEF LeaseTypeOK
  <1>2. CASE LeaseClaim
    <2>1. PICK j \in Jobs, h \in Holders, now \in 0 .. clock :
             ClaimFresh(j, h, now) \/ ClaimAgain(j, h, now)
      BY <1>2 DEF LeaseClaim
    <2> QED
      BY <1>1, <2>1 DEF ClaimFresh, ClaimAgain, NewLease
  <1>3. CASE Tick \/ LeaseRenew \/ LeaseRelease \/ UNCHANGED leaseVars
    BY <1>1, <1>3 DEF Tick, LeaseRenew, Renew, LeaseRelease, ReleaseCheck,
       ReleaseDelete, leaseVars
  <1> QED
    BY <1>2, <1>3 DEF LeaseNext

\* The log only grows, so what the log shows a call stays shown.
LEMMA ChecksStable ==
  ASSUME events \subseteq events', NEW req
  PROVE  /\ BindsContract(req) => BindsContract(req)'
         /\ ProofSubmitted(req) => ProofSubmitted(req)'
  BY DEF BindsContract, ProofSubmitted

\* Evidence tokens stay within the counter and in order.
LEMMA FenceStep ==
  ASSUME TypeInv, Positions, EvidenceBound, EvidenceInFenceOrder, ChecksHold,
         NEW c \in Callers, Commits(c)
  PROVE  EvidenceBound' /\ EvidenceInFenceOrder'
  <1> DEFINE req == calls[c].req
             new == New(c)
  <1>1. /\ events' = events \cup {new}
        /\ req \in Requests /\ calls[c].lease \in Lease /\ calls[c] # Idle
        /\ lease_counters' = lease_counters
    BY CommitFacts DEF Commits, leaseVars
  <1>2. new.req = req /\ new.token = calls[c].lease.token /\ new.pos = head + 1
    BY DEF New, NewEvent
  <1>3. \A e \in events : BindsContract(e.req) => BindsContract(e.req)'
    BY <1>1, ChecksStable
  <1>4. CASE req.op \notin EvidenceOps
    <2>1. Evidence' = Evidence
      BY <1>1, <1>2, <1>4 DEF Evidence
    <2> QED
      BY <1>1, <1>3, <2>1 DEF EvidenceBound, EvidenceInFenceOrder, Evidence
  <1>5. CASE req.op \in EvidenceOps
    <2>1. FenceHolds(req, calls[c].lease)
      BY <1>5 DEF Commits, EvidenceOps
    <2>2. new.token = lease_counters[req.bundle] /\ new.token \in 1 .. lease_counters[req.bundle]
      BY <1>1, <1>2, <2>1, FenceIsNewest
    <2>r. PICK r : r = req
      OBVIOUS
    <2>3. BindsContract(r)'
      <3>1. BindsContract(r)
        BY <1>1, <1>5, <2>r DEF ChecksHold
      <3> QED
        BY <1>1, <3>1, ChecksStable
    <2>4. Evidence' = Evidence \cup {new}
      BY <1>1, <1>2, <1>5 DEF Evidence
    <2>5. EvidenceBound'
      <3>1. ASSUME NEW e \in Evidence'
            PROVE  e.token \in 1 .. lease_counters'[e.req.bundle] /\ BindsContract(e.req)'
        <4>1. CASE e \in Evidence
          BY <1>1, <1>3, <4>1 DEF EvidenceBound, Evidence
        <4>2. CASE e = new
          <5>1. e.req = r
            BY <1>2, <2>r, <4>2
          <5>2. BindsContract(e.req)'
            BY <2>3, <5>1
          <5> QED
            BY <1>1, <1>2, <2>2, <4>2, <5>2
        <4> QED
          BY <2>4, <4>1, <4>2
      <3> QED
        BY <3>1 DEF EvidenceBound
    <2>6. \A e \in Evidence : /\ e.pos <= head /\ e.pos \in Nat /\ head \in Nat
                              /\ e.token \in 1 .. lease_counters[e.req.bundle]
      BY DEF Positions, EvidenceBound, Evidence, TypeInv, TypeOK
    <2> HIDE DEF new, req
    <2>7. EvidenceInFenceOrder'
      BY <1>2, <2>2, <2>4, <2>6 DEF EvidenceInFenceOrder
    <2> QED
      BY <2>5, <2>7
  <1> QED
    BY <1>4, <1>5

\* A verdict is the first of its proof (its stream was empty) and the proof
\* it found by contract hash belongs to the same bundle (a contract revision
\* is registered once).
LEMMA VerdictStep ==
  ASSUME TypeInv, Positions, StreamsGapless, EvidenceBound, ChecksHold, BindingsInv,
         VerdictSound, NEW c \in Callers, Commits(c)
  PROVE  VerdictSound'
  <1> DEFINE req == calls[c].req
             new == New(c)
  <1>1. /\ events' = events \cup {new}
        /\ req \in Requests /\ calls[c] # Idle
        /\ new.req = req /\ new.pos = head + 1
    BY CommitFacts DEF New, NewEvent
  <1>2. CASE req.op # "verify"
    BY <1>1, <1>2 DEF VerdictSound
  <1>3. CASE req.op = "verify"
    <2>1. entity_versions[Entity(req)] = 0
      BY <1>3 DEF Commits, CanAppend, Expected, EvidenceOps
    <2>2. \A e \in events : Entity(e.req) # Entity(req)
      BY <2>1 DEF StreamsGapless
    <2>3. \A e \in events : ~(e.req.op = "verify" /\ e.req.id = req.id)
      BY <1>3, <2>2 DEF Entity
    <2>4. PICK p \in events : p.req.op = "submit" /\ p.req.id = req.id
                              /\ p.req.contract = req.contract
      BY <1>1, <1>3 DEF ChecksHold, ProofSubmitted
    <2>5. PICK d \in events : Registration(d, req.bundle) /\ d.req.contract = req.contract
      BY <1>1, <1>3 DEF ChecksHold, BindsContract, EvidenceOps
    <2>6. PICK g \in events : Registration(g, p.req.bundle) /\ g.req.contract = p.req.contract
      BY <2>4 DEF EvidenceBound, Evidence, EvidenceOps, BindsContract
    <2>7. p.req.bundle = req.bundle
      BY <2>4, <2>5, <2>6 DEF BindingsInv, Registration
    <2>8. p.pos < new.pos
      BY <1>1 DEF Positions, TypeInv, TypeOK
    <2> HIDE DEF new, req
    <2> QED
      BY <1>1, <1>3, <2>3, <2>4, <2>7, <2>8 DEF VerdictSound
  <1> QED
    BY <1>2, <1>3

\* Neither the log nor the artifact store ever loses anything.
LEMMA StoresGrow ==
  ASSUME TypeInv, Next
  PROVE  events \subseteq events' /\ artifacts \subseteq artifacts'
  <1>1. events \subseteq events'
    BY LogStep, CommitFacts
  <1>2. artifacts \subseteq artifacts'
    <2>1. CASE LeaseApi
      BY <2>1 DEF LeaseApi, serviceVars
    <2>2. CASE Deliver
      BY <2>2 DEF Deliver, Commands, Signing, Replay, BeginRegister, BeginClaim, BeginEvidence, Sign
    <2>3. ASSUME NEW c \in Callers, Proceed(c) PROVE artifacts \subseteq artifacts'
      <3>1. CASE ClaimLease(c)
        BY <3>1 DEF ClaimLease, LeaseStep, Drop
      <3> QED
        BY <2>3, <3>1 DEF Proceed, ReadSequence, ReturnRecorded, Drop,
           CommitClaim, CommitEvidence, CommitRegister
    <2> QED
      BY <2>1, <2>2, <2>3 DEF Next
  <1> QED
    BY <1>1, <1>2

\* A call after a step: one that was there before, with the same command, or
\* one that has just passed the checks of its first step.
LEMMA CallStep ==
  ASSUME TypeInv, Next, NEW d \in Callers, calls'[d] # Idle, NEW r, r = calls'[d].req
  PROVE  \/ calls[d] # Idle /\ calls[d].req = r
         \/ /\ r.op # "claim" => Document(r) \in artifacts'
            /\ r.op \in EvidenceOps => BindsContract(r)
            /\ r.op = "verify" => ProofSubmitted(r)
            /\ r.op = "claim" => \E event \in events : Registration(event, r.bundle)
  <1>0. calls \in [Callers -> Call \cup {Idle}]
    BY DEF TypeInv, TypeOK
  <1>1. CASE UNCHANGED calls
    BY <1>1
  <1>2. CASE LeaseApi
    BY <1>1, <1>2 DEF LeaseApi, serviceVars
  <1>3. CASE Deliver
    <2>1. PICK req \in Requests :
            \/ UNCHANGED calls
            \/ \E c \in Callers : BeginRegister(c, req) \/ BeginClaim(c, req)
            \/ \E c \in Callers, lease \in granted : BeginEvidence(c, req, lease)
      BY <1>3 DEF Deliver, Commands, Signing, Replay, Sign
    <2>2. ASSUME NEW c \in Callers, NEW pc, NEW lease, Start(c, req, pc, lease)
          PROVE  (calls[d] # Idle /\ calls[d].req = r) \/ r = req
      BY <1>0, <2>2 DEF Start
    <2>3. ASSUME NEW c \in Callers, BeginRegister(c, req) \/ BeginClaim(c, req)
          PROVE  (calls[d] # Idle /\ calls[d].req = r)
                 \/ (r = req /\ r.op \notin EvidenceOps
                     /\ (r.op # "claim" => Document(r) \in artifacts')
                     /\ (r.op = "claim" => \E event \in events : Registration(event, r.bundle)))
      BY <2>2, <2>3 DEF BeginRegister, BeginClaim, EvidenceOps
    <2>4. ASSUME NEW c \in Callers, NEW lease \in granted, BeginEvidence(c, req, lease)
          PROVE  (calls[d] # Idle /\ calls[d].req = r)
                 \/ (r = req /\ r.op \in EvidenceOps /\ Document(r) \in artifacts' /\ BindsContract(r)
                     /\ (r.op = "verify" => ProofSubmitted(r)))
      BY <2>2, <2>4 DEF BeginEvidence, VerifyAdmissible
    <2> QED
      BY <1>1, <2>1, <2>3, <2>4 DEF EvidenceOps
  <1>4. ASSUME NEW c \in Callers, Proceed(c)
        PROVE  calls[d] # Idle /\ calls[d].req = r
    <2>1. CASE calls' = [calls EXCEPT ![c] = Idle]
      BY <1>0, <2>1
    <2>2. ASSUME NEW lease, LeaseStep(c, lease), calls[c].pc = "lease"
          PROVE  calls[d] # Idle /\ calls[d].req = r
      <3>1. calls[c] \in Call /\ calls[c] # Idle
        BY <2>2, CallTyped DEF TypeInv
      <3> QED
        BY <1>0, <2>2, <3>1 DEF LeaseStep, Call
    <2>3. CASE ClaimLease(c)
      BY <2>1, <2>2, <2>3 DEF ClaimLease, Drop
    <2>4. CASE ReadSequence(c)
      <3>1. calls[c] \in Call /\ calls[c] # Idle
        BY <2>4, CallTyped DEF TypeInv, ReadSequence
      <3> QED
        BY <1>0, <2>4, <3>1 DEF ReadSequence, Call
    <2>5. CASE ReturnRecorded(c) \/ CommitClaim(c) \/ CommitEvidence(c)
               \/ CommitRegister(c) \/ Drop(c)
      BY <2>1, <2>5 DEF ReturnRecorded, CommitClaim, CommitEvidence, CommitRegister,
         Drop, Return
    <2> QED
      BY <1>4, <2>3, <2>4, <2>5 DEF Proceed
  <1> QED
    BY <1>2, <1>3, <1>4 DEF Next

\* What a call has checked still holds when it commits.
LEMMA ChecksStep ==
  ASSUME TypeInv, ChecksHold, Next
  PROVE  ChecksHold'
  <1> SUFFICES ASSUME NEW d \in Callers, calls'[d] # Idle, NEW r, r = calls'[d].req
               PROVE  /\ r.op # "claim" => Document(r) \in artifacts'
                      /\ r.op \in EvidenceOps => BindsContract(r)'
                      /\ r.op = "verify" => ProofSubmitted(r)'
    BY DEF ChecksHold, BindsContract, ProofSubmitted, Document
  <1>1. events \subseteq events' /\ artifacts \subseteq artifacts'
    BY StoresGrow
  <1>2. /\ r.op # "claim" => Document(r) \in artifacts'
        /\ r.op \in EvidenceOps => BindsContract(r)
        /\ r.op = "verify" => ProofSubmitted(r)
    BY <1>1, CallStep DEF ChecksHold
  <1> QED
    BY <1>1, <1>2, ChecksStable

\* A committed document was stored by the first step of its call.
LEMMA DocumentsStep ==
  ASSUME TypeInv, ChecksHold, DocumentsStored, Next
  PROVE  DocumentsStored'
  <1>1. artifacts \subseteq artifacts'
    BY StoresGrow
  <1>2. CASE UNCHANGED events
    BY <1>1, <1>2 DEF DocumentsStored
  <1>3. ASSUME NEW c \in Callers, Commits(c) PROVE DocumentsStored'
    <2> DEFINE new == New(c)
    <2>1. events' = events \cup {new} /\ calls[c] # Idle /\ new.req = calls[c].req
      BY <1>3, CommitFacts DEF New, NewEvent
    <2>2. new.req.op # "claim" => Document(new.req) \in artifacts
      BY <2>1 DEF ChecksHold
    <2> HIDE DEF new
    <2> QED
      BY <1>1, <2>1, <2>2 DEF DocumentsStored
  <1> QED
    BY <1>2, <1>3, LogStep

\* A step that leaves the log alone leaves its invariants alone: of what they
\* speak about, only the token counters and the artifacts may move, and they grow.
LEMMA QuietStep ==
  ASSUME TypeInv, LogInv, Next,
         UNCHANGED <<events, head, entity_versions, nonce_uses, revision_bindings>>
  PROVE  /\ Positions' /\ StreamsGapless' /\ EvidenceBound' /\ EvidenceInFenceOrder'
         /\ BindingsInv' /\ VerdictSound'
  <1>1. Positions' /\ StreamsGapless' /\ VerdictSound'
    BY DEF LogInv, Positions, StreamsGapless, VerdictSound
  <1>2. EvidenceInFenceOrder'
    BY DEF LogInv, EvidenceInFenceOrder, Evidence
  <1>3. BindingsInv'
    BY DEF LogInv, BindingsInv
  <1>4. EvidenceBound'
    <2>1. ASSUME NEW e \in Evidence'
          PROVE  e.token \in 1 .. lease_counters'[e.req.bundle] /\ BindsContract(e.req)'
      <3>1. e \in Evidence /\ e \in events /\ e.req.bundle \in Jobs
        BY RequestTyped DEF Evidence, TypeInv, TypeOK, Event
      <3>2. e.token \in 1 .. lease_counters[e.req.bundle] /\ BindsContract(e.req)
        BY <3>1 DEF LogInv, EvidenceBound
      <3>3. lease_counters'[e.req.bundle] \in Nat
            /\ lease_counters'[e.req.bundle] >= lease_counters[e.req.bundle]
        BY <3>1, NextIsLeaseStep, CountersAdvance DEF TypeInv, TypeOK
      <3>4. lease_counters[e.req.bundle] \in Nat
        BY <3>1 DEF TypeInv, TypeOK, LeaseTypeOK
      <3>5. BindsContract(e.req)'
        BY <3>2, ChecksStable
      <3> QED
        BY <3>2, <3>3, <3>4, <3>5
    <2> QED
      BY <2>1 DEF EvidenceBound
  <1> QED
    BY <1>1, <1>2, <1>3, <1>4

\* The log's invariants are inductive, given the typing of the tables.
LEMMA NextLogInv ==
  ASSUME TypeInv, LogInv, [Next]_vars
  PROVE  LogInv'
  <1>1. CASE Next
    <2>1. ChecksHold' /\ DocumentsStored'
      BY <1>1, ChecksStep, DocumentsStep DEF LogInv
    <2>2. ASSUME NEW c \in Callers, Commits(c)
          PROVE  /\ Positions' /\ StreamsGapless' /\ EvidenceBound'
                 /\ EvidenceInFenceOrder' /\ BindingsInv' /\ VerdictSound'
      BY <2>2, PositionsStep, StreamsStep, FenceStep, ReopenStep, VerdictStep DEF LogInv
    <2> QED
      BY <1>1, <2>1, <2>2, LogStep, QuietStep DEF LogInv
  <1>2. CASE UNCHANGED vars
    <2> USE <1>2 DEF vars, leaseVars, storeVars, serviceVars, LogInv
    <2>1. Positions' /\ StreamsGapless' /\ VerdictSound' /\ BindingsInv' /\ DocumentsStored'
      BY DEF Positions, StreamsGapless, VerdictSound, BindingsInv, DocumentsStored
    <2>2. EvidenceBound' /\ EvidenceInFenceOrder'
      BY DEF EvidenceBound, EvidenceInFenceOrder, Evidence, BindsContract
    <2>3. ChecksHold'
      BY DEF ChecksHold, BindsContract, ProofSubmitted
    <2> QED
      BY <2>1, <2>2, <2>3
  <1> QED
    BY <1>1, <1>2

\* The typing of the tables and the invariants of the log hold together in
\* every reachable state.
THEOREM LogInvariance == Spec => [](TypeInv /\ LogInv)
  <1>1. TypeInv /\ LogInv /\ [Next]_vars => (TypeInv /\ LogInv)'
    BY NextTypeInv, NextLogInv
  <1>2. Init => TypeInv /\ LogInv
    BY InitTypeInv, InitLogInv
  <1> QED
    BY <1>1, <1>2, PTL DEF Spec

\* Evidence of a bundle is recorded in the order of its fencing tokens.
THEOREM FenceOrder == Spec => []EvidenceInFenceOrder
  <1>1. LogInv => EvidenceInFenceOrder
    BY DEF LogInv
  <1> QED
    BY <1>1, LogInvariance, PTL

\* A proof has one verdict at most, about a proof of its own bundle submitted
\* before it, although verify_submission does not compare the proof's bundle.
THEOREM VerdictsSound == Spec => []VerdictSound
  <1>1. LogInv => VerdictSound
    BY DEF LogInv
  <1> QED
    BY <1>1, LogInvariance, PTL

\* The binding table mirrors the registrations of the log, which bind each
\* contract revision and each bundle once: the store reopens after any crash.
THEOREM StoreReopens == Spec => []ReopenSucceeds
  <1>1. LogInv => ReopenSucceeds
    BY DEF LogInv, BindingsInv, ReopenSucceeds, OpenRaises, Backfilled, ExpectedBindings,
           RegistrationEvents
  <1> QED
    BY <1>1, LogInvariance, PTL

\* Streams have no gap and no duplicate, and every document the log refers to
\* is in the artifact store.
THEOREM LogComplete == Spec => []LogWhole
  <1>1. LogInv => LogWhole
    BY DEF LogInv, LogWhole
  <1> QED
    BY <1>1, LogInvariance, PTL

\* Evidence enters the log only under the newest token of its bundle, while
\* that lease is live: append_fenced re-reads the lease row in its transaction.
THEOREM StaleFenceIsSilenced == Spec => StaleFenceSilenced
  <1> DEFINE Step == \A e \in Evidence' \ Evidence :
                        /\ e.token = lease_counters[e.req.bundle]
                        /\ \E row \in worker_leases :
                               row.job = e.req.bundle /\ row.token = e.token
                               /\ Live(row, clock)
  <1>1. TypeInv /\ [Next]_vars => [Step]_vars
    <2> SUFFICES ASSUME TypeInv, Next PROVE Step
      OBVIOUS
    <2>1. CASE UNCHANGED events
      BY <2>1 DEF Evidence
    <2>2. ASSUME NEW c \in Callers, Commits(c) PROVE Step
      <3> SUFFICES ASSUME NEW e \in Evidence' \ Evidence
                   PROVE  /\ e.token = lease_counters[e.req.bundle]
                          /\ \E row \in worker_leases :
                                 row.job = e.req.bundle /\ row.token = e.token
                                 /\ Live(row, clock)
        OBVIOUS
      <3>1. /\ e = New(c)
            /\ e.req.op \in EvidenceOps
            /\ calls[c].req \in Requests /\ calls[c].lease \in Lease
        BY <2>2, CommitFacts DEF Evidence
      <3>2. e.req = calls[c].req /\ e.token = calls[c].lease.token
        BY <3>1 DEF New, NewEvent
      <3>3. FenceHolds(calls[c].req, calls[c].lease)
        BY <2>2, <3>1, <3>2 DEF Commits, EvidenceOps
      <3> QED
        BY <3>1, <3>2, <3>3, FenceIsNewest
    <2> QED
      BY <2>1, <2>2, LogStep
  <1> QED
    BY <1>1, TypeInvariance, PTL DEF Spec, StaleFenceSilenced

-----------------------------------------------------------------------------
(* Refinement of the fenced ledger *)

Entries == {Entry(event) : event \in Evidence}

\* Counters move one job and one token at a time.
LEMMA CountersStep ==
  ASSUME LeaseTypeOK, [LeaseNext]_leaseVars
  PROVE  \/ UNCHANGED lease_counters
         \/ \E job \in Jobs :
                lease_counters' = [lease_counters EXCEPT ![job] = @ + 1]
  <1>1. CASE LeaseClaim
    <2>1. PICK j \in Jobs, h \in Holders, now \in 0 .. clock :
             ClaimFresh(j, h, now) \/ ClaimAgain(j, h, now)
      BY <1>1 DEF LeaseClaim
    <2> QED
      BY <2>1 DEF ClaimFresh, ClaimAgain, NewLease
  <1>2. CASE Tick \/ LeaseRenew \/ LeaseRelease \/ UNCHANGED leaseVars
    BY <1>2 DEF Tick, LeaseRenew, Renew, LeaseRelease, ReleaseCheck, ReleaseDelete, leaseVars
  <1> QED
    BY <1>1, <1>2 DEF LeaseNext

\* An evidence commit records one entry in the ledger.
LEMMA CommitIsEntry ==
  ASSUME TypeInv, LogInv, VerdictSound', NEW c \in Callers, Commits(c),
         calls[c].req.op \in EvidenceOps
  PROVE  \E e \in Entries' : Ledger!RecordEntry(e)
  <1> DEFINE req == calls[c].req
             new == New(c)
  <1>1. /\ events' = events \cup {new}
        /\ req \in Requests /\ calls[c].lease \in Lease
        /\ lease_counters' = lease_counters
    BY CommitFacts DEF Commits, leaseVars
  <1>2. new.req = req /\ new.token = calls[c].lease.token /\ new.pos = head + 1
    BY DEF New, NewEvent
  <1>3. FenceHolds(req, calls[c].lease) /\ entity_versions[Entity(req)] = 0
    BY DEF Commits, CanAppend, Expected, EvidenceOps
  <1>4. new.token = lease_counters[req.bundle] /\ new.token \in 1 .. lease_counters[req.bundle]
    BY <1>1, <1>2, <1>3, FenceIsNewest
  <1>5. req.bundle \in Jobs
    BY <1>1, RequestTyped
  <1>6. Evidence' = Evidence \cup {new}
    BY <1>1, <1>2 DEF Evidence
  <1>7. Entries' = Entries \cup {Entry(new)}
    <2> HIDE DEF new
    <2> QED
      BY <1>6 DEF Entries
  <1>8. \A f \in Entries : <<f.op, f.id>> # <<req.op, req.id>>
    <2>1. \A f \in events : Entity(f.req) # Entity(req)
      BY <1>3 DEF LogInv, StreamsGapless
    <2>2. \A f \in Evidence : ~(f.req.op = req.op /\ f.req.id = req.id)
      BY <2>1 DEF Evidence, EvidenceOps, Entity
    <2> QED
      BY <2>2 DEF Entries, Entry
  <1>9. req.op = "verify" =>
           \E p \in Entries : p.op = "submit" /\ p.id = req.id /\ p.bundle = req.bundle
    <2> SUFFICES ASSUME req.op = "verify"
                 PROVE \E p \in Entries : p.op = "submit" /\ p.id = req.id
                                          /\ p.bundle = req.bundle
      OBVIOUS
    <2>1. PICK p \in events' : /\ p.req.op = "submit" /\ p.req.id = new.req.id
                               /\ p.req.bundle = new.req.bundle
      <3> HIDE DEF new
      <3> QED
        BY <1>1, <1>2 DEF VerdictSound
    <2>2. p \in Evidence
      BY <1>1, <1>2, <2>1 DEF Evidence, EvidenceOps
    <2>3. Entry(p) \in Entries
      BY <2>2 DEF Entries
    <2> QED
      BY <1>2, <2>1, <2>3 DEF Entry
  <1>10. /\ Entry(new).op = req.op /\ Entry(new).id = req.id
         /\ Entry(new).bundle = req.bundle /\ Entry(new).token = new.token
    BY <1>2 DEF Entry
  <1>11. PICK e : e = Entry(new)
    OBVIOUS
  <1> HIDE DEF new, req
  <1>12. Ledger!RecordEntry(e)
    BY <1>1, <1>4, <1>5, <1>7, <1>8, <1>9, <1>10, <1>11
       DEF Ledger!RecordEntry, Entries
  <1> QED
    BY <1>7, <1>11, <1>12

\* The service implements FencedLedger: a fresh claim advances the fence of
\* its bundle, the commit of an evidence command records an entry under the
\* fence as it then stands, and every other step, crash and retry is invisible.
THEOREM RefinesLedger == Spec => ImplementsLedger
  <1>1. Init => Ledger!LedgerInit
    <2> SUFFICES ASSUME Init PROVE Ledger!LedgerInit
      OBVIOUS
    <2>1. Evidence = {}
      BY DEF Init, StoreInit, Evidence
    <2> QED
      BY <2>1 DEF Init, LeaseInit, Ledger!LedgerInit
  <1>2. TypeInv /\ LogInv /\ LogInv' /\ [Next]_vars =>
          [Ledger!LedgerNext]_<<lease_counters, {Entry(event) : event \in Evidence}>>
    <2> SUFFICES ASSUME TypeInv, LogInv, LogInv', [Next]_vars
                 PROVE  \/ Ledger!LedgerNext
                        \/ UNCHANGED <<lease_counters, Entries>>
      BY DEF Entries
    <2>1. CASE UNCHANGED vars
      BY <2>1 DEF vars, leaseVars, storeVars, Entries, Evidence
    <2>2. CASE Next /\ UNCHANGED events
      <3>1. UNCHANGED Entries
        BY <2>2 DEF Entries, Evidence
      <3>2. \/ UNCHANGED lease_counters
            \/ \E job \in Jobs :
                   lease_counters' = [lease_counters EXCEPT ![job] = @ + 1]
        BY <2>2, NextIsLeaseStep, CountersStep DEF TypeInv, TypeOK
      <3> QED
        BY <3>1, <3>2 DEF Ledger!LedgerNext, Ledger!Advance, Entries
    <2>3. ASSUME NEW c \in Callers, Commits(c)
          PROVE  Ledger!LedgerNext \/ UNCHANGED <<lease_counters, Entries>>
      <3>1. CASE calls[c].req.op \in EvidenceOps
        BY <2>3, <3>1, CommitIsEntry DEF LogInv, Ledger!LedgerNext, Entries
      <3>2. CASE calls[c].req.op \notin EvidenceOps
        <4>1. /\ events' = events \cup {New(c)}
              /\ New(c).req = calls[c].req
              /\ lease_counters' = lease_counters
          BY <2>3, CommitFacts DEF Commits, leaseVars, New, NewEvent
        <4>2. Evidence' = Evidence
          BY <3>2, <4>1 DEF Evidence
        <4> QED
          BY <4>1, <4>2 DEF Entries
      <3> QED
        BY <3>1, <3>2
    <2> QED
      BY <2>1, <2>2, <2>3, LogStep
  <1> QED
    BY <1>1, <1>2, LogInvariance, PTL DEF Spec, ImplementsLedger, Ledger!LedgerSpec

-----------------------------------------------------------------------------
(* Exactly-once effect under at-least-once delivery *)


\* A command other than a registration owns the event its row names: only a
\* retried registration is linked to an event another key has recorded.
RecordsOwnEvents ==
    \A r \in idempotency_records :
        r.event.req.op # "register" => r.req = r.event.req

\* Every answer was given from, or together with, a row of its command.
RepliesRecorded ==
    \A p \in replies : \E r \in idempotency_records :
        r.req.op = p.req.op /\ r.req.key = p.req.key /\ r.event = p.event

\* The nonces of the log's attestations are in the table of spent nonces.
NoncesSpent == \A e \in events : NoncesOf(e.req) \subseteq nonce_uses

DeliveryInv ==
    /\ ExactlyOnce
    /\ RecordsOwnEvents
    /\ RepliesRecorded
    /\ NoncesSpent
    /\ NonceSpentOnce

\* Nothing is recorded; whatever is answered is answered from a row.
Answers ==
    /\ UNCHANGED <<events, idempotency_records, nonce_uses>>
    /\ \A p \in replies' : p \in replies \/
           \E r \in idempotency_records : r.req = p.req /\ r.event = p.event

\* A command without a row gets one, with a new event of its own or, for a
\* retried registration, with the event of the original.
Records(req, event) ==
    /\ ~Recorded(req)
    /\ \E record : /\ record.req = req /\ record.event = event
                   /\ idempotency_records' = idempotency_records \cup {record}
    /\ \A p \in replies' : p \in replies \/ (p.req = req /\ p.event = event)
    /\ \/ /\ events' = events \cup {event}
          /\ event \notin events
          /\ event.req = req
          /\ NoncesOf(req) \cap nonce_uses = {}
          /\ nonce_uses' = nonce_uses \cup NoncesOf(req)
       \/ /\ UNCHANGED <<events, nonce_uses>>
          /\ event \in events
          /\ event.req.op = "register"

\* An appended event is new: its position is beyond the head of the log.
LEMMA AppendIsNew ==
  ASSUME TypeInv, Positions, NEW req, NEW lease, NEW expected
  PROVE  NewEvent(req, lease, expected) \notin events
  BY DEF NewEvent, Positions, TypeInv, TypeOK

\* The two effects a step can have on the tables of delivery.
LEMMA DeliveryStep ==
  ASSUME TypeInv, LogInv, Next
  PROVE  Answers \/ \E req, event : Records(req, event)
  <1>1. CASE UNCHANGED <<storeVars, replies>>
    BY <1>1 DEF Answers, storeVars
  <1>2. CASE LeaseApi
    BY <1>1, <1>2 DEF LeaseApi, serviceVars
  <1>3. CASE Deliver
    <2>1. ASSUME NEW req, NEW lease, Replay(req, lease) PROVE Answers
      BY <2>1 DEF Replay, Replays, SameRequestHash, storeVars, Answers
    <2> QED
      BY <1>1, <1>3, <2>1 DEF Deliver, Commands, Signing, BeginRegister, BeginClaim, BeginEvidence, Sign
  <1>4. ASSUME NEW c \in Callers, Proceed(c)
        PROVE  Answers \/ \E req, event : Records(req, event)
    <2>1. CASE ClaimLease(c) \/ ReadSequence(c) \/ Drop(c)
      BY <1>1, <2>1 DEF ClaimLease, LeaseStep, ReadSequence, Drop
    <2>2. CASE ReturnRecorded(c)
      BY <2>2 DEF ReturnRecorded, Replays, SameRequestHash, Return, storeVars, Answers
    <2>3. ASSUME NEW req, NEW lease, NEW answer, NEW expected,
                 req = calls[c].req, lease = calls[c].lease, calls[c].pc = "commit",
                 ~Recorded(req), CanAppend(req, expected),
                 AppendLocked(req, lease, expected),
                 Return(c, answer, NewEvent(req, lease, expected))
          PROVE  \E r, event : Records(r, event)
      <3>1. PICK event : event = NewEvent(req, lease, expected)
        OBVIOUS
      <3>2. event \notin events
        BY <3>1, AppendIsNew DEF LogInv
      <3>3. event.req = req
        BY <3>1 DEF NewEvent
      <3>4. PICK record : record = NewRecord(req, lease, event)
        OBVIOUS
      <3>5. record.req = req /\ record.event = event
        BY <3>4 DEF NewRecord
      <3>6. /\ idempotency_records' = idempotency_records \cup {record}
            /\ events' = events \cup {event}
            /\ nonce_uses' = nonce_uses \cup NoncesOf(req)
        BY <2>3, <3>1, <3>4 DEF AppendLocked
      <3>7. \A p \in replies' : p \in replies \/ (p.req = req /\ p.event = event)
        BY <2>3, <3>1 DEF Return
      <3>8. Records(req, event)
        BY <2>3, <3>2, <3>3, <3>5, <3>6, <3>7 DEF Records, CanAppend
      <3> QED
        BY <3>8
    <2>4. CASE CommitClaim(c) \/ CommitEvidence(c)
      BY <2>3, <2>4 DEF CommitClaim, CommitEvidence, AppendUnfenced, AppendFenced
    <2>5. ASSUME NEW row \in revision_bindings, calls[c].pc = "commit",
                 LinkRegistration(calls[c].req, calls[c].lease, row),
                 Return(c, Blank(calls[c].req), row.event)
          PROVE  \E r, event : Records(r, event)
      <3>1. row.event \in events /\ row.event.req.op = "register"
        BY DEF LogInv, BindingsInv, NewBinding
      <3>2. PICK record : record = NewRecord(calls[c].req, calls[c].lease, row.event)
        OBVIOUS
      <3>3. record.req = calls[c].req /\ record.event = row.event
            /\ idempotency_records' = idempotency_records \cup {record}
        BY <2>5, <3>2 DEF NewRecord, LinkRegistration
      <3>4. \A p \in replies' : p \in replies \/ (p.req = calls[c].req /\ p.event = row.event)
        BY <2>5 DEF Return
      <3>5. Records(calls[c].req, row.event)
        BY <2>5, <3>1, <3>3, <3>4 DEF Records, LinkRegistration
      <3> QED
        BY <3>5
    <2>6. CASE CommitRegister(c)
      BY <2>3, <2>5, <2>6 DEF CommitRegister, AppendRegistration
    <2> QED
      BY <1>4, <2>1, <2>2, <2>4, <2>6 DEF Proceed
  <1> QED
    BY <1>2, <1>3, <1>4 DEF Next

\* A new row keeps rows and events in correspondence.
LEMMA RecordsExact ==
  ASSUME TypeInv, DeliveryInv, NEW req, NEW event, Records(req, event)
  PROVE  ExactlyOnce' /\ RecordsOwnEvents'
  <1>1. PICK record : /\ record.req = req /\ record.event = event
                      /\ idempotency_records' = idempotency_records \cup {record}
    BY DEF Records
  <1>2. \A r \in idempotency_records : ~(r.req.op = req.op /\ r.req.key = req.key)
    BY DEF Records, Recorded
  <1>3. RecordsOwnEvents'
    BY <1>1 DEF Records, DeliveryInv, RecordsOwnEvents
  <1>4. \A r, s \in idempotency_records' :
           r.req.op = s.req.op /\ r.req.key = s.req.key => r = s
    BY <1>1, <1>2 DEF DeliveryInv, ExactlyOnce
  <1>5. \A e \in events' : \E r \in idempotency_records' : r.event = e /\ r.req = e.req
    BY <1>1 DEF Records, DeliveryInv, ExactlyOnce
  <1>6. \A r, s \in idempotency_records' :
           r.event = s.event /\ r.event.req.op # "register" => r = s
    BY <1>3, <1>4 DEF RecordsOwnEvents
  <1> QED
    BY <1>3, <1>4, <1>5, <1>6 DEF ExactlyOnce

\* A nonce that is spent by a new event was spent by no earlier one.
LEMMA RecordsNonces ==
  ASSUME TypeInv, DeliveryInv, NEW req, NEW event, Records(req, event)
  PROVE  NoncesSpent' /\ NonceSpentOnce'
  <1>1. CASE UNCHANGED <<events, nonce_uses>>
    BY <1>1 DEF DeliveryInv, NoncesSpent, NonceSpentOnce
  <1>2. CASE /\ events' = events \cup {event} /\ event.req = req
             /\ NoncesOf(req) \cap nonce_uses = {}
             /\ nonce_uses' = nonce_uses \cup NoncesOf(req)
    BY <1>2 DEF DeliveryInv, NoncesSpent, NonceSpentOnce
  <1> QED
    BY <1>1, <1>2 DEF Records

\* The correspondence of rows, events, answers and nonces is inductive.
LEMMA NextDeliveryInv ==
  ASSUME TypeInv, LogInv, DeliveryInv, [Next]_vars
  PROVE  DeliveryInv'
  <1>1. CASE Answers
    <2>1. ExactlyOnce' /\ RecordsOwnEvents' /\ NoncesSpent' /\ NonceSpentOnce'
      BY <1>1 DEF Answers, DeliveryInv, ExactlyOnce, RecordsOwnEvents, NoncesSpent,
         NonceSpentOnce
    <2>2. RepliesRecorded'
      BY <1>1 DEF Answers, DeliveryInv, RepliesRecorded
    <2> QED
      BY <2>1, <2>2 DEF DeliveryInv
  <1>2. ASSUME NEW req, NEW event, Records(req, event) PROVE DeliveryInv'
    <2>1. RepliesRecorded'
      BY <1>2 DEF Records, DeliveryInv, RepliesRecorded
    <2> QED
      BY <1>2, <2>1, RecordsExact, RecordsNonces DEF DeliveryInv
  <1>3. CASE UNCHANGED vars
    BY <1>1, <1>3 DEF vars, storeVars, serviceVars, Answers
  <1> QED
    BY <1>1, <1>2, <1>3, DeliveryStep

\* Rows, events, answers and nonces correspond in every reachable state.
THEOREM DeliveryInvariance == Spec => []DeliveryInv
  <1>1. Init => DeliveryInv
    BY DEF Init, StoreInit, DeliveryInv, ExactlyOnce, RecordsOwnEvents, RepliesRecorded,
       NoncesSpent, NonceSpentOnce
  <1>2. TypeInv /\ LogInv /\ DeliveryInv /\ [Next]_vars => DeliveryInv'
    BY NextDeliveryInv
  <1> QED
    BY <1>1, <1>2, LogInvariance, PTL DEF Spec

\* One row and one event per command, however often it is delivered.
THEOREM DeliveredOnce == Spec => []ExactlyOnce
  <1>1. DeliveryInv => ExactlyOnce
    BY DEF DeliveryInv
  <1> QED
    BY <1>1, DeliveryInvariance, PTL

\* All answers to one command name the same event.
THEOREM AnswersAgree == Spec => []RepliesAgree
  <1>1. DeliveryInv => RepliesAgree
    BY DEF DeliveryInv, ExactlyOnce, RepliesRecorded, RepliesAgree
  <1> QED
    BY <1>1, DeliveryInvariance, PTL

\* One effect and one answer per command, whatever is delivered again.
THEOREM DeliverySafety == Spec => []DeliverySound
  <1> QED
    BY DeliveredOnce, AnswersAgree, PTL DEF DeliverySound

\* No attestation is spent by two events.
THEOREM NoncesOnce == Spec => []NonceSpentOnce
  <1>1. DeliveryInv => NonceSpentOnce
    BY DEF DeliveryInv
  <1> QED
    BY <1>1, DeliveryInvariance, PTL
=============================================================================
