------------------------ MODULE SigningGatewayProofs ------------------------
(***************************************************************************)
(* Proofs about the signing gateway, for any number of gateway processes,  *)
(* tickets, commands and leases.                                           *)
(*                                                                         *)
(* The ledger's UNIQUE columns make a reservation exclusive; the owner of  *)
(* a reservation signs at most once; so a payload is signed once, and a    *)
(* row, once issued, holds the only signature there is for its payload.    *)
(***************************************************************************)
EXTENDS SigningGateway, ControlPlaneProofs

\* What a signature says: a context, for a lease.
SignedPayload(s) == <<Context(s.report), s.lease>>

Reserves(call) == call.pc \in {"time", "sign", "recheck", "record"}

\* What issue() relies on at each of its steps.
CallOK(call) ==
    /\ call # NotIssuing => WellFormed(call.request)
    /\ Reserves(call) =>
           \E row \in signing_requests :
               row.request = call.request /\ row.state = "pending"
    /\ call.pc \in {"time", "sign"} =>
           \A s \in signed : SignedPayload(s) # Payload(call.request)
    /\ call.pc \in {"recheck", "record"} =>
           \E s \in signed :
               /\ call.attestation = {s}
               /\ SignedPayload(s) = Payload(call.request)
               /\ call.pc = "record" => Usable(call.request, s)
               /\ call.pc = "recheck" =>
                      \A a \in attestations : a.report.nonce # s.report.nonce

\* The UNIQUE columns the argument needs.
RowsUnique ==
    \A r, t \in signing_requests :
        \/ r.request.ticket.id = t.request.ticket.id
        \/ r.request.ticket.key = t.request.ticket.key
        \/ Payload(r.request) = Payload(t.request)
        => r = t

\* No two calls own one reservation.
OwnersDiffer ==
    \A g, h \in Gateways :
        Reserved(g) /\ Reserved(h)
            /\ issuing[g].request.ticket.id = issuing[h].request.ticket.id
        => g = h

\* Whatever was signed had been reserved, under a nonce of its own.
SignedReserved ==
    /\ \A s \in signed : \E row \in signing_requests :
           Payload(row.request) = SignedPayload(s)
    /\ \A s, t \in signed : s.report.nonce = t.report.nonce => s = t
    /\ PayloadSignedOnce

\* An issued row holds a usable signature of its own payload.
RowsHoldSignature ==
    \A row \in signing_requests : row.state = "issued" =>
        /\ WellFormed(row.request)
        /\ \E s \in signed :
               /\ row.attestation = {s}
               /\ SignedPayload(s) = Payload(row.request)
               /\ Usable(row.request, s)

\* Every answer is the content of an issued row.
AnswersRecorded ==
    \A a \in issued : \E row \in signing_requests :
        /\ row.request = a.request
        /\ row.state = "issued"
        /\ row.attestation = {a.attestation}

\* What verify_submission may be shown was signed.
AttestationsSigned ==
    \A a \in attestations : \E s \in signed : a.report = s.report

GatewayInv ==
    /\ GatewayTypeOK
    /\ \A g \in Gateways : CallOK(issuing[g])
    /\ RowsUnique
    /\ OwnersDiffer
    /\ SignedReserved
    /\ RowsHoldSignature
    /\ AnswersRecorded
    /\ AttestationsSigned

-----------------------------------------------------------------------------
(* Steps that only move a call *)

\* A step that moves one call, without a reservation it did not have, and
\* answers only from the ledger, preserves the invariant.
LEMMA QuietCall ==
  ASSUME GatewayInv, NEW g \in Gateways, NEW call \in IssueCall \cup {NotIssuing},
         UNCHANGED <<signing_requests, signed, attestations>>,
         issuing' = [issuing EXCEPT ![g] = call],
         CallOK(call),
         Reserves(call) => Reserved(g) /\ call.request = issuing[g].request,
         issued' \subseteq [request: SigningRequest, attestation: Attestation],
         \A a \in issued' : a \in issued \/ \E row \in signing_requests :
             /\ row.request = a.request
             /\ row.state = "issued"
             /\ row.attestation = {a.attestation}
  PROVE  GatewayInv'
  <1>1. GatewayTypeOK'
    BY DEF GatewayInv, GatewayTypeOK
  <1>2. \A h \in Gateways : issuing'[h] = IF h = g THEN call ELSE issuing[h]
    BY DEF GatewayInv, GatewayTypeOK
  <1>3. \A h \in Gateways : CallOK(issuing[h])'
    BY <1>2 DEF GatewayInv, CallOK, Reserves
  <1>4. OwnersDiffer'
    BY <1>2 DEF GatewayInv, OwnersDiffer, Reserved, Reserves
  <1>5. RowsUnique' /\ SignedReserved' /\ RowsHoldSignature'
    BY DEF GatewayInv, RowsUnique, SignedReserved, PayloadSignedOnce, RowsHoldSignature
  <1>6. AnswersRecorded' /\ AttestationsSigned'
    BY DEF GatewayInv, AnswersRecorded, AttestationsSigned
  <1> QED
    BY <1>1, <1>3, <1>4, <1>5, <1>6 DEF GatewayInv

\* A call that ends, with or without an answer from the ledger.
LEMMA CallEnds ==
  ASSUME GatewayInv, NEW g \in Gateways, Abandon(g) \/ AnswerFromLedger(g),
         issuing[g] # NotIssuing
  PROVE  GatewayInv'
  <1>1. CallOK(NotIssuing) /\ ~Reserves(NotIssuing)
    BY DEF CallOK, Reserves, NotIssuing
  <1>2. CASE Abandon(g)
    BY <1>1, <1>2, QuietCall DEF Abandon, vars, serviceVars, GatewayInv, GatewayTypeOK
  <1>3. CASE AnswerFromLedger(g)
    <2>1. PICK row \in signing_requests : \E attestation \in row.attestation :
            /\ row.request = issuing[g].request
            /\ row.state = "issued"
            /\ Answer(g, attestation)
      BY <1>3 DEF AnswerFromLedger, RowsOf
    <2> PICK attestation \in row.attestation : Answer(g, attestation)
      BY <2>1
    <2>2. row.attestation = {attestation} /\ attestation \in Attestation
          /\ row.request \in SigningRequest
      BY <2>1 DEF GatewayInv, GatewayTypeOK, RowsHoldSignature, LedgerRow
    <2>3. /\ issuing' = [issuing EXCEPT ![g] = NotIssuing]
          /\ issued' = issued \cup {[request |-> row.request, attestation |-> attestation]}
      BY <2>1 DEF Answer
    <2>4. issued' \subseteq [request: SigningRequest, attestation: Attestation]
      BY <2>2, <2>3 DEF GatewayInv, GatewayTypeOK
    <2>5. \A a \in issued' : a \in issued \/ \E r \in signing_requests :
             /\ r.request = a.request
             /\ r.state = "issued"
             /\ r.attestation = {a.attestation}
      BY <2>1, <2>2, <2>3
    <2>6. UNCHANGED <<signing_requests, signed, attestations>>
      BY <1>3 DEF AnswerFromLedger, vars, serviceVars
    <2> QED
      BY <1>1, <2>3, <2>4, <2>5, <2>6, QuietCall
  <1> QED
    BY <1>2, <1>3

\* Starting a call, and the steps before its reservation and up to the
\* signature, move the call and nothing else.
LEMMA CallMoves ==
  ASSUME TypeInv, GatewayInv, NEW g \in Gateways,
         \/ \E request \in SigningRequest : Issue(g, request)
         \/ Lookup(g) /\ ~AnswerFromLedger(g)
         \/ Execute(g)
         \/ ReadTime(g)
  PROVE  GatewayInv'
  <1>1. issuing[g] \in IssueCall \cup {NotIssuing} /\ CallOK(issuing[g])
    BY DEF GatewayInv, GatewayTypeOK
  <1>2. ASSUME NEW request \in SigningRequest, Issue(g, request)
        PROVE  GatewayInv'
    <2> DEFINE call == [pc |-> "lookup", request |-> request, ttl |-> 0,
                        attestation |-> {}]
    <2>1. call \in IssueCall /\ CallOK(call) /\ ~Reserves(call)
      BY <1>2 DEF Issue, IssueCall, CallOK, Reserves
    <2>2. issuing' = [issuing EXCEPT ![g] = call]
          /\ UNCHANGED <<signing_requests, signed, attestations, issued>>
      BY <1>2 DEF Issue, vars, serviceVars
    <2> HIDE DEF call
    <2> QED
      BY <2>1, <2>2, QuietCall DEF GatewayInv, GatewayTypeOK
  <1>3. ASSUME NEW pc \in {"execute", "reserve"}, issuing[g] # NotIssuing, Goto(g, pc),
               UNCHANGED <<signing_requests, signed, attestations, issued>>
        PROVE  GatewayInv'
    <2> DEFINE call == [issuing[g] EXCEPT !.pc = pc]
    <2>1. call \in IssueCall /\ CallOK(call) /\ ~Reserves(call)
      BY <1>1, <1>3 DEF IssueCall, CallOK, Reserves, NotIssuing
    <2>2. issuing' = [issuing EXCEPT ![g] = call]
      BY <1>3 DEF Goto, GatewayInv, GatewayTypeOK
    <2> HIDE DEF call
    <2> QED
      BY <1>3, <2>1, <2>2, QuietCall DEF GatewayInv, GatewayTypeOK
  <1>4. CASE ReadTime(g)
    <2> DEFINE ttl == Remaining(issuing[g].request, clock)
               call == [issuing[g] EXCEPT !.pc = "sign", !.ttl = ttl]
    <2>1. issuing[g] \in IssueCall /\ issuing[g].pc = "time"
      BY <1>1, <1>4 DEF ReadTime, NotIssuing
    <2>2. ttl \in Int
      BY <2>1, GatewayAssumption DEF Remaining, IssueCall, SigningRequest, TypeInv, TypeOK,
         LeaseTypeOK
    <2> HIDE DEF ttl
    <2>3. /\ call \in IssueCall /\ call # NotIssuing /\ call.pc = "sign"
          /\ call.request = issuing[g].request
      BY <2>1, <2>2 DEF IssueCall, NotIssuing
    <2>4. CallOK(call) /\ Reserved(g)
      BY <1>1, <2>1, <2>3 DEF CallOK, Reserves, Reserved, NotIssuing
    <2>5. issuing' = [issuing EXCEPT ![g] = call]
          /\ UNCHANGED <<signing_requests, signed, attestations, issued>>
      BY <1>4 DEF ReadTime, vars, serviceVars, GatewayInv, GatewayTypeOK, ttl
    <2> HIDE DEF call
    <2> QED
      BY <2>3, <2>4, <2>5, QuietCall DEF GatewayInv, GatewayTypeOK
  <1>5. CASE Lookup(g) /\ ~AnswerFromLedger(g)
    BY <1>3, <1>5 DEF Lookup, NotIssuing, vars, serviceVars
  <1>6. CASE Execute(g)
    BY <1>3, <1>6 DEF Execute, NotIssuing, vars, serviceVars
  <1> QED
    BY <1>2, <1>4, <1>5, <1>6

-----------------------------------------------------------------------------
(* The steps that write the ledger, or sign *)

\* A reservation is exclusive: nobody has its identifiers or its payload.
LEMMA ReserveInv ==
  ASSUME GatewayInv, NEW g \in Gateways, Reserve(g), ~AnswerFromLedger(g)
  PROVE  GatewayInv'
  <1> DEFINE request == issuing[g].request
             new == [request |-> request, state |-> "pending", attestation |-> {}]
             call == [issuing[g] EXCEPT !.pc = "time"]
  <1>1. issuing[g] \in IssueCall /\ issuing[g].pc = "reserve" /\ CallOK(issuing[g])
    BY DEF Reserve, GatewayInv, GatewayTypeOK, NotIssuing
  <1>2. /\ Unused(request)
        /\ signing_requests' = signing_requests \cup {new}
        /\ issuing' = [issuing EXCEPT ![g] = call]
        /\ UNCHANGED <<signed, issued, attestations>>
    BY DEF Reserve, Goto, vars, serviceVars, GatewayInv, GatewayTypeOK
  <1>3. new \in LedgerRow /\ call \in IssueCall
    BY <1>1 DEF LedgerRow, IssueCall
  <1>4. /\ new.request = request /\ new.state = "pending" /\ new.attestation = {}
        /\ call.pc = "time" /\ call.request = request
    BY <1>1 DEF IssueCall
  <1> HIDE DEF new, call
  <1>5. GatewayTypeOK'
    BY <1>2, <1>3, <1>4 DEF GatewayInv, GatewayTypeOK
  <1>6. \A h \in Gateways : issuing'[h] = IF h = g THEN call ELSE issuing[h]
    BY <1>2 DEF GatewayInv, GatewayTypeOK
  <1>7. CallOK(issuing[g])'
    <2>1. \A s \in signed : SignedPayload(s) # Payload(request)
      BY <1>2 DEF GatewayInv, SignedReserved, Unused
    <2>2. call # NotIssuing /\ WellFormed(request)
      BY <1>1, <1>4 DEF CallOK, NotIssuing
    <2> QED
      BY <1>2, <1>4, <1>6, <2>1, <2>2 DEF CallOK, Reserves
  <1>8. \A h \in Gateways : CallOK(issuing[h])'
    BY <1>2, <1>6, <1>7 DEF GatewayInv, CallOK
  <1>9. RowsUnique'
    BY <1>2, <1>4 DEF GatewayInv, RowsUnique, Unused
  <1>10. OwnersDiffer'
    <2>1. \A h \in Gateways : Reserved(h) =>
             issuing[h].request.ticket.id # request.ticket.id
      BY <1>2 DEF GatewayInv, CallOK, Reserves, Reserved, Unused
    <2> QED
      BY <1>4, <1>6, <2>1 DEF GatewayInv, OwnersDiffer, Reserved
  <1>11. SignedReserved' /\ RowsHoldSignature'
    BY <1>2, <1>4 DEF GatewayInv, SignedReserved, PayloadSignedOnce, RowsHoldSignature
  <1>12. AnswersRecorded' /\ AttestationsSigned'
    BY <1>2 DEF GatewayInv, AnswersRecorded, AttestationsSigned
  <1> QED
    BY <1>5, <1>8, <1>9, <1>10, <1>11, <1>12 DEF GatewayInv

\* The owner of a reservation signs its payload for the first time.
LEMMA SignInv ==
  ASSUME TypeInv, GatewayInv, NEW g \in Gateways, SignPayload(g)
  PROVE  GatewayInv'
  <1> DEFINE request == issuing[g].request
  <1>1. issuing[g] \in IssueCall /\ issuing[g].pc = "sign" /\ CallOK(issuing[g])
        /\ request \in SigningRequest
    BY DEF SignPayload, GatewayInv, GatewayTypeOK, NotIssuing, IssueCall
  <1>2. PICK req \in Requests :
          /\ req.op = "verify"
          /\ Context(req) = request.ticket.context
          /\ \A s \in signed : s.report.nonce # req.nonce
          /\ signed' = signed \cup {Signature(g, req)}
          /\ issuing' = [issuing EXCEPT ![g].pc = "recheck",
                             ![g].attestation = {Signature(g, req)}]
    BY DEF SignPayload
  <1>3. PICK new : new = Signature(g, req)
    OBVIOUS
  <1>4. PICK call : call = [issuing[g] EXCEPT !.pc = "recheck", !.attestation = {new}]
    OBVIOUS
  <1>5. /\ new \in Attestation
        /\ new.report.nonce = req.nonce
        /\ SignedPayload(new) = Payload(request)
    <2>1. clock + issuing[g].ttl \in Int
      BY <1>1 DEF IssueCall, TypeInv, TypeOK, LeaseTypeOK
    <2>2. new = [report |-> Document(req), lease |-> request.lease,
                 expires_at |-> clock + issuing[g].ttl]
      BY <1>3 DEF Signature
    <2>3. Document(req).nonce = req.nonce /\ Context(Document(req)) = Context(req)
      BY DEF Document, Context
    <2> QED
      BY <1>1, <1>2, <2>1, <2>2, <2>3 DEF Attestation, SignedPayload, Payload, SigningRequest
  <1>6. /\ call \in IssueCall /\ call # NotIssuing
        /\ call.pc = "recheck" /\ call.request = request /\ call.attestation = {new}
    BY <1>1, <1>4, <1>5 DEF IssueCall, NotIssuing
  <1>7. /\ signed' = signed \cup {new}
        /\ issuing' = [issuing EXCEPT ![g] = call]
        /\ UNCHANGED <<signing_requests, issued, attestations>>
    BY <1>2, <1>3, <1>4 DEF SignPayload, vars, serviceVars, GatewayInv, GatewayTypeOK
  <1>8. GatewayTypeOK'
    BY <1>5, <1>6, <1>7 DEF GatewayInv, GatewayTypeOK
  <1>9. \A h \in Gateways : issuing'[h] = IF h = g THEN call ELSE issuing[h]
    BY <1>7 DEF GatewayInv, GatewayTypeOK
  <1>10. PICK own \in signing_requests : own.request = request /\ own.state = "pending"
    BY <1>1 DEF CallOK, Reserves
  <1>11. \A h \in Gateways : Reserved(h) /\ h # g =>
            Payload(issuing[h].request) # Payload(request)
    BY <1>1, <1>10 DEF GatewayInv, CallOK, Reserves, Reserved, OwnersDiffer, RowsUnique
  <1>12. \A a \in attestations : a.report.nonce # req.nonce
    BY <1>2 DEF GatewayInv, AttestationsSigned
  <1>13. CallOK(issuing[g])'
    <2>1. issuing'[g] = call /\ new \in signed'
      BY <1>7, <1>9
    <2>2. WellFormed(request)
      BY <1>1 DEF CallOK, NotIssuing
    <2>3. WellFormed(issuing[g].request)'
      BY <1>6, <2>1, <2>2 DEF WellFormed
    <2> QED
      BY <1>5, <1>6, <1>7, <1>10, <1>12, <2>1, <2>3 DEF CallOK, Reserves
  <1>14. \A h \in Gateways : h # g => CallOK(issuing[h])'
    BY <1>5, <1>7, <1>9, <1>11 DEF GatewayInv, CallOK, Reserves, Reserved
  <1>15. OwnersDiffer'
    BY <1>1, <1>6, <1>9 DEF GatewayInv, OwnersDiffer, Reserved
  <1>16. SignedReserved'
    <2>1. \A s \in signed : SignedPayload(s) # SignedPayload(new)
      BY <1>1, <1>5 DEF CallOK
    <2>2. PayloadSignedOnce'
      BY <1>7, <2>1 DEF GatewayInv, SignedReserved, PayloadSignedOnce, SignedPayload
    <2> QED
      BY <1>2, <1>5, <1>7, <1>10, <2>2 DEF GatewayInv, SignedReserved
  <1>17. RowsUnique' /\ RowsHoldSignature' /\ AnswersRecorded' /\ AttestationsSigned'
    BY <1>7 DEF GatewayInv, RowsUnique, RowsHoldSignature, AnswersRecorded, AttestationsSigned
  <1> QED
    BY <1>8, <1>13, <1>14, <1>15, <1>16, <1>17 DEF GatewayInv

\* The signature a call holds before its last check.
LEMMA Holding ==
  ASSUME GatewayInv, NEW g \in Gateways, issuing[g].pc = "recheck"
  PROVE  /\ issuing[g] \in IssueCall
         /\ \E s \in signed :
                /\ issuing[g].attestation = {s}
                /\ SignedPayload(s) = Payload(issuing[g].request)
                /\ \A a \in attestations : a.report.nonce # s.report.nonce
  BY DEF GatewayInv, GatewayTypeOK, NotIssuing, CallOK

\* The last check releases a signature nobody has seen.
LEMMA RecheckInv ==
  ASSUME GatewayInv, NEW g \in Gateways, Recheck(g)
  PROVE  GatewayInv'
  <1> DEFINE request == issuing[g].request
  <1>1. issuing[g] \in IssueCall /\ issuing[g].pc = "recheck" /\ CallOK(issuing[g])
    BY Holding DEF Recheck, GatewayInv
  <1>2. PICK s \in signed :
          /\ issuing[g].attestation = {s}
          /\ SignedPayload(s) = Payload(request)
    BY <1>1, Holding
  <1>3. PICK call : call = [issuing[g] EXCEPT !.pc = "record"]
    OBVIOUS
  <1>4. /\ call \in IssueCall /\ call # NotIssuing /\ call.pc = "record"
        /\ call.request = request /\ call.attestation = {s}
    BY <1>1, <1>2, <1>3 DEF IssueCall, NotIssuing
  <1>5. /\ Usable(request, s)
        /\ attestations' = attestations \cup {[report |-> s.report, lease |-> s.lease]}
        /\ issuing' = [issuing EXCEPT ![g] = call]
        /\ UNCHANGED <<signing_requests, signed, issued>>
    BY <1>2, <1>3 DEF Recheck, Goto, GatewayInv, GatewayTypeOK
  <1>6. \A h \in Gateways : issuing'[h] = IF h = g THEN call ELSE issuing[h]
    BY <1>5 DEF GatewayInv, GatewayTypeOK
  <1>7. GatewayTypeOK'
    BY <1>4, <1>5 DEF GatewayInv, GatewayTypeOK
  <1>8. CallOK(issuing[g])'
    <2>1. issuing'[g] = call /\ signed' = signed
      BY <1>5, <1>6
    <2>2. WellFormed(issuing[g].request)' /\ Usable(issuing[g].request, s)'
      BY <1>1, <1>4, <1>5, <2>1 DEF CallOK, NotIssuing, WellFormed, Usable
    <2>3. \E row \in signing_requests : row.request = request /\ row.state = "pending"
      BY <1>1 DEF CallOK, Reserves
    <2> QED
      BY <1>2, <1>4, <1>5, <2>1, <2>2, <2>3 DEF CallOK, Reserves
  <1>9. ASSUME NEW h \in Gateways, h # g PROVE CallOK(issuing[h])'
    <2>1. issuing'[h] = issuing[h] /\ CallOK(issuing[h])
      BY <1>6, <1>9 DEF GatewayInv
    <2>2. ASSUME issuing[h].pc = "recheck", NEW t \in issuing[h].attestation
          PROVE  t.report.nonce # s.report.nonce
      <3>1. t \in signed /\ SignedPayload(t) = Payload(issuing[h].request)
        BY <2>2, Holding
      <3>2. Payload(issuing[h].request) # Payload(request)
        BY <1>1, <1>9, <2>1, <2>2 DEF GatewayInv, CallOK, Reserves, Reserved, OwnersDiffer,
           RowsUnique
      <3> QED
        BY <1>2, <3>1, <3>2 DEF GatewayInv, SignedReserved
    <2> QED
      BY <1>5, <2>1, <2>2 DEF CallOK, Reserves
  <1>10. OwnersDiffer'
    BY <1>1, <1>4, <1>6, SMTT(30) DEF GatewayInv, OwnersDiffer, Reserved
  <1>11. RowsUnique' /\ SignedReserved' /\ RowsHoldSignature' /\ AnswersRecorded'
    BY <1>5 DEF GatewayInv, RowsUnique, SignedReserved, PayloadSignedOnce, RowsHoldSignature,
       AnswersRecorded
  <1>12. AttestationsSigned'
    BY <1>5 DEF GatewayInv, AttestationsSigned
  <1> QED
    BY <1>7, <1>8, <1>9, <1>10, <1>11, <1>12 DEF GatewayInv

\* The UPDATE that completes a request finds exactly the caller's own row.
LEMMA CompletesOwnRow ==
  ASSUME GatewayInv, NEW g \in Gateways, Reserved(g), NEW state, NEW attestation,
         Complete(issuing[g].request, state, attestation)
  PROVE  \E old \in signing_requests :
             /\ old.request = issuing[g].request
             /\ old.state = "pending"
             /\ signing_requests' = (signing_requests \ {old}) \cup
                    {[request |-> old.request, state |-> state,
                      attestation |-> attestation]}
  <1>1. PICK old \in signing_requests :
          old.request = issuing[g].request /\ old.state = "pending"
    BY DEF GatewayInv, CallOK, Reserves, Reserved
  <1>2. Pending(issuing[g].request) = {old}
    BY <1>1 DEF Pending, GatewayInv, RowsUnique
  <1> QED
    BY <1>1, <1>2 DEF Complete

\* Completing a request, either way, preserves the invariant.
LEMMA CompleteInv ==
  ASSUME GatewayInv, NEW g \in Gateways, Reserved(g), NEW state, NEW attestation,
         Complete(issuing[g].request, state, attestation),
         issuing' = [issuing EXCEPT ![g] = NotIssuing],
         UNCHANGED <<signed, attestations>>,
         \/ state = "failed" /\ attestation = {} /\ issued' = issued
         \/ /\ state = "issued"
            /\ \E s \in signed :
                   /\ attestation = {s}
                   /\ SignedPayload(s) = Payload(issuing[g].request)
                   /\ Usable(issuing[g].request, s)
                   /\ issued' = issued \cup
                          {[request |-> issuing[g].request, attestation |-> s]}
  PROVE  GatewayInv'
  <1>1. PICK old \in signing_requests :
          /\ old.request = issuing[g].request
          /\ old.state = "pending"
          /\ signing_requests' = (signing_requests \ {old}) \cup
                 {[request |-> old.request, state |-> state, attestation |-> attestation]}
    BY CompletesOwnRow
  <1>2. PICK new : new = [request |-> old.request, state |-> state,
                          attestation |-> attestation]
    OBVIOUS
  <1>3. /\ new.request = old.request /\ new.state = state /\ new.attestation = attestation
        /\ signing_requests' = (signing_requests \ {old}) \cup {new}
    BY <1>1, <1>2
  <1>4. issuing[g] \in IssueCall /\ issuing[g] # NotIssuing /\ WellFormed(old.request)
        /\ old.request \in SigningRequest
    BY <1>1 DEF GatewayInv, GatewayTypeOK, Reserved, NotIssuing, CallOK, LedgerRow
  <1>5. GatewayTypeOK'
    <2>1. new \in LedgerRow /\ (new.state = "issued" <=> new.attestation # {})
      BY <1>2, <1>4 DEF LedgerRow, GatewayInv, GatewayTypeOK
    <2>2. issued' \subseteq [request: SigningRequest, attestation: Attestation]
      BY <1>1, <1>4 DEF GatewayInv, GatewayTypeOK
    <2> QED
      BY <1>3, <2>1, <2>2 DEF GatewayInv, GatewayTypeOK
  <1>6. \A h \in Gateways : issuing'[h] = IF h = g THEN NotIssuing ELSE issuing[h]
    BY DEF GatewayInv, GatewayTypeOK
  <1>7. \A h \in Gateways : h # g => CallOK(issuing[h])'
    <2>1. ASSUME NEW h \in Gateways, h # g, Reserved(h)
          PROVE  \E row \in signing_requests' :
                     row.request = issuing[h].request /\ row.state = "pending"
      <3>1. issuing[h].request.ticket.id # old.request.ticket.id
        BY <1>1, <2>1 DEF GatewayInv, OwnersDiffer
      <3> QED
        BY <1>3, <2>1, <3>1 DEF GatewayInv, CallOK, Reserves, Reserved
    <2> QED
      BY <1>6, <2>1 DEF GatewayInv, CallOK, Reserves, Reserved
  <1>8. CallOK(issuing[g])'
    BY <1>6 DEF CallOK, Reserves, NotIssuing
  <1>9. RowsUnique'
    BY <1>3 DEF GatewayInv, RowsUnique
  <1>10. OwnersDiffer'
    BY <1>6 DEF GatewayInv, OwnersDiffer, Reserved, NotIssuing
  <1>11. SignedReserved'
    BY <1>3 DEF GatewayInv, SignedReserved, PayloadSignedOnce
  <1>12. RowsHoldSignature'
    BY <1>1, <1>3, <1>4 DEF GatewayInv, RowsHoldSignature
  <1>13. AnswersRecorded' /\ AttestationsSigned'
    BY <1>1, <1>3 DEF GatewayInv, AnswersRecorded, AttestationsSigned
  <1> QED
    BY <1>5, <1>7, <1>8, <1>9, <1>10, <1>11, <1>12, <1>13 DEF GatewayInv

\* _record_issued and _mark_failed preserve the invariant.
LEMMA FinishInv ==
  ASSUME GatewayInv, NEW g \in Gateways, Record(g) \/ Fail(g)
  PROVE  GatewayInv'
  <1>1. Reserved(g)
    BY DEF Record, Fail, Reserved
  <1>2. CASE Record(g)
    <2>1. PICK s \in signed :
            /\ issuing[g].attestation = {s}
            /\ SignedPayload(s) = Payload(issuing[g].request)
            /\ Usable(issuing[g].request, s)
      BY <1>2 DEF Record, GatewayInv, CallOK
    <2>2. /\ Complete(issuing[g].request, "issued", {s})
          /\ issuing' = [issuing EXCEPT ![g] = NotIssuing]
          /\ issued' = issued \cup {[request |-> issuing[g].request, attestation |-> s]}
          /\ UNCHANGED <<signed, attestations>>
      BY <1>2, <2>1 DEF Record, Answer, vars, serviceVars
    <2> QED
      BY <1>1, <2>1, <2>2, CompleteInv
  <1>3. CASE Fail(g)
    <2>1. /\ Complete(issuing[g].request, "failed", {})
          /\ issuing' = [issuing EXCEPT ![g] = NotIssuing]
          /\ UNCHANGED <<signed, attestations, issued>>
      BY <1>3 DEF Fail, vars, serviceVars
    <2> QED
      BY <1>1, <2>1, CompleteInv
  <1> QED
    BY <1>2, <1>3

-----------------------------------------------------------------------------
(* The gateway beside the control plane *)

\* The control plane itself never adds a signature.
LEMMA ServeSignsNothing ==
  ASSUME Serve
  PROVE  UNCHANGED attestations
  <1>1. CASE LeaseApi
    BY <1>1 DEF LeaseApi, serviceVars
  <1>2. CASE Commands
    BY <1>2 DEF Commands, Replay, BeginRegister, BeginClaim, BeginEvidence
  <1>3. ASSUME NEW c \in Callers, Proceed(c) PROVE UNCHANGED attestations
    BY <1>3 DEF Proceed, ClaimLease, LeaseStep, Drop, ReadSequence, ReturnRecorded,
       CommitClaim, CommitEvidence, CommitRegister
  <1> QED
    BY <1>1, <1>2, <1>3 DEF Serve

\* The last check of issue() is the step ControlPlane!Sign describes.
LEMMA RecheckIsSign ==
  ASSUME TypeInv, GatewayInv, NEW g \in Gateways, Recheck(g)
  PROVE  Signing
  <1> DEFINE request == issuing[g].request
             context == request.ticket.context
  <1>1. PICK s \in signed :
          /\ issuing[g].attestation = {s}
          /\ SignedPayload(s) = Payload(request)
          /\ \A a \in attestations : a.report.nonce # s.report.nonce
    BY Holding DEF Recheck
  <1>2. PICK req \in Requests : req.op = "verify" /\ s.report = Document(req)
    BY <1>1 DEF GatewayInv, GatewayTypeOK, Attestation
  <1>3. Context(req) = context /\ s.lease = request.lease
    <2>1. Context(Document(req)) = Context(req)
      BY DEF Context, Document
    <2> QED
      BY <1>1, <1>2, <2>1 DEF SignedPayload, Payload
  <1>4. /\ req.bundle = context.bundle /\ req.id = context.id
        /\ req.contract = context.contract
    BY <1>3 DEF Context
  <1>5. req.nonce = s.report.nonce
    BY <1>2 DEF Document
  <1>6. Authoritative(request)
    BY DEF Recheck
  <1>7. /\ s.lease \in worker_leases /\ s.lease.job = req.bundle /\ Live(s.lease, clock)
        /\ s.lease \in granted
    BY <1>3, <1>4, <1>6 DEF Authoritative, TypeInv, LeaseInv, RowHasNewestToken
  <1>8. BindsContract(req) /\ ProofSubmitted(req)
    BY <1>4, <1>6 DEF Authoritative, BindsContract, ProofSubmitted
  <1>9. \E event \in events : event.req.op = "submit" /\ event.req.id = req.id
                              /\ event.req.bundle = req.bundle
    BY <1>4, <1>6 DEF Authoritative
  <1>10. /\ attestations' = attestations \cup {[report |-> Document(req), lease |-> s.lease]}
         /\ UNCHANGED <<leaseVars, storeVars, calls, artifacts, replies>>
    BY <1>1, <1>2 DEF Recheck
  <1>11. Sign(req, s.lease)
    BY <1>1, <1>2, <1>5, <1>7, <1>8, <1>9, <1>10 DEF Sign
  <1> QED
    BY <1>7, <1>11 DEF Signing

\* Every step of the composition is a step of ControlPlane, or none.
LEMMA GatewayStepRefines ==
  ASSUME TypeInv, GatewayInv, [GNext]_gvars
  PROVE  [Next]_vars
  <1>1. CASE ControlStep
    BY <1>1 DEF ControlStep, Serve, Next, Deliver
  <1>2. CASE Ask
    BY <1>2 DEF Ask, Issue
  <1>3. ASSUME NEW g \in Gateways, IssueStep(g) PROVE [Next]_vars
    <2>1. CASE Recheck(g)
      BY <2>1, RecheckIsSign DEF Next, Deliver
    <2>2. CASE ~Recheck(g)
      BY <1>3, <2>2 DEF IssueStep, Lookup, AnswerFromLedger, Execute, Reserve, ReadTime,
         SignPayload, Record, Fail, Abandon
    <2> QED
      BY <2>1, <2>2
  <1>4. CASE UNCHANGED gvars
    BY <1>4 DEF gvars
  <1> QED
    BY <1>1, <1>2, <1>3, <1>4 DEF GNext

\* The invariant of the gateway is inductive.
LEMMA NextGatewayInv ==
  ASSUME TypeInv, GatewayInv, [GNext]_gvars
  PROVE  GatewayInv'
  <1>1. ASSUME UNCHANGED <<gatewayVars, attestations>> PROVE GatewayInv'
    BY <1>1, ZenonT(30) DEF gatewayVars, GatewayInv, GatewayTypeOK, CallOK, Reserves, RowsUnique,
       OwnersDiffer, Reserved, SignedReserved, PayloadSignedOnce, RowsHoldSignature,
       AnswersRecorded, AttestationsSigned
  <1>2. CASE ControlStep
    BY <1>1, <1>2, ServeSignsNothing DEF ControlStep
  <1>3. CASE Ask
    <2>1. PICK g \in Gateways, ticket \in Tickets, lease \in worker_leases :
            Issue(g, [ticket |-> ticket, lease |-> lease,
                      expires_at |-> Lesser(ticket.requested_at + ticket.ttl,
                                            lease.expires)])
      BY <1>3 DEF Ask
    <2>2. lease \in Lease /\ lease.expires \in Int
      BY DEF TypeInv, TypeOK, LeaseTypeOK, Lease
    <2>3. Lesser(ticket.requested_at + ticket.ttl, lease.expires) \in Int
      BY <2>2, GatewayAssumption DEF Lesser
    <2>4. [ticket |-> ticket, lease |-> lease,
           expires_at |-> Lesser(ticket.requested_at + ticket.ttl, lease.expires)]
             \in SigningRequest
      BY <2>2, <2>3 DEF SigningRequest
    <2> QED
      BY <2>1, <2>4, CallMoves
  <1>4. ASSUME NEW g \in Gateways, IssueStep(g) PROVE GatewayInv'
    <2>1. CASE Abandon(g)
      BY <2>1, CallEnds DEF Abandon
    <2>2. CASE Lookup(g)
      BY <2>2, CallEnds, CallMoves DEF Lookup, NotIssuing
    <2>3. CASE Reserve(g)
      BY <2>3, CallEnds, ReserveInv DEF Reserve, NotIssuing
    <2> QED
      BY <1>4, <2>1, <2>2, <2>3, CallMoves, SignInv, RecheckInv, FinishInv DEF IssueStep
  <1>5. CASE UNCHANGED gvars
    BY <1>1, <1>5 DEF gvars, vars, serviceVars
  <1> QED
    BY <1>2, <1>3, <1>4, <1>5 DEF GNext

\* The invariants of the gateway and of the control plane hold together.
THEOREM GatewayInvariance == GSpec => [](TypeInv /\ GatewayInv)
  <1>1. GInit => TypeInv /\ GatewayInv
    <2>1. GInit => TypeInv
      BY InitTypeInv DEF GInit
    <2>2. ASSUME GInit PROVE GatewayInv
      BY <2>2 DEF GInit, Init, GatewayInv, GatewayTypeOK, CallOK, Reserves, NotIssuing,
         RowsUnique, OwnersDiffer, Reserved, SignedReserved, PayloadSignedOnce,
         RowsHoldSignature, AnswersRecorded, AttestationsSigned
    <2> QED
      BY <2>1, <2>2
  <1>2. TypeInv /\ GatewayInv /\ [GNext]_gvars => (TypeInv /\ GatewayInv)'
    BY NextGatewayInv, GatewayStepRefines, NextTypeInv
  <1> QED
    BY <1>1, <1>2, PTL DEF GSpec

\* The gateway's tables, locals and histories keep their types.
THEOREM GatewayTypeCorrect == GSpec => []GatewayTypeOK
  <1>1. GatewayInv => GatewayTypeOK
    BY DEF GatewayInv
  <1> QED
    BY <1>1, GatewayInvariance, PTL

\* The signer signs a context for a lease at most once, whatever calls race,
\* crash or are retried.
THEOREM SignedOnce == GSpec => []PayloadSignedOnce
  <1>1. GatewayInv => PayloadSignedOnce
    BY DEF GatewayInv, SignedReserved
  <1> QED
    BY <1>1, GatewayInvariance, PTL

\* All answers under one idempotency key are the same answer.
THEOREM RetryAgrees == GSpec => []RetriesAgree
  <1>1. ASSUME GatewayInv PROVE RetriesAgree
    <2>1. ASSUME NEW a \in issued, NEW b \in issued,
                 a.request.ticket.key = b.request.ticket.key
          PROVE  a = b
      <3>1. PICK r \in signing_requests :
              r.request = a.request /\ r.attestation = {a.attestation}
        BY <1>1 DEF GatewayInv, AnswersRecorded
      <3>2. PICK t \in signing_requests :
              t.request = b.request /\ t.attestation = {b.attestation}
        BY <1>1 DEF GatewayInv, AnswersRecorded
      <3>3. r = t
        BY <1>1, <2>1, <3>1, <3>2 DEF GatewayInv, RowsUnique
      <3>4. a.request = b.request /\ a.attestation = b.attestation
        BY <3>1, <3>2, <3>3
      <3> QED
        BY <1>1, <3>4 DEF GatewayInv, GatewayTypeOK
    <2> QED
      BY <2>1 DEF RetriesAgree
  <1> QED
    BY <1>1, GatewayInvariance, PTL

\* _record_issued and _mark_failed always find the row their call reserved.
THEOREM ReservationsKept == GSpec => []ReservationKept
  <1>1. GatewayInv => ReservationKept
    BY DEF GatewayInv, ReservationKept, OwnersDiffer, CallOK, Reserves, Reserved
  <1> QED
    BY <1>1, GatewayInvariance, PTL

\* No signature that is handed out outlives its request or its lease.
THEOREM OutlivesNothing == GSpec => []NothingOutlivesLease
  <1>1. ASSUME GatewayInv PROVE NothingOutlivesLease
    <2>1. ASSUME NEW a \in issued
          PROVE  /\ a.attestation.expires_at <= a.request.expires_at
                 /\ a.attestation.expires_at <= a.attestation.lease.expires
      <3>1. /\ Usable(a.request, a.attestation) /\ WellFormed(a.request)
            /\ SignedPayload(a.attestation) = Payload(a.request)
        BY <1>1, <2>1 DEF GatewayInv, AnswersRecorded, RowsHoldSignature
      <3>2. a.attestation.expires_at \in Int /\ a.request.expires_at \in Int
            /\ a.request.lease.expires \in Int
        BY <1>1, <2>1 DEF GatewayInv, GatewayTypeOK, Attestation, SigningRequest, Lease
      <3>3. a.attestation.lease = a.request.lease
        BY <3>1 DEF SignedPayload, Payload
      <3> QED
        BY <3>1, <3>2, <3>3 DEF Usable, WellFormed
    <2> QED
      BY <2>1 DEF NothingOutlivesLease
  <1> QED
    BY <1>1, GatewayInvariance, PTL

\* The gateway and the control plane together behave as ControlPlane: all that
\* is proved of Spec holds with the real gateway in place of Sign.
THEOREM GatewayRefinesSign == GSpec => ImplementsSign
  <1>1. GInit => Init
    BY DEF GInit
  <1>2. TypeInv /\ GatewayInv /\ [GNext]_gvars => [Next]_vars
    BY GatewayStepRefines
  <1> QED
    BY <1>1, <1>2, GatewayInvariance, PTL DEF GSpec, ImplementsSign, Spec

-----------------------------------------------------------------------------
(* Interrupted attempts stay consumed *)

\* A call reserves in no other step than Reserve.
LEMMA ReservationComesFrom ==
  ASSUME GatewayInv, NEW g \in Gateways, IssueStep(g), NEW h \in Gateways, Reserved(h)'
  PROVE  \/ Reserved(h) /\ issuing'[h].request = issuing[h].request
         \/ /\ h = g /\ issuing'[h].request = issuing[g].request
            /\ Unused(issuing[g].request)
            /\ signing_requests \subseteq signing_requests'
  <1>1. issuing \in [Gateways -> IssueCall \cup {NotIssuing}]
    BY DEF GatewayInv, GatewayTypeOK
  <1>2. CASE h # g
    BY <1>1, <1>2 DEF IssueStep, Lookup, AnswerFromLedger, Answer, Execute, Goto, Reserve,
       ReadTime, SignPayload, Recheck, Record, Fail, Abandon, Reserved
  <1>3. CASE h = g
    <2>1. CASE Lookup(g) \/ Execute(g) \/ AnswerFromLedger(g) \/ Record(g) \/ Fail(g)
               \/ Abandon(g)
      BY <1>1, <1>3, <2>1 DEF Lookup, AnswerFromLedger, Answer, Execute, Goto, Record, Fail,
         Abandon, Reserved, NotIssuing, IssueCall
    <2>2. CASE Reserve(g) /\ ~AnswerFromLedger(g)
      BY <1>1, <1>3, <2>2 DEF Reserve, Goto, IssueCall, NotIssuing
    <2>3. CASE ReadTime(g) \/ SignPayload(g) \/ Recheck(g)
      BY <1>1, <1>3, <2>3 DEF ReadTime, SignPayload, Recheck, Goto, Reserved, IssueCall,
         NotIssuing
    <2> QED
      BY <2>1, <2>2, <2>3 DEF IssueStep
  <1> QED
    BY <1>2, <1>3

\* A consumed row survives every step and its payload is not answered.
LEMMA ConsumedStays ==
  ASSUME GatewayInv, NEW g \in Gateways, IssueStep(g),
         NEW row \in signing_requests, Consumed(row)
  PROVE  /\ row \in signing_requests' /\ Consumed(row)'
         /\ \A a \in issued' \ issued : Payload(a.request) # Payload(row.request)
  <1>1. row \in signing_requests'
    <2>1. CASE Record(g) \/ Fail(g)
      <3>1. Reserved(g)
        BY <2>1 DEF Record, Fail, Reserved
      <3>2. PICK state, attestation : Complete(issuing[g].request, state, attestation)
        BY <2>1 DEF Record, Fail
      <3>3. PICK old \in signing_requests :
              /\ old.request = issuing[g].request
              /\ old.state = "pending"
              /\ signing_requests \ {old} \subseteq signing_requests'
        BY <3>1, <3>2, CompletesOwnRow
      <3> QED
        BY <3>1, <3>3 DEF Consumed
    <2>2. CASE ~(Record(g) \/ Fail(g))
      BY <2>2 DEF IssueStep, Lookup, AnswerFromLedger, Execute, Reserve, ReadTime, SignPayload,
         Recheck, Abandon
    <2> QED
      BY <2>1, <2>2
  <1>2. Consumed(row)'
    <2>1. ASSUME row.state = "pending", NEW h \in Gateways, Reserved(h)'
          PROVE  issuing'[h].request # row.request
      BY <2>1, ReservationComesFrom DEF Consumed, Unused
    <2> QED
      BY <2>1 DEF Consumed
  <1>3. ASSUME NEW a \in issued' \ issued
        PROVE  Payload(a.request) # Payload(row.request)
    <2>1. row.state # "issued"
      BY DEF Consumed
    <2>2. CASE AnswerFromLedger(g)
      BY <1>3, <2>1, <2>2 DEF AnswerFromLedger, RowsOf, Answer, GatewayInv, RowsUnique
    <2>3. CASE Record(g)
      <3>1. Reserved(g) /\ a.request = issuing[g].request
        BY <1>3, <2>3 DEF Record, Reserved, Answer
      <3>2. PICK own \in signing_requests :
              own.request = issuing[g].request /\ own.state = "pending"
        BY <3>1 DEF GatewayInv, CallOK, Reserves, Reserved
      <3> QED
        BY <3>1, <3>2 DEF GatewayInv, RowsUnique, Consumed
    <2> QED
      BY <1>3, <2>2, <2>3 DEF IssueStep, Lookup, Execute, Reserve, ReadTime, SignPayload,
         Recheck, Fail, Abandon
  <1> QED
    BY <1>1, <1>2, <1>3

\* "Failed or interrupted signing attempts remain consumed and fail closed".
THEOREM InterruptedFailsClosed == GSpec => FailsClosed
  <1>1. ASSUME GatewayInv, [GNext]_gvars, NEW row \in signing_requests, Consumed(row)
        PROVE  /\ row \in signing_requests' /\ Consumed(row)'
               /\ \A a \in issued' \ issued : Payload(a.request) # Payload(row.request)
    <2>1. CASE ControlStep \/ UNCHANGED gvars
      BY <1>1, <2>1 DEF ControlStep, gvars, gatewayVars, Consumed, Reserved
    <2>2. CASE Ask
      <3>1. PICK g \in Gateways : \E request : Issue(g, request)
        BY <2>2 DEF Ask
      <3>2. \A h \in Gateways : Reserved(h)' =>
               Reserved(h) /\ issuing'[h].request = issuing[h].request
        BY <1>1, <3>1 DEF Issue, Reserved, GatewayInv, GatewayTypeOK
      <3>3. UNCHANGED <<signing_requests, issued>>
        BY <3>1 DEF Issue
      <3> QED
        BY <1>1, <3>2, <3>3 DEF Consumed
    <2>3. ASSUME NEW g \in Gateways, IssueStep(g)
          PROVE  /\ row \in signing_requests' /\ Consumed(row)'
                 /\ \A a \in issued' \ issued : Payload(a.request) # Payload(row.request)
      BY <1>1, <2>3, ConsumedStays
    <2> QED
      BY <1>1, <2>1, <2>2, <2>3 DEF GNext
  <1>2. GatewayInv /\ [GNext]_gvars =>
          [\A row \in signing_requests : Consumed(row) =>
              /\ row \in signing_requests' /\ Consumed(row)'
              /\ \A a \in issued' \ issued :
                     Payload(a.request) # Payload(row.request)]_gvars
    BY <1>1
  <1> QED
    BY <1>2, GatewayInvariance, PTL DEF GSpec, FailsClosed
=============================================================================
