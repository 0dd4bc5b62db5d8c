----------------------- MODULE ProviderRegistryProofs -----------------------
(***************************************************************************)
(* Proofs about model execution: the ledger of ModelAuthorization under    *)
(* the calls of ProviderRegistry, for every number of provers, offers,     *)
(* leases and attempts.                                                    *)
(*                                                                         *)
(* The inductive invariant has four layers: the lease store's; the         *)
(* capabilities, one per id and each for a lease that was granted; the     *)
(* ledger, whose rows each belong to a capability; and the calls, each     *)
(* holding a reservation of its own.                                       *)
(***************************************************************************)
EXTENDS ProviderRegistry, LeaseStoreProofs, InductionProofs, SequenceTheorems

-----------------------------------------------------------------------------
(* The types *)

Ids == {offer.id : offer \in Offers}

Capability ==
    [offer: Offers, lease: Lease, approval: Approvals, issued_at: Nat, expires: Nat,
     issuer: Issuers]

Minted == [pc: {"minted"}, key: Keys.issue, capability: Capability]

Amount == [input: Nat, output: Nat, cost: Nat]

RevokedRow == [type: {"revoked"}, auth: Ids, reason: Reasons]
ReservedRow == [type: {"reserved"}, auth: Ids, attempt: Nat, charge: Amount, token: Nat]
SettledRow == [type: {"settled"}, auth: Ids, reservation: Nat, charge: Amount, token: Nat]
AbandonedRow == [type: {"abandoned"}, auth: Ids, reservation: Nat, reason: FailureCodes]

Row == RevokedRow \cup ReservedRow \cup SettledRow \cup AbandonedRow

HealthRow ==
    [binding: {approval.binding : approval \in Approvals}, type: {"success", "failure"},
     at: Nat, reservation: Nat]

Reported == [input: Nat, cached: Nat, output: Nat]

Run ==
    [pc: {"reserve"}, auth: Capability, prompt: Prompts]
        \cup [pc: {"probe", "generate"}, auth: Capability, prompt: Prompts, n: Nat]
        \cup [pc: {"settle"}, auth: Capability, prompt: Prompts, n: Nat, usage: Reported]
        \cup [pc: {"abandon"}, auth: Capability, prompt: Prompts, n: Nat, code: FailureCodes]

\* Every table and every call holds values of its columns and locals.
RTypeOK ==
    /\ approvals \subseteq Approvals
    /\ authorizations \subseteq Capability
    /\ minting \in [Issuers -> {None} \cup Minted]
    /\ ledger \in Seq(Row)
    /\ health \in Seq(HealthRow)
    /\ runs \in [Provers -> {None} \cup Run]
    /\ called \in Seq(Nat)

-----------------------------------------------------------------------------
(* The parts of the invariant *)

\* A capability was issued for a lease of its bundle that the store granted.
Leased(capability) ==
    capability.lease \in granted /\ capability.lease.job = capability.offer.bundle

\* One stored capability per id, one issue request per key, and an answer is
\* the stored capability of the request its key stands for.
CapabilitiesInv ==
    /\ \A a, b \in authorizations : a.offer.id = b.offer.id => a = b
    /\ \A a \in authorizations : Leased(a)
    /\ \A i \in Issuers : minting[i] # None => Leased(minting[i].capability)
    /\ \A r, s \in authorization_keys :
           r.scope = "issue" /\ s.scope = "issue" /\ r.key = s.key => r.request = s.request
    /\ \A c \in capabilities :
           /\ c.capability \in authorizations
           /\ \E r \in authorization_keys :
                  r.scope = "issue" /\ r.key = c.key /\ r.request = IssueRequest(c.capability)

\* Every row of the ledger is one of a stored capability, under its token.
RowsAuthorized ==
    \A n \in DOMAIN ledger : \E a \in authorizations :
        a.offer.id = ledger[n].auth /\ (Fenced(n) => ledger[n].token = a.lease.token)

\* Reservations and settlements of one bundle are in the order of its tokens.
RowsFenced ==
    \A m, n \in DOMAIN ledger : \A a, b \in authorizations :
        /\ m < n /\ Fenced(m) /\ Fenced(n)
        /\ a.offer.id = ledger[m].auth /\ b.offer.id = ledger[n].auth
        /\ a.offer.bundle = b.offer.bundle
        => ledger[m].token <= ledger[n].token

\* No capability has more attempts than its budget allows.
AttemptsBounded ==
    \A a \in authorizations : Attempts(a.offer.id) <= a.offer.budget.attempts

LedgerInv ==
    /\ LedgerReplays
    /\ RevocationFinal
    /\ RowsAuthorized
    /\ RowsFenced
    /\ AttemptsBounded
    /\ BudgetHolds

\* A call in progress has a capability, and holds its own open reservation of
\* the worst case of its prompt until it settles; only a call that fails may
\* find its reservation ended.
CallHolds(p) ==
    /\ runs[p].auth \in authorizations
    /\ runs[p].prompt.input \in Nat /\ runs[p].prompt.output \in Nat
    /\ Holding(p) =>
           /\ runs[p].n \in DOMAIN ledger
           /\ ledger[runs[p].n].type = "reserved"
           /\ ledger[runs[p].n].auth = runs[p].auth.offer.id
           /\ ledger[runs[p].n].charge = WorstCase(runs[p].auth, runs[p].prompt)
    /\ runs[p].pc \in {"probe", "generate", "settle"} => Ends(runs[p].n) = {}
    /\ runs[p].pc \in {"probe", "generate"} =>
           \A i \in DOMAIN called : called[i] # runs[p].n
    /\ runs[p].pc = "settle" => runs[p].usage \in Usages(runs[p].prompt)

CallsInv ==
    /\ \A p \in Provers : runs[p] # None => CallHolds(p)
    /\ \A i \in DOMAIN called :
           called[i] \in DOMAIN ledger /\ ledger[called[i]].type = "reserved"
    /\ \A i, j \in DOMAIN called : called[i] = called[j] => i = j
    /\ AnswersSettled
    /\ NoOrphans
    /\ CircuitJustified

RInv == LeaseInv /\ RTypeOK /\ CapabilitiesInv /\ LedgerInv /\ CallsInv

-----------------------------------------------------------------------------
(* Appending to a log *)

\* What Append does to a sequence.
LEMMA AppendFacts ==
  ASSUME NEW S, NEW s \in Seq(S), NEW e \in S
  PROVE  /\ Append(s, e) \in Seq(S)
         /\ Len(s) \in Nat
         /\ DOMAIN s = 1 .. Len(s)
         /\ DOMAIN Append(s, e) = DOMAIN s \cup {Len(s) + 1}
         /\ Len(s) + 1 \notin DOMAIN s
         /\ \A n \in DOMAIN s : Append(s, e)[n] = s[n]
         /\ Append(s, e)[Len(s) + 1] = e
  OBVIOUS

\* The ledger after one more row.
LEMMA LedgerAppend ==
  ASSUME RTypeOK, NEW row \in Row, ledger' = Append(ledger, row)
  PROVE  /\ ledger' \in Seq(Row)
         /\ Len(ledger) \in Nat
         /\ DOMAIN ledger = 1 .. Len(ledger)
         /\ DOMAIN ledger' = DOMAIN ledger \cup {Len(ledger) + 1}
         /\ Len(ledger) + 1 \notin DOMAIN ledger
         /\ \A n \in DOMAIN ledger : ledger'[n] = ledger[n]
         /\ ledger'[Len(ledger) + 1] = row
  BY AppendFacts DEF RTypeOK

\* A row ends the reservation it names and no other.
LEMMA EndsAppend ==
  ASSUME RTypeOK, NEW row \in Row, ledger' = Append(ledger, row), NEW n
  PROVE  Ends(n)' = Ends(n) \cup
             (IF row.type \in {"settled", "abandoned"} /\ row.reservation = n
              THEN {Len(ledger) + 1} ELSE {})
  BY LedgerAppend DEF Ends

\* A row counts for its capability and its type and for no other.
LEMMA OfAppend ==
  ASSUME RTypeOK, NEW row \in Row, ledger' = Append(ledger, row), NEW a, NEW type
  PROVE  Of(a, type)' = Of(a, type) \cup
             (IF row.type = type /\ row.auth = a THEN {Len(ledger) + 1} ELSE {})
  BY LedgerAppend DEF Of

\* The rows a query selects are a finite set of positions of the ledger.
LEMMA OfFinite ==
  ASSUME RTypeOK, NEW a, NEW type
  PROVE  IsFiniteSet(Of(a, type)) /\ Attempts(a) \in Nat
  <1>1. IsFiniteSet(DOMAIN ledger)
    BY FS_Interval DEF RTypeOK
  <1>2. \A t : IsFiniteSet(Of(a, t))
    BY <1>1, FS_Subset DEF Of
  <1> QED
    BY <1>2, FS_CardinalityType DEF Attempts

\* The columns of a row.
LEMMA RowTyped ==
  ASSUME RTypeOK, NEW n \in DOMAIN ledger
  PROVE  /\ ledger[n] \in Row
         /\ n \in Nat
         /\ ledger[n].type \in {"revoked", "reserved", "settled", "abandoned"}
         /\ ledger[n].type = "reserved" => ledger[n] \in ReservedRow
         /\ ledger[n].type = "settled" => ledger[n] \in SettledRow
         /\ ledger[n].type = "abandoned" => ledger[n] \in AbandonedRow
  <1>1. ledger[n] \in Row /\ n \in Nat
    BY DEF RTypeOK
  <1> QED
    BY <1>1 DEF Row, RevokedRow, ReservedRow, SettledRow, AbandonedRow

-----------------------------------------------------------------------------
(* Appending to the ledger keeps what the ledger promises *)

\* A row that is numbered next, or that ends an open reservation, can be
\* replayed.
LEMMA ReplaysAppend ==
  ASSUME RTypeOK, LedgerReplays, NEW row \in Row, ledger' = Append(ledger, row),
         row.type \in {"settled", "abandoned"} =>
             /\ row.reservation \in DOMAIN ledger
             /\ ledger[row.reservation].type = "reserved"
             /\ Ends(row.reservation) = {},
         row.type = "reserved" => row.attempt = Attempts(row.auth) + 1
  PROVE  LedgerReplays'
  <1> DEFINE new == Len(ledger) + 1
             Same(log, a, n) == {m \in 1 .. n : log[m].type = "reserved" /\ log[m].auth = a}
  <1>0. /\ DOMAIN ledger = 1 .. Len(ledger) /\ Len(ledger) \in Nat
        /\ DOMAIN ledger' = DOMAIN ledger \cup {new}
        /\ new \notin DOMAIN ledger
        /\ \A n \in DOMAIN ledger : ledger'[n] = ledger[n]
        /\ ledger'[new] = row
    BY LedgerAppend
  <1>1. ASSUME NEW n \in DOMAIN ledger', ledger'[n].type \in {"settled", "abandoned"}
        PROVE  /\ ledger'[n].reservation \in 1 .. n - 1
               /\ ledger'[ledger'[n].reservation].type = "reserved"
               /\ (Ends(ledger[n].reservation) = {n})'
    <2> DEFINE r == ledger'[n].reservation
    <2>1. CASE n = new
      <3>1. r = row.reservation /\ r \in DOMAIN ledger /\ ledger[r].type = "reserved" /\ Ends(r) = {}
        BY <1>0, <1>1, <2>1
      <3>2. {m \in DOMAIN ledger' :
                ledger'[m].type \in {"settled", "abandoned"} /\ ledger'[m].reservation = r} = {n}
        BY <1>0, <1>1, <2>1, <3>1 DEF Ends
      <3> QED
        BY <1>0, <2>1, <3>1, <3>2 DEF Ends
    <2>2. CASE n \in DOMAIN ledger
      <3>1. /\ r = ledger[n].reservation /\ r \in 1 .. n - 1 /\ ledger[r].type = "reserved"
            /\ Ends(r) = {n}
        BY <1>0, <1>1, <2>2 DEF LedgerReplays
      <3>2. r \in DOMAIN ledger /\ ledger'[r] = ledger[r]
        BY <1>0, <2>2, <3>1
      <3>3. row.type \in {"settled", "abandoned"} => row.reservation # r
        BY <3>1
      <3>4. {m \in DOMAIN ledger' :
                ledger'[m].type \in {"settled", "abandoned"} /\ ledger'[m].reservation = r} = {n}
        BY <1>0, <3>1, <3>3 DEF Ends
      <3> QED
        BY <3>1, <3>2, <3>4 DEF Ends
    <2> QED
      BY <1>0, <2>1, <2>2
  <1>2. ASSUME NEW n \in DOMAIN ledger', ledger'[n].type = "reserved"
        PROVE  ledger'[n].attempt = Cardinality(Same(ledger', ledger'[n].auth, n))
    <2>1. CASE n = new
      <3>1. Same(ledger', row.auth, new) = Of(row.auth, "reserved") \cup {new}
        BY <1>0, <1>2, <2>1 DEF Of
      <3>2. new \notin Of(row.auth, "reserved")
        BY <1>0 DEF Of
      <3>3. Cardinality(Of(row.auth, "reserved") \cup {new}) = Attempts(row.auth) + 1
        BY <3>2, OfFinite, FS_AddElement DEF Attempts
      <3> HIDE DEF Same
      <3> QED
        BY <1>0, <1>2, <2>1, <3>1, <3>3
    <2>2. CASE n \in DOMAIN ledger
      <3>1. Same(ledger', ledger[n].auth, n) = Same(ledger, ledger[n].auth, n)
        BY <1>0, <2>2
      <3>2. ledger[n].attempt = Cardinality(Same(ledger, ledger[n].auth, n))
        BY <1>0, <1>2, <2>2 DEF LedgerReplays
      <3> HIDE DEF Same
      <3> QED
        BY <1>0, <2>2, <3>1, <3>2
    <2> QED
      BY <1>0, <2>1, <2>2
  <1> HIDE DEF new
  <1> QED
    BY <1>1, <1>2 DEF LedgerReplays

\* Nothing but a release follows a revocation.
LEMMA RevocationAppend ==
  ASSUME RTypeOK, RevocationFinal, NEW row \in Row, ledger' = Append(ledger, row),
         row.type = "abandoned" \/ ~Revoked(row.auth)
  PROVE  RevocationFinal'
  <1> SUFFICES ASSUME NEW m \in DOMAIN ledger', NEW n \in DOMAIN ledger',
                      m < n, ledger'[m].type = "revoked", ledger'[m].auth = ledger'[n].auth
               PROVE  ledger'[n].type = "abandoned"
    BY DEF RevocationFinal
  <1>0. /\ DOMAIN ledger = 1 .. Len(ledger) /\ Len(ledger) \in Nat
        /\ DOMAIN ledger' = DOMAIN ledger \cup {Len(ledger) + 1}
        /\ \A k \in DOMAIN ledger : ledger'[k] = ledger[k]
        /\ ledger'[Len(ledger) + 1] = row
    BY LedgerAppend
  <1>1. m \in DOMAIN ledger /\ ledger[m].type = "revoked"
    BY <1>0
  <1>2. CASE n \in DOMAIN ledger
    BY <1>0, <1>1, <1>2 DEF RevocationFinal
  <1>3. CASE n = Len(ledger) + 1
    BY <1>0, <1>1, <1>3 DEF Revoked, Of
  <1> QED
    BY <1>0, <1>2, <1>3

\* A row of a stored capability, in the order of the fencing tokens.
LEMMA FencedAppend ==
  ASSUME RInv, NEW row \in Row, ledger' = Append(ledger, row), NEW auth \in authorizations,
         authorizations' = authorizations, row.auth = auth.offer.id,
         row.type \in {"reserved", "settled"} =>
             row.token = auth.lease.token /\ IsCurrent(auth.lease, clock)
  PROVE  RowsAuthorized' /\ RowsFenced'
  <1> USE DEF RInv, LedgerInv
  <1> DEFINE new == Len(ledger) + 1
  <1>0. /\ DOMAIN ledger = 1 .. Len(ledger) /\ Len(ledger) \in Nat
        /\ DOMAIN ledger' = DOMAIN ledger \cup {new}
        /\ new \notin DOMAIN ledger
        /\ \A k \in DOMAIN ledger : ledger'[k] = ledger[k]
        /\ ledger'[new] = row
    BY LedgerAppend
  <1> HIDE DEF new
  <1>1. RowsAuthorized'
    <2> SUFFICES ASSUME NEW n \in DOMAIN ledger'
                 PROVE  \E a \in authorizations : a.offer.id = ledger'[n].auth
                            /\ (ledger'[n].type \in {"reserved", "settled"} => ledger'[n].token = a.lease.token)
      BY DEF RowsAuthorized, Fenced
    <2>1. CASE n = new
      BY <1>0, <2>1
    <2>2. CASE n \in DOMAIN ledger
      BY <1>0, <2>2 DEF RowsAuthorized, Fenced
    <2> QED
      BY <1>0, <2>1, <2>2
  <1>2. ASSUME NEW m \in DOMAIN ledger, Fenced(m), NEW a \in authorizations,
               a.offer.id = ledger[m].auth, a.offer.bundle = auth.offer.bundle,
               row.type \in {"reserved", "settled"}
        PROVE  ledger[m].token <= row.token
    <2>1. PICK b \in authorizations : b.offer.id = ledger[m].auth /\ ledger[m].token = b.lease.token
      BY <1>2 DEF RowsAuthorized
    <2>2. a = b
      BY <1>2, <2>1 DEF CapabilitiesInv
    <2>3. /\ a.lease \in granted /\ a.lease.job = a.offer.bundle
          /\ auth.lease \in granted /\ auth.lease.job = auth.offer.bundle
      BY DEF CapabilitiesInv, Leased
    <2>4. PICK r \in worker_leases : r.job = auth.lease.job /\ r.token = auth.lease.token
      BY <1>2 DEF IsCurrent, SameFence
    <2>5. r.token = lease_counters[r.job] /\ a.lease.token \in 1 .. lease_counters[a.lease.job]
      BY <2>3, <2>4 DEF LeaseInv, RowHasNewestToken
    <2> QED
      BY <1>2, <2>1, <2>2, <2>3, <2>4, <2>5
  <1>3. RowsFenced'
    <2> SUFFICES ASSUME NEW m \in DOMAIN ledger', NEW n \in DOMAIN ledger',
                        NEW a \in authorizations, NEW b \in authorizations,
                        m < n, Fenced(m)', Fenced(n)',
                        a.offer.id = ledger'[m].auth, b.offer.id = ledger'[n].auth,
                        a.offer.bundle = b.offer.bundle
                 PROVE  ledger'[m].token <= ledger'[n].token
      BY DEF RowsFenced
    <2>1. m \in DOMAIN ledger /\ ledger'[m] = ledger[m] /\ Fenced(m)
      BY <1>0 DEF Fenced, new
    <2>2. CASE n = new
      <3>1. b = auth /\ row.type \in {"reserved", "settled"}
        BY <1>0, <2>2 DEF CapabilitiesInv, Fenced
      <3> QED
        BY <1>0, <1>2, <2>1, <2>2, <3>1
    <2>3. CASE n \in DOMAIN ledger
      BY <1>0, <2>1, <2>3 DEF RowsFenced, Fenced
    <2> QED
      BY <1>0, <2>2, <2>3
  <1> QED
    BY <1>1, <1>3

-----------------------------------------------------------------------------
(* Attempts and budgets *)

\* A row that is not a reservation leaves every count as it is, and a
\* reservation adds one to the count of its capability.
LEMMA AttemptsAppend ==
  ASSUME RTypeOK, AttemptsBounded, NEW row \in Row, ledger' = Append(ledger, row),
         authorizations' = authorizations,
         row.type = "reserved" =>
             \A a \in authorizations :
                 a.offer.id = row.auth => Attempts(row.auth) < a.offer.budget.attempts
  PROVE  AttemptsBounded'
  <1> SUFFICES ASSUME NEW a \in authorizations
               PROVE  Attempts(a.offer.id)' <= a.offer.budget.attempts
    BY DEF AttemptsBounded
  <1> DEFINE id == a.offer.id
             new == Len(ledger) + 1
  <1>1. id = a.offer.id
    OBVIOUS
  <1>2. a.offer.budget.attempts \in Nat
    BY OfferAssumption DEF RTypeOK, Capability
  <1>3. Attempts(id) \in Nat /\ IsFiniteSet(Of(id, "reserved"))
    BY OfFinite
  <1>4. Attempts(id) <= a.offer.budget.attempts
    BY DEF AttemptsBounded
  <1>5. CASE row.type = "reserved" /\ row.auth = id
    <2>1. {n \in DOMAIN ledger' : ledger'[n].type = "reserved" /\ ledger'[n].auth = id}
              = Of(id, "reserved") \cup {new}
      BY <1>5, LedgerAppend DEF Of
    <2>2. new \notin Of(id, "reserved")
      BY LedgerAppend DEF Of
    <2>3. Cardinality(Of(id, "reserved") \cup {new}) = Attempts(id) + 1
      BY <1>3, <2>2, FS_AddElement DEF Attempts
    <2>4. Attempts(a.offer.id)' = Attempts(id) + 1
      BY <2>1, <2>3 DEF Attempts, Of
    <2> QED
      BY <1>2, <1>3, <1>5, <2>4
  <1>6. CASE ~(row.type = "reserved" /\ row.auth = id)
    <2>1. {n \in DOMAIN ledger' : ledger'[n].type = "reserved" /\ ledger'[n].auth = id}
              = Of(id, "reserved")
      BY <1>6, LedgerAppend DEF Of
    <2>2. Attempts(a.offer.id)' = Attempts(id)
      BY <2>1 DEF Attempts, Of
    <2> QED
      BY <1>4, <2>2
  <1> QED
    BY <1>5, <1>6

\* A reservation ends at most once.
LEMMA OneEnd ==
  ASSUME RTypeOK, LedgerReplays, NEW n, NEW m \in Ends(n)
  PROVE  Ends(n) = {m} /\ Max(Ends(n)) = m /\ m \in DOMAIN ledger
  <1>1. m \in DOMAIN ledger /\ ledger[m].type \in {"settled", "abandoned"}
        /\ ledger[m].reservation = n
    BY DEF Ends
  <1>2. Ends(n) = {m}
    BY <1>1 DEF LedgerReplays
  <1>3. m \in Nat
    BY <1>1, RowTyped
  <1> QED
    BY <1>1, <1>2, <1>3 DEF Max

\* What an attempt costs is an amount of tokens and money.
LEMMA ChargeTyped ==
  ASSUME RTypeOK, LedgerReplays, NEW n \in DOMAIN ledger, ledger[n].type = "reserved"
  PROVE  Charge(n) \in Amount
  <1>1. ledger[n].charge \in Amount
    BY RowTyped DEF ReservedRow
  <1>2. CASE Ends(n) = {}
    BY <1>1, <1>2 DEF Charge
  <1>3. ASSUME NEW m \in Ends(n)
        PROVE  Charge(n) \in Amount
    <2>1. Ends(n) = {m} /\ Max(Ends(n)) = m /\ m \in DOMAIN ledger
      BY <1>3, OneEnd
    <2>2. ledger[m].type \in {"settled", "abandoned"}
      BY <1>3 DEF Ends
    <2>3. ledger[m].type = "settled" => ledger[m].charge \in Amount
      BY <2>1, RowTyped DEF SettledRow
    <2>4. Charge(n) = IF ledger[m].type = "abandoned" THEN [input |-> 0, output |-> 0, cost |-> 0]
                      ELSE ledger[m].charge
      BY <2>1 DEF Charge
    <2> QED
      BY <2>2, <2>3, <2>4 DEF Amount
  <1> QED
    BY <1>2, <1>3

\* The same, before and after a step.
LEMMA ChargesTyped ==
  RTypeOK /\ LedgerReplays =>
      \A n \in DOMAIN ledger : ledger[n].type = "reserved" => Charge(n) \in Amount
  BY ChargeTyped

\* The totals of a capability are amounts.
LEMMA UsageTyped ==
  ASSUME RTypeOK, LedgerReplays, NEW a
  PROVE  Usage(a) \in Amount
  <1> DEFINE ns == Of(a, "reserved")
  <1>1. IsFiniteSet(ns)
    BY OfFinite
  <1>2. \A n \in ns : Charge(n).input \in Nat /\ Charge(n).output \in Nat /\ Charge(n).cost \in Nat
    BY ChargeTyped DEF Of, Amount
  <1> HIDE DEF ns
  <1>3. SumFunctionOnSet([n \in ns |-> Charge(n).input], ns) \in Nat
    BY <1>1, <1>2, SumRemove
  <1>4. SumFunctionOnSet([n \in ns |-> Charge(n).output], ns) \in Nat
    BY <1>1, <1>2, SumRemove
  <1>5. SumFunctionOnSet([n \in ns |-> Charge(n).cost], ns) \in Nat
    BY <1>1, <1>2, SumRemove
  <1> QED
    BY <1>3, <1>4, <1>5 DEF Usage, Charged, Amount, ns

\* The same, before and after a step.
LEMMA UsagesTyped ==
  RTypeOK /\ LedgerReplays => \A x : Usage(x) \in Amount
  BY UsageTyped

\* Less in every component.
Within(x, y) == x.input <= y.input /\ x.output <= y.output /\ x.cost <= y.cost

\* When no attempt of a capability costs more than before and none is added,
\* its totals do not grow.
LEMMA UsageShrinks ==
  ASSUME RTypeOK, LedgerReplays, RTypeOK', LedgerReplays', NEW a,
         Of(a, "reserved")' = Of(a, "reserved"),
         \A n \in Of(a, "reserved") : Within(Charge(n)', Charge(n))
  PROVE  Within(Usage(a)', Usage(a))
  <1> DEFINE ns == Of(a, "reserved")
  <1>1. IsFiniteSet(ns)
    BY OfFinite
  <1>2. \A n \in ns : Charge(n) \in Amount
    BY ChargeTyped DEF Of
  <1>3. \A n \in ns : Charge(n)' \in Amount
    <2>1. \A n \in Of(a, "reserved")' : n \in DOMAIN ledger' /\ ledger'[n].type = "reserved"
      BY DEF Of
    <2>2. (RTypeOK /\ LedgerReplays =>
              \A n \in DOMAIN ledger : ledger[n].type = "reserved" => Charge(n) \in Amount)'
      BY ChargesTyped, PTL
    <2> QED
      BY <2>1, <2>2
  <1>4. Usage(a)' = [input |-> SumFunctionOnSet([n \in ns |-> (Charge(n)').input], ns),
                     output |-> SumFunctionOnSet([n \in ns |-> (Charge(n)').output], ns),
                     cost |-> SumFunctionOnSet([n \in ns |-> (Charge(n)').cost], ns)]
    BY DEF Usage, Charged
  <1>5. Usage(a) = [input |-> SumFunctionOnSet([n \in ns |-> Charge(n).input], ns),
                    output |-> SumFunctionOnSet([n \in ns |-> Charge(n).output], ns),
                    cost |-> SumFunctionOnSet([n \in ns |-> Charge(n).cost], ns)]
    BY DEF Usage, Charged
  <1>6. \A n \in ns : Within(Charge(n)', Charge(n))
    OBVIOUS
  <1> HIDE DEF ns
  <1>7. SumFunctionOnSet([n \in ns |-> (Charge(n)').input], ns)
            <= SumFunctionOnSet([n \in ns |-> Charge(n).input], ns)
    BY <1>1, <1>2, <1>3, <1>6, SumMonotone DEF Within, Amount
  <1>8. SumFunctionOnSet([n \in ns |-> (Charge(n)').output], ns)
            <= SumFunctionOnSet([n \in ns |-> Charge(n).output], ns)
    BY <1>1, <1>2, <1>3, <1>6, SumMonotone DEF Within, Amount
  <1>9. SumFunctionOnSet([n \in ns |-> (Charge(n)').cost], ns)
            <= SumFunctionOnSet([n \in ns |-> Charge(n).cost], ns)
    BY <1>1, <1>2, <1>3, <1>6, SumMonotone DEF Within, Amount
  <1> QED
    BY <1>4, <1>5, <1>7, <1>8, <1>9 DEF Within

\* A row that does not end reservation n leaves what n costs.
LEMMA ChargeKept ==
  ASSUME RTypeOK, LedgerReplays, NEW row \in Row, ledger' = Append(ledger, row),
         NEW n \in DOMAIN ledger,
         ~(row.type \in {"settled", "abandoned"} /\ row.reservation = n)
  PROVE  Charge(n)' = Charge(n)
  <1>1. Ends(n)' = Ends(n)
    BY EndsAppend
  <1>2. \A m \in DOMAIN ledger : ledger'[m] = ledger[m]
    BY LedgerAppend
  <1>3. \A m \in Ends(n) : m \in DOMAIN ledger /\ Max(Ends(n)) = m
    BY OneEnd
  <1>4. Ends(n) # {} => ledger'[Max(Ends(n))] = ledger[Max(Ends(n))]
    BY <1>2, <1>3
  <1>5. (\E m \in Ends(n) : ledger'[m].type = "abandoned")
            <=> (\E m \in Ends(n) : ledger[m].type = "abandoned")
    BY <1>2, <1>3
  <1> HIDE DEF Ends
  <1> QED
    BY <1>1, <1>2, <1>4, <1>5 DEF Charge

\* A reservation that ends does not cost more than it reserved.
LEMMA ChargeEnds ==
  ASSUME RTypeOK, LedgerReplays, NEW row \in Row, ledger' = Append(ledger, row),
         NEW n \in DOMAIN ledger, ledger[n].type = "reserved", Ends(n) = {},
         row.type \in {"settled", "abandoned"}, row.reservation = n,
         row.type = "settled" => Within(row.charge, ledger[n].charge)
  PROVE  Within(Charge(n)', Charge(n))
  <1> DEFINE new == Len(ledger) + 1
  <1>1. Ends(n)' = {new}
    BY EndsAppend
  <1>2. ledger'[new] = row /\ Len(ledger) \in Nat
    BY LedgerAppend
  <1>3. new \in Nat
    BY <1>2
  <1> HIDE DEF new
  <1>4. Max({new}) = new
    BY <1>3 DEF Max
  <1>5. Charge(n)' = IF row.type = "abandoned" THEN [input |-> 0, output |-> 0, cost |-> 0]
                     ELSE row.charge
    BY <1>1, <1>2, <1>4 DEF Charge
  <1>6. Charge(n) = ledger[n].charge /\ ledger[n].charge \in Amount
    BY RowTyped DEF Charge, ReservedRow
  <1> QED
    BY <1>5, <1>6 DEF Within, Amount

\* What BudgetHolds says of one capability.
InBudget(used, budget) ==
    /\ used.input <= budget.input
    /\ used.output <= budget.output
    /\ used.input + used.output <= budget.total
    /\ used.cost <= budget.cost

\* A budget that holds more holds less.
LEMMA InBudgetShrinks ==
  ASSUME NEW x \in Amount, NEW y \in Amount, NEW offer \in Offers,
         Within(x, y), InBudget(y, offer.budget)
  PROVE  InBudget(x, offer.budget)
  BY OfferAssumption DEF Amount, Within, InBudget

\* Revocations, settlements and releases do not use up any budget.
LEMMA BudgetEnds ==
  ASSUME RTypeOK, LedgerReplays, BudgetHolds, RTypeOK', LedgerReplays',
         NEW row \in Row, ledger' = Append(ledger, row), authorizations' = authorizations,
         row.type # "reserved",
         row.type \in {"settled", "abandoned"} =>
             /\ row.reservation \in DOMAIN ledger
             /\ ledger[row.reservation].type = "reserved"
             /\ Ends(row.reservation) = {},
         row.type = "settled" => Within(row.charge, ledger[row.reservation].charge)
  PROVE  BudgetHolds'
  <1>1. ASSUME NEW a \in authorizations, NEW id, id = a.offer.id
        PROVE  InBudget(Usage(id)', a.offer.budget)
    <2>1. Of(id, "reserved")' = Of(id, "reserved")
      <3>1. Of(id, "reserved")' = Of(id, "reserved") \cup {}
        BY OfAppend, Zenon
      <3> QED
        BY <3>1
    <2>2. ASSUME NEW n \in Of(id, "reserved")
          PROVE  Within(Charge(n)', Charge(n))
      <3>1. n \in DOMAIN ledger /\ ledger[n].type = "reserved"
        BY DEF Of
      <3>2. Charge(n) \in Amount
        BY <3>1, ChargeTyped
      <3>3. CASE row.type \in {"settled", "abandoned"} /\ row.reservation = n
        BY <3>1, <3>3, ChargeEnds
      <3>4. CASE ~(row.type \in {"settled", "abandoned"} /\ row.reservation = n)
        <4>1. Charge(n)' = Charge(n)
          BY <3>1, <3>4, ChargeKept
        <4> QED
          BY <3>2, <4>1 DEF Within, Amount
      <3> QED
        BY <3>3, <3>4
    <2>3. Within(Usage(id)', Usage(id))
      BY <2>1, <2>2, UsageShrinks
    <2>4. Usage(id) \in Amount
      BY UsageTyped
    <2>5. Usage(id)' \in Amount
      <3>1. (RTypeOK /\ LedgerReplays => \A x : Usage(x) \in Amount)'
        BY UsagesTyped, PTL
      <3> QED
        BY <3>1
    <2>6. InBudget(Usage(id), a.offer.budget)
      BY <1>1 DEF BudgetHolds, InBudget
    <2>7. a.offer \in Offers
      BY DEF RTypeOK, Capability
    <2> QED
      BY <2>3, <2>4, <2>5, <2>6, <2>7, InBudgetShrinks
  <1> QED
    BY <1>1 DEF BudgetHolds, InBudget

\* The larger of two prices.
LEMMA MaxOfTwo ==
  ASSUME NEW x \in Nat, NEW y \in Nat
  PROVE  Max({x, y}) \in Nat /\ x <= Max({x, y}) /\ y <= Max({x, y})
  <1>1. \E z \in {x, y} : \A w \in {x, y} : z >= w
    OBVIOUS
  <1>2. Max({x, y}) \in {x, y} /\ \A w \in {x, y} : Max({x, y}) >= w
    BY <1>1 DEF Max
  <1> QED
    BY <1>2

\* The worst case of a call that fits its capability is an amount.
LEMMA WorstCaseTyped ==
  ASSUME NEW auth \in Capability, NEW request, RequestFits(auth, request)
  PROVE  /\ request.input \in Nat /\ request.output \in Nat
         /\ WorstCase(auth, request) \in Amount
  <1>1. auth.offer \in Offers /\ auth.approval \in Approvals
    BY DEF Capability
  <1>2. request.input \in Nat /\ request.output \in Nat
    BY <1>1, OfferAssumption DEF RequestFits
  <1> DEFINE rates == auth.approval.rates
             dearest == Max({rates.input, rates.cached})
  <1>3. dearest \in Nat /\ rates.output \in Nat
    BY <1>1, OfferAssumption, MaxOfTwo
  <1>4. dearest * request.input + rates.output * request.output \in Nat
    <2> HIDE DEF dearest
    <2>1. dearest * request.input \in Nat /\ rates.output * request.output \in Nat
      BY <1>2, <1>3
    <2> QED
      BY <2>1
  <1> QED
    BY <1>2, <1>4 DEF WorstCase, ReserveCost, Amount

\* A reservation is a row of the ledger.
LEMMA ReservationTyped ==
  ASSUME RTypeOK, NEW auth \in authorizations, NEW request, RequestFits(auth, request)
  PROVE  Reservation(auth, request) \in ReservedRow
  <1>1. auth \in Capability
    BY DEF RTypeOK
  <1>2. WorstCase(auth, request) \in Amount
    BY <1>1, WorstCaseTyped
  <1>3. Attempts(auth.offer.id) + 1 \in Nat
    <2>1. Attempts(auth.offer.id) \in Nat
      BY OfFinite
    <2> QED
      BY <2>1
  <1>4. auth.offer.id \in Ids /\ auth.lease.token \in Nat
    BY <1>1 DEF Capability, Ids, Lease
  <1> QED
    BY <1>2, <1>3, <1>4 DEF Reservation, ReservedRow

\* Sums when one position with a given term is added.
LEMMA SumExtends ==
  ASSUME NEW f, NEW g, NEW S, IsFiniteSet(S), NEW x, x \notin S,
         \A y \in S : f[y] \in Nat /\ g[y] = f[y], g[x] \in Nat
  PROVE  SumFunctionOnSet(g, S \cup {x}) = g[x] + SumFunctionOnSet(f, S)
  <1>1. SumFunctionOnSet(f, S) = SumFunctionOnSet(g, S)
    BY SumSame
  <1>2. \A y \in S \cup {x} : g[y] \in Nat
    OBVIOUS
  <1>3. SumFunctionOnSet(g, S \cup {x}) = g[x] + SumFunctionOnSet(g, S)
    BY <1>2, SumAdd
  <1> QED
    BY <1>1, <1>3

\* reserve() adds the worst case to the totals of its capability.
LEMMA UsageReserved ==
  ASSUME RTypeOK, LedgerReplays, NEW row \in ReservedRow, ledger' = Append(ledger, row),
         NEW a, a = row.auth
  PROVE  Usage(a)' = [input |-> row.charge.input + Usage(a).input,
                      output |-> row.charge.output + Usage(a).output,
                      cost |-> row.charge.cost + Usage(a).cost]
  <1>0. PICK new : new = Len(ledger) + 1
    OBVIOUS
  <1> DEFINE ns == Of(a, "reserved")
             ms == ns \cup {new}
  <1>1. row \in Row /\ row.type = "reserved" /\ row.charge \in Amount
    BY DEF Row, ReservedRow
  <1>2. Of(a, "reserved")' = ms
    BY <1>0, <1>1, OfAppend
  <1>3. IsFiniteSet(ns)
    BY OfFinite
  <1>4. new \notin ns
    BY <1>0, <1>1, LedgerAppend DEF Of
  <1>5. \A n \in ns : Charge(n)' = Charge(n) /\ Charge(n) \in Amount
    BY <1>1, ChargeKept, ChargeTyped DEF Of
  <1>6. Charge(new)' = row.charge
    <2>1. /\ DOMAIN ledger = 1 .. Len(ledger) /\ Len(ledger) \in Nat
          /\ DOMAIN ledger' = DOMAIN ledger \cup {new}
          /\ \A k \in DOMAIN ledger : ledger'[k] = ledger[k]
          /\ ledger'[new] = row
      BY <1>0, <1>1, LedgerAppend
    <2>2. \A m \in DOMAIN ledger : ledger[m].type \in {"settled", "abandoned"} =>
              ledger[m].reservation # new
      <3> SUFFICES ASSUME NEW m \in DOMAIN ledger, ledger[m].type \in {"settled", "abandoned"}
                   PROVE  ledger[m].reservation # new
        OBVIOUS
      <3>1. ledger[m].reservation \in 1 .. m - 1
        BY DEF LedgerReplays
      <3> QED
        BY <1>0, <2>1, <3>1
    <2>3. {m \in DOMAIN ledger' :
              ledger'[m].type \in {"settled", "abandoned"} /\ ledger'[m].reservation = new} = {}
      BY <1>1, <2>1, <2>2
    <2>4. Ends(new)' = {}
      BY <2>3 DEF Ends
    <2> QED
      BY <2>1, <2>4 DEF Charge
  <1> HIDE DEF ns
  <1>7. SumFunctionOnSet([n \in ms |-> (Charge(n)').input], ms)
            = row.charge.input + SumFunctionOnSet([n \in ns |-> Charge(n).input], ns)
    <2> DEFINE g == [n \in ms |-> (Charge(n)').input]
               f == [n \in ns |-> Charge(n).input]
    <2>1. g[new] = row.charge.input /\ g[new] \in Nat
      BY <1>1, <1>6 DEF Amount
    <2>2. \A y \in ns : f[y] \in Nat /\ g[y] = f[y]
      BY <1>5 DEF Amount
    <2> HIDE DEF f, g
    <2> QED
      BY <1>3, <1>4, <2>1, <2>2, SumExtends DEF f, g
  <1>8. SumFunctionOnSet([n \in ms |-> (Charge(n)').output], ms)
            = row.charge.output + SumFunctionOnSet([n \in ns |-> Charge(n).output], ns)
    <2> DEFINE g == [n \in ms |-> (Charge(n)').output]
               f == [n \in ns |-> Charge(n).output]
    <2>1. g[new] = row.charge.output /\ g[new] \in Nat
      BY <1>1, <1>6 DEF Amount
    <2>2. \A y \in ns : f[y] \in Nat /\ g[y] = f[y]
      BY <1>5 DEF Amount
    <2> HIDE DEF f, g
    <2> QED
      BY <1>3, <1>4, <2>1, <2>2, SumExtends DEF f, g
  <1>9. SumFunctionOnSet([n \in ms |-> (Charge(n)').cost], ms)
            = row.charge.cost + SumFunctionOnSet([n \in ns |-> Charge(n).cost], ns)
    <2> DEFINE g == [n \in ms |-> (Charge(n)').cost]
               f == [n \in ns |-> Charge(n).cost]
    <2>1. g[new] = row.charge.cost /\ g[new] \in Nat
      BY <1>1, <1>6 DEF Amount
    <2>2. \A y \in ns : f[y] \in Nat /\ g[y] = f[y]
      BY <1>5 DEF Amount
    <2> HIDE DEF f, g
    <2> QED
      BY <1>3, <1>4, <2>1, <2>2, SumExtends DEF f, g
  <1>10. Usage(a) = [input |-> SumFunctionOnSet([n \in ns |-> Charge(n).input], ns),
                     output |-> SumFunctionOnSet([n \in ns |-> Charge(n).output], ns),
                     cost |-> SumFunctionOnSet([n \in ns |-> Charge(n).cost], ns)]
    BY DEF Usage, Charged, ns
  <1>11. Usage(a)' = [input |-> SumFunctionOnSet([n \in ms |-> (Charge(n)').input], ms),
                      output |-> SumFunctionOnSet([n \in ms |-> (Charge(n)').output], ms),
                      cost |-> SumFunctionOnSet([n \in ms |-> (Charge(n)').cost], ms)]
    <2> HIDE DEF ms
    <2> QED
      BY <1>2 DEF Usage, Charged
  <1> QED
    BY <1>7, <1>8, <1>9, <1>10, <1>11

\* A reservation within the limits keeps every capability within its budget.
LEMMA BudgetReserves ==
  ASSUME RTypeOK, LedgerReplays, BudgetHolds, CapabilitiesInv, RTypeOK', LedgerReplays',
         NEW auth \in authorizations, NEW request, CanReserve(auth, request),
         ledger' = Append(ledger, Reservation(auth, request)),
         authorizations' = authorizations
  PROVE  BudgetHolds'
  <1>1. RequestFits(auth, request)
    BY DEF CanReserve, Authorized
  <1>2. PICK row : row = Reservation(auth, request)
    OBVIOUS
  <1>3. row \in ReservedRow /\ row \in Row /\ row.type = "reserved" /\ row.auth = auth.offer.id
        /\ row.charge = WorstCase(auth, request)
    BY <1>1, <1>2, ReservationTyped DEF Row, ReservedRow, Reservation
  <1>4. ASSUME NEW a \in authorizations, NEW id, id = a.offer.id
        PROVE  InBudget(Usage(id)', a.offer.budget)
    <2>1. a.offer \in Offers
      BY DEF RTypeOK, Capability
    <2>2. Usage(id) \in Amount
      BY UsageTyped
    <2>3. CASE id = row.auth
      <3>1. a = auth
        BY <1>3, <1>4, <2>3 DEF CapabilitiesInv
      <3>2. Usage(id)' = [input |-> row.charge.input + Usage(id).input,
                          output |-> row.charge.output + Usage(id).output,
                          cost |-> row.charge.cost + Usage(id).cost]
        BY <1>2, <1>3, <2>3, UsageReserved
      <3>3. row.charge \in Amount
        BY <1>3 DEF ReservedRow
      <3>4. /\ Usage(id).input + row.charge.input <= a.offer.budget.input
            /\ Usage(id).output + row.charge.output <= a.offer.budget.output
            /\ Usage(id).input + Usage(id).output + row.charge.input + row.charge.output
                   <= a.offer.budget.total
            /\ Usage(id).cost + row.charge.cost <= a.offer.budget.cost
        <4>1. PICK w : w = WorstCase(auth, request)
          OBVIOUS
        <4>2. PICK u : u = Usage(auth.offer.id)
          OBVIOUS
        <4> QED
          BY <1>3, <1>4, <3>1, <4>1, <4>2 DEF CanReserve
      <3>5. PICK used, more \in Amount : used = Usage(id) /\ more = row.charge
        BY <2>2, <3>3
      <3>6. PICK next : next = Usage(id)'
        OBVIOUS
      <3>7. next = [input |-> more.input + used.input, output |-> more.output + used.output,
                    cost |-> more.cost + used.cost]
        BY <3>2, <3>5, <3>6
      <3>8. InBudget(next, a.offer.budget)
        BY <2>1, <3>4, <3>5, <3>7, OfferAssumption, SMTT(30) DEF InBudget, Amount
      <3> QED
        BY <3>6, <3>8
    <2>4. CASE id # row.auth
      <3>1. Of(id, "reserved")' = Of(id, "reserved")
        <4>1. ledger' = Append(ledger, row)
          BY <1>2
        <4>2. Of(id, "reserved")' = Of(id, "reserved") \cup
                  (IF row.type = "reserved" /\ row.auth = id THEN {Len(ledger) + 1} ELSE {})
          BY <1>3, <4>1, OfAppend, Zenon
        <4> QED
          BY <2>4, <4>2
      <3>2. \A n \in Of(id, "reserved") : Within(Charge(n)', Charge(n))
        BY <1>2, <1>3, ChargeKept, ChargeTyped DEF Of, Within, Amount
      <3>3. Within(Usage(id)', Usage(id))
        BY <3>1, <3>2, UsageShrinks
      <3>4. Usage(id)' \in Amount
        <4>1. (RTypeOK /\ LedgerReplays => \A x : Usage(x) \in Amount)'
          BY UsagesTyped, PTL
        <4> QED
          BY <4>1
      <3>5. InBudget(Usage(id), a.offer.budget)
        BY <1>4 DEF BudgetHolds, InBudget
      <3> QED
        BY <2>1, <2>2, <3>3, <3>4, <3>5, InBudgetShrinks
    <2> QED
      BY <2>3, <2>4
  <1> QED
    BY <1>4 DEF BudgetHolds, InBudget

\* A capability without rows has used nothing.
LEMMA UnusedBudget ==
  ASSUME NEW a, \A n \in DOMAIN ledger : ledger[n].auth # a, NEW offer \in Offers
  PROVE  /\ Attempts(a) = 0
         /\ InBudget(Usage(a), offer.budget)
  <1>1. Of(a, "reserved") = {}
    BY DEF Of
  <1>2. Attempts(a) = 0
    BY <1>1, FS_EmptySet DEF Attempts
  <1>3. Usage(a) = [input |-> 0, output |-> 0, cost |-> 0]
    <2>1. Usage(a) = Charged({})
      BY <1>1 DEF Usage
    <2> QED
      BY <2>1, SumEmpty DEF Charged
  <1> QED
    BY <1>2, <1>3, OfferAssumption DEF InBudget

-----------------------------------------------------------------------------
(* Initial states, and steps that leave ledger and calls alone *)

\* The empty database satisfies the invariant.
LEMMA RInitInv == RInit => RInv
  <1> SUFFICES ASSUME RInit PROVE RInv
    OBVIOUS
  <1> USE DEF RInit, AuthorizationInit
  <1>1. LeaseInv
    BY LeaseInitInv
  <1>2. RTypeOK
    BY DEF RTypeOK
  <1>3. CapabilitiesInv
    BY DEF CapabilitiesInv
  <1>4. LedgerInv
    BY DEF LedgerInv, LedgerReplays, RevocationFinal, RowsAuthorized, RowsFenced,
       AttemptsBounded, BudgetHolds
  <1>5. CallsInv
    BY DEF CallsInv, AnswersSettled, NoOrphans, CircuitJustified, Holding, None
  <1> QED
    BY <1>1, <1>2, <1>3, <1>4, <1>5 DEF RInv

\* Counts and totals depend on the rows of the ledger only.
LEMMA TotalsSame ==
  ASSUME UNCHANGED ledger
  PROVE  /\ \A a, t : Of(a, t)' = Of(a, t)
         /\ \A n : Ends(n)' = Ends(n)
         /\ \A a : Attempts(a)' = Attempts(a)
         /\ \A a : Usage(a)' = Usage(a)
  <1>1. \A a, t : Of(a, t)' = Of(a, t)
    BY DEF Of
  <1>2. \A n : Ends(n)' = Ends(n)
    BY DEF Ends
  <1>3. \A a : Attempts(a)' = Attempts(a)
    BY <1>1 DEF Attempts
  <1>4. \A n : Charge(n)' = Charge(n)
    BY <1>2 DEF Charge
  <1>5. ASSUME NEW a
        PROVE  Usage(a)' = Usage(a)
    <2>1. PICK ns : ns = Of(a, "reserved")
      OBVIOUS
    <2>2. Usage(a) = Charged(ns) /\ Usage(a)' = Charged(ns)'
      BY <1>1, <2>1 DEF Usage
    <2>3. Charged(ns)' = Charged(ns)
      BY <1>4 DEF Charged
    <2> QED
      BY <2>2, <2>3
  <1> QED
    BY <1>1, <1>2, <1>3, <1>5

\* What the ledger promises depends on its rows and the capabilities only.
LEMMA LedgerSame ==
  ASSUME LedgerInv, UNCHANGED <<ledger, authorizations>>
  PROVE  LedgerInv'
  <1>1. LedgerReplays' /\ RevocationFinal'
    BY TotalsSame, SMTT(30) DEF LedgerInv, LedgerReplays, RevocationFinal
  <1>2. RowsAuthorized' /\ RowsFenced'
    BY DEF LedgerInv, RowsAuthorized, RowsFenced, Fenced
  <1>3. AttemptsBounded'
    BY TotalsSame DEF LedgerInv, AttemptsBounded
  <1>4. BudgetHolds'
    BY TotalsSame DEF LedgerInv, BudgetHolds
  <1> QED
    BY <1>1, <1>2, <1>3, <1>4 DEF LedgerInv

\* What is said of calls depends on them, the ledger and the capabilities.
LEMMA CallsSame ==
  ASSUME CallsInv, UNCHANGED <<ledger, health, runs, called, answered, lost>>,
         authorizations \subseteq authorizations'
  PROVE  CallsInv'
  <1>1. \A p \in Provers : runs[p] # None => CallHolds(p)'
    BY DEF CallsInv, CallHolds, Holding, Ends
  <1> QED
    BY <1>1 DEF CallsInv, AnswersSettled, NoOrphans, CircuitJustified, Holding, Ends

\* The lease store never forgets a lease it granted.
LEMMA GrantedGrows ==
  ASSUME LeaseInv, [LeaseNext]_leaseVars
  PROVE  granted \subseteq granted'
  BY DEF LeaseNext, leaseVars, Tick, LeaseClaim, ClaimFresh, ClaimAgain, LeaseRenew, Renew,
     LeaseRelease, ReleaseCheck, ReleaseDelete

\* A step of the lease store keeps what was issued for its leases.
LEMMA LeaseStepInv ==
  ASSUME RInv, [LeaseNext]_leaseVars, UNCHANGED <<authorizationVars, runs, called, answered, lost>>
  PROVE  RInv'
  <1> USE DEF RInv, authorizationVars
  <1>1. LeaseInv'
    BY LeaseNextInv
  <1>2. RTypeOK'
    BY DEF RTypeOK
  <1>3. CapabilitiesInv'
    <2>1. granted \subseteq granted'
      BY GrantedGrows
    <2> QED
      BY <2>1 DEF CapabilitiesInv, Leased, IssueRequest
  <1>4. LedgerInv' /\ CallsInv'
    BY LedgerSame, CallsSame
  <1> QED
    BY <1>1, <1>2, <1>3, <1>4

\* register_operator_approval preserves the invariant.
LEMMA ApprovalInv ==
  ASSUME RInv, NEW approval \in Approvals, NEW key, RegisterApproval(approval, key),
         UNCHANGED <<leaseVars, registryVars>>
  PROVE  RInv'
  <1> USE DEF RInv, RegisterApproval, registryVars
  <1>1. LeaseInv'
    BY LeaseNextInv
  <1>2. RTypeOK'
    BY DEF RTypeOK
  <1>3. CapabilitiesInv'
    BY DEF CapabilitiesInv, Leased, IssueRequest, leaseVars
  <1>4. LedgerInv' /\ CallsInv'
    BY LedgerSame, CallsSame
  <1> QED
    BY <1>1, <1>2, <1>3, <1>4

\* issue() up to the signature preserves the invariant.
LEMMA MintInv ==
  ASSUME RInv, NEW i \in Issuers, NEW offer \in Offers, NEW key \in Keys.issue,
         NEW lease \in granted, Mint(i, offer, key, lease), UNCHANGED <<leaseVars, registryVars>>
  PROVE  RInv'
  <1> USE DEF RInv, registryVars
  <1>1. PICK approval \in StoredApproval(offer.approval) :
            minting' = [minting EXCEPT ![i] =
                [pc |-> "minted", key |-> key,
                 capability |-> [offer |-> offer, lease |-> lease, approval |-> approval,
                                 issued_at |-> clock, expires |-> clock + offer.ttl,
                                 issuer |-> i]]]
    BY DEF Mint
  <1>2. UNCHANGED <<approvals, approval_keys, authorizations, authorization_keys, ledger,
                    health, capabilities>>
    BY DEF Mint
  <1> DEFINE capability == [offer |-> offer, lease |-> lease, approval |-> approval,
                            issued_at |-> clock, expires |-> clock + offer.ttl, issuer |-> i]
  <1>3. capability \in Capability
    <2>1. approval \in Approvals
      BY DEF RTypeOK, StoredApproval
    <2>2. lease \in Lease /\ clock \in Nat
      BY DEF LeaseInv, LeaseTypeOK
    <2>3. offer.ttl \in Nat
      BY AuthorizationAssumption DEF Mint, ValidTtl
    <2> QED
      BY <2>1, <2>2, <2>3 DEF Capability
  <1>4. capability.lease = lease /\ capability.offer = offer
    OBVIOUS
  <1>5. lease.job = offer.bundle
    BY DEF Mint, Frozen
  <1> HIDE DEF capability
  <1>6. minting' = [minting EXCEPT ![i] = [pc |-> "minted", key |-> key, capability |-> capability]]
    BY <1>1 DEF capability
  <1>7. LeaseInv'
    BY LeaseNextInv
  <1>8. RTypeOK'
    BY <1>2, <1>3, <1>6 DEF RTypeOK, Minted
  <1>9. CapabilitiesInv'
    <2>1. \A j \in Issuers : minting'[j] # None => Leased(minting'[j].capability)
      BY <1>4, <1>5, <1>6 DEF CapabilitiesInv, Leased, RTypeOK
    <2> QED
      BY <1>2, <2>1 DEF CapabilitiesInv, Leased, IssueRequest, leaseVars
  <1>10. LedgerInv' /\ CallsInv'
    BY <1>2, LedgerSame, CallsSame
  <1> QED
    BY <1>7, <1>8, <1>9, <1>10

\* A call of issue() that dies preserves the invariant.
LEMMA ForgetInv ==
  ASSUME RInv, NEW i \in Issuers, Forget(i), UNCHANGED <<leaseVars, registryVars>>
  PROVE  RInv'
  <1> USE DEF RInv, Forget, registryVars
  <1>1. LeaseInv'
    BY LeaseNextInv
  <1>2. RTypeOK'
    BY DEF RTypeOK
  <1>3. CapabilitiesInv'
    BY DEF CapabilitiesInv, Leased, IssueRequest, leaseVars, RTypeOK
  <1>4. LedgerInv' /\ CallsInv'
    BY LedgerSame, CallsSame
  <1> QED
    BY <1>1, <1>2, <1>3, <1>4

\* issue(), its transaction, preserves the invariant.
LEMMA CommitInv ==
  ASSUME RInv, NEW i \in Issuers, Commit(i), UNCHANGED <<leaseVars, registryVars>>
  PROVE  RInv'
  <1> USE DEF RInv, registryVars
  <1>0. PICK new, key : new = minting[i].capability /\ key = minting[i].key
    OBVIOUS
  <1>1. PICK answers : answers = IF Stored(new) = {} THEN {new} ELSE Stored(new)
    OBVIOUS
  <1>2. /\ minting[i] # None
        /\ Consistent(key, new)
        /\ authorizations' = authorizations \cup answers
        /\ authorization_keys' = authorization_keys \cup
               {[scope |-> "issue", key |-> key, request |-> IssueRequest(new)]}
        /\ capabilities' = capabilities \cup {[key |-> key, capability |-> answer] : answer \in answers}
        /\ minting' = [minting EXCEPT ![i] = None]
        /\ UNCHANGED <<approvals, approval_keys, ledger, health>>
    BY <1>0, <1>1 DEF Commit
  <1>3. new \in Capability /\ Leased(new)
    BY <1>0, <1>2 DEF RTypeOK, Minted, CapabilitiesInv
  <1>4. /\ answers # {}
        /\ \A a \in answers : a.offer.id = new.offer.id /\ IssueRequest(a) = IssueRequest(new)
        /\ \A a \in answers : a \in authorizations \/ (a = new /\ Stored(new) = {})
    BY <1>1, <1>2 DEF Stored, Consistent
  <1>5. \A a \in authorizations' : a \notin authorizations =>
            /\ a = new
            /\ \A b \in authorizations : b.offer.id # new.offer.id
    BY <1>2, <1>4 DEF Stored
  <1>6. LeaseInv'
    BY LeaseNextInv
  <1>7. RTypeOK'
    BY <1>2, <1>3, <1>4 DEF RTypeOK
  <1>8. CapabilitiesInv'
    <2>1. \A a, b \in authorizations' : a.offer.id = b.offer.id => a = b
      BY <1>5 DEF CapabilitiesInv
    <2>2. \A a \in authorizations' : Leased(a)'
      BY <1>3, <1>5 DEF CapabilitiesInv, Leased, leaseVars
    <2>3. \A j \in Issuers : minting'[j] # None => Leased(minting[j].capability)'
      BY <1>2 DEF CapabilitiesInv, Leased, leaseVars, RTypeOK
    <2>4. \A r, s \in authorization_keys' :
              r.scope = "issue" /\ s.scope = "issue" /\ r.key = s.key => r.request = s.request
      <3>1. \A r \in authorization_keys :
                r.scope = "issue" /\ r.key = key => r.request = IssueRequest(new)
        BY <1>2 DEF Consistent
      <3>2. PICK request : request = IssueRequest(new)
        OBVIOUS
      <3> QED
        BY <1>2, <3>1, <3>2 DEF CapabilitiesInv
    <2>5. ASSUME NEW c \in capabilities'
          PROVE  /\ c.capability \in authorizations'
                 /\ \E r \in authorization_keys' :
                        r.scope = "issue" /\ r.key = c.key /\ r.request = IssueRequest(c.capability)
      <3>1. CASE c \in capabilities
        BY <1>2, <3>1 DEF CapabilitiesInv
      <3>2. CASE c \notin capabilities
        <4>1. PICK a \in answers : c = [key |-> key, capability |-> a]
          BY <1>2, <3>2
        <4>2. PICK request : request = IssueRequest(new)
          OBVIOUS
        <4>3. IssueRequest(c.capability) = request
          BY <1>4, <4>1, <4>2
        <4>4. c.capability \in authorizations' /\ c.key = key
          BY <1>2, <4>1
        <4>5. PICK r : r = [scope |-> "issue", key |-> key, request |-> request]
          OBVIOUS
        <4>6. r \in authorization_keys' /\ r.scope = "issue" /\ r.key = key /\ r.request = request
          BY <1>2, <4>2, <4>5
        <4> QED
          BY <4>3, <4>4, <4>6
      <3> QED
        BY <3>1, <3>2
    <2> QED
      BY <2>1, <2>2, <2>3, <2>4, <2>5 DEF CapabilitiesInv, IssueRequest
  <1>9. LedgerInv'
    <2>1. LedgerReplays' /\ RevocationFinal'
      BY <1>2, TotalsSame, SMTT(30) DEF LedgerInv, LedgerReplays, RevocationFinal
    <2>2. RowsAuthorized'
      BY <1>2 DEF LedgerInv, RowsAuthorized, Fenced
    <2>3. \A a \in authorizations', n \in DOMAIN ledger :
              a.offer.id = ledger[n].auth => a \in authorizations
      BY <1>5 DEF LedgerInv, RowsAuthorized
    <2>4. RowsFenced'
      BY <1>2, <2>3 DEF LedgerInv, RowsFenced, Fenced
    <2>5. \A a \in authorizations' :
              /\ Attempts(a.offer.id) <= a.offer.budget.attempts
              /\ InBudget(Usage(a.offer.id), a.offer.budget)
      <3> SUFFICES ASSUME NEW a \in authorizations'
                   PROVE  /\ Attempts(a.offer.id) <= a.offer.budget.attempts
                          /\ InBudget(Usage(a.offer.id), a.offer.budget)
        OBVIOUS
      <3>1. CASE a \in authorizations
        BY <3>1 DEF LedgerInv, AttemptsBounded, BudgetHolds, InBudget
      <3>2. CASE a \notin authorizations
        <4>1. \A n \in DOMAIN ledger : ledger[n].auth # a.offer.id
          BY <2>3, <3>2
        <4>2. a.offer \in Offers /\ a.offer.budget.attempts \in Nat
          BY <1>3, <1>5, <3>2, OfferAssumption DEF Capability
        <4> QED
          BY <4>1, <4>2, UnusedBudget
      <3> QED
        BY <3>1, <3>2
    <2>6. AttemptsBounded'
      BY <1>2, <2>5, TotalsSame DEF AttemptsBounded
    <2>7. BudgetHolds'
      BY <1>2, <2>5, TotalsSame DEF BudgetHolds, InBudget
    <2> QED
      BY <2>1, <2>2, <2>4, <2>6, <2>7 DEF LedgerInv
  <1>10. CallsInv'
    BY <1>2, CallsSame
  <1> QED
    BY <1>6, <1>7, <1>8, <1>9, <1>10

\* Registering a provider, or changing a provider object, preserves the invariant.
LEMMA QuietInv ==
  ASSUME RInv, UNCHANGED <<leaseVars, authorizationVars, runs, called, answered, lost>>
  PROVE  RInv'
  BY LeaseStepInv DEF leaseVars

-----------------------------------------------------------------------------
(* What a growing ledger leaves of the calls *)

\* The ledger keeps the rows it has.
LedgerGrows == \A n \in DOMAIN ledger : n \in DOMAIN ledger' /\ ledger'[n] = ledger[n]

\* What ended stays ended.
LEMMA EndsGrow ==
  ASSUME LedgerGrows, NEW n, NEW m \in Ends(n)
  PROVE  m \in Ends(n)' /\ ledger'[m] = ledger[m]
  BY DEF LedgerGrows, Ends

\* A call that no step touches, and whose reservation no row ends, holds it.
LEMMA CallKept ==
  ASSUME LedgerGrows, NEW p \in Provers, CallHolds(p), runs'[p] = runs[p], NEW n,
         n = runs[p].n, Holding(p) => Ends(n)' = Ends(n),
         authorizations' = authorizations,
         \A i \in DOMAIN called' : called'[i] = n /\ Holding(p) =>
             i \in DOMAIN called /\ called[i] = n
  PROVE  CallHolds(p)'
  <1>1. runs[p].pc \in {"probe", "generate", "settle"} => Ends(n)' = {}
    BY DEF CallHolds, Holding
  <1>2. runs[p].pc \in {"probe", "generate"} => \A i \in DOMAIN called' : called'[i] # n
    BY DEF CallHolds, Holding
  <1>3. Ends(n)' = {} => (Ends(runs[p].n) = {})'
    BY DEF Ends
  <1> QED
    BY <1>1, <1>2, <1>3 DEF CallHolds, Holding, LedgerGrows

\* A response that was settled stays settled.
LEMMA AnswersKept ==
  ASSUME LedgerGrows, AnswersSettled, answered' = answered
  PROVE  AnswersSettled'
  <1> SUFFICES ASSUME NEW a \in answered
               PROVE  \E m \in Ends(a.n)' : /\ ledger'[m].type = "settled"
                                            /\ ledger'[m].charge.input = a.usage.input
                                            /\ ledger'[m].charge.output = a.usage.output
    BY DEF AnswersSettled
  <1>1. PICK m \in Ends(a.n) : /\ ledger[m].type = "settled"
                               /\ ledger[m].charge.input = a.usage.input
                               /\ ledger[m].charge.output = a.usage.output
    BY DEF AnswersSettled
  <1>2. PICK n : n = a.n
    OBVIOUS
  <1>3. m \in Ends(n)' /\ ledger'[m] = ledger[m]
    BY <1>2, EndsGrow
  <1> QED
    BY <1>1, <1>2, <1>3

\* What one health event says of the ledger.
Justified(e) ==
    \E m \in Ends(e.reservation) :
        IF e.type = "success" THEN ledger[m].type = "settled"
        ELSE ledger[m].type = "abandoned" /\ ledger[m].reason \in HealthCodes

\* An event that was justified stays justified.
LEMMA JustifiedKept ==
  ASSUME LedgerGrows, NEW e, Justified(e)
  PROVE  Justified(e)'
  <1>1. PICK m \in Ends(e.reservation) :
            IF e.type = "success" THEN ledger[m].type = "settled"
            ELSE ledger[m].type = "abandoned" /\ ledger[m].reason \in HealthCodes
    BY DEF Justified
  <1>2. PICK n : n = e.reservation
    OBVIOUS
  <1>3. m \in Ends(n)' /\ ledger'[m] = ledger[m]
    BY <1>2, EndsGrow
  <1> QED
    BY <1>1, <1>2, <1>3 DEF Justified

\* Without a new health event the circuit is justified as before.
LEMMA CircuitKept ==
  ASSUME LedgerGrows, CircuitJustified, health' = health
  PROVE  CircuitJustified'
  <1>1. \A k \in DOMAIN health : Justified(health[k])
    BY DEF CircuitJustified, Justified
  <1>2. \A k \in DOMAIN health : Justified(health[k])'
    <2> SUFFICES ASSUME NEW k \in DOMAIN health
                 PROVE  Justified(health[k])'
      OBVIOUS
    <2>1. PICK e : e = health[k]
      OBVIOUS
    <2>2. Justified(e)'
      BY <1>1, <2>1, JustifiedKept
    <2> QED
      BY <2>1, <2>2
  <1> QED
    BY <1>2 DEF CircuitJustified, Justified

\* A new health event of an attempt that had not ended.
LEMMA CircuitAppend ==
  ASSUME LedgerGrows, CircuitJustified, RTypeOK, NEW e \in HealthRow,
         health' = Append(health, e), Justified(e)', Ends(e.reservation) = {}
  PROVE  CircuitJustified'
  <1> DEFINE new == Len(health) + 1
  <1>1. /\ DOMAIN health' = DOMAIN health \cup {new}
        /\ new \notin DOMAIN health
        /\ \A k \in DOMAIN health : health'[k] = health[k]
        /\ health'[new] = e
    BY AppendFacts DEF RTypeOK
  <1> HIDE DEF new
  <1>2. \A k \in DOMAIN health : Justified(health[k])
    BY DEF CircuitJustified, Justified
  <1>3. \A k \in DOMAIN health : health[k].reservation # e.reservation
    BY <1>2 DEF Justified
  <1>4. ASSUME NEW k \in DOMAIN health'
        PROVE  Justified(health[k])'
    <2>1. PICK f : f = health'[k]
      OBVIOUS
    <2>2. Justified(f)'
      <3>1. CASE k = new
        BY <1>1, <2>1, <3>1
      <3>2. CASE k \in DOMAIN health
        BY <1>1, <1>2, <2>1, <3>2, JustifiedKept
      <3> QED
        BY <1>1, <3>1, <3>2
    <2> QED
      BY <2>1, <2>2
  <1>5. \A j, k \in DOMAIN health' : health'[j].reservation = health'[k].reservation => j = k
    BY <1>1, <1>3 DEF CircuitJustified
  <1> QED
    BY <1>4, <1>5 DEF CircuitJustified, Justified

\* Rows under which a provider was called stay reservations.
LEMMA CalledKept ==
  ASSUME LedgerGrows, CallsInv, called' = called
  PROVE  /\ \A i \in DOMAIN called' :
                called'[i] \in DOMAIN ledger' /\ ledger'[called'[i]].type = "reserved"
         /\ \A i, j \in DOMAIN called' : called'[i] = called'[j] => i = j
  BY DEF LedgerGrows, CallsInv

\* One more row is a ledger that grows.
LEMMA AppendGrows ==
  ASSUME RTypeOK, NEW row \in Row, ledger' = Append(ledger, row)
  PROVE  LedgerGrows
  BY LedgerAppend DEF LedgerGrows

\* revoke() preserves the invariant.
LEMMA RevokeInv ==
  ASSUME RInv, NEW offer \in Offers, NEW reason \in Reasons, NEW key,
         Revoke(offer.id, reason, key), UNCHANGED <<leaseVars, registryVars>>
  PROVE  RInv'
  <1> USE DEF RInv, registryVars
  <1>0. UNCHANGED <<approvals, approval_keys, authorizations, health, minting, capabilities,
                    runs, called, answered, lost>>
    BY DEF Revoke
  <1>1. LeaseInv'
    BY LeaseNextInv
  <1>2. CapabilitiesInv'
    <2>1. \A r \in authorization_keys' : r \in authorization_keys \/ r.scope = "revoke"
      BY DEF Revoke
    <2>2. authorization_keys \subseteq authorization_keys'
      BY DEF Revoke
    <2>3. \A r, s \in authorization_keys' :
              r.scope = "issue" /\ s.scope = "issue" /\ r.key = s.key => r.request = s.request
      BY <2>1 DEF CapabilitiesInv
    <2>4. \A c \in capabilities :
              /\ c.capability \in authorizations
              /\ \E r \in authorization_keys' :
                     r.scope = "issue" /\ r.key = c.key /\ r.request = IssueRequest(c.capability)
      BY <2>2 DEF CapabilitiesInv
    <2> QED
      BY <1>0, <2>3, <2>4 DEF CapabilitiesInv, Leased, IssueRequest, leaseVars
  <1>3. CASE ledger' = ledger
    <2>1. RTypeOK'
      BY <1>0, <1>3 DEF RTypeOK
    <2>2. LedgerInv' /\ CallsInv'
      BY <1>0, <1>3, LedgerSame, CallsSame
    <2> QED
      BY <1>1, <1>2, <2>1, <2>2
  <1>4. CASE ledger' # ledger
    <2>1. PICK row : row = [type |-> "revoked", auth |-> offer.id, reason |-> reason]
      OBVIOUS
    <2>2. ledger' = Append(ledger, row) /\ ~Revoked(row.auth) /\ row.auth = offer.id
          /\ row.type = "revoked"
      BY <1>4, <2>1 DEF Revoke
    <2>3. row \in Row
      BY <2>1 DEF Row, RevokedRow, Ids
    <2>4. PICK auth \in authorizations : auth.offer.id = offer.id
      BY DEF Revoke
    <2>5. RTypeOK'
      BY <1>0, <2>2, <2>3, LedgerAppend DEF RTypeOK
    <2>6. LedgerReplays'
      BY <2>2, <2>3, ReplaysAppend DEF LedgerInv
    <2>7. RevocationFinal'
      BY <2>2, <2>3, RevocationAppend DEF LedgerInv
    <2>8. RowsAuthorized' /\ RowsFenced'
      <3>1. row.type \notin {"reserved", "settled"}
        BY <2>2
      <3> QED
        BY <1>0, <2>2, <2>3, <2>4, <3>1, FencedAppend
    <2>9. AttemptsBounded'
      BY <1>0, <2>2, <2>3, AttemptsAppend DEF LedgerInv
    <2>10. BudgetHolds'
      BY <1>0, <2>2, <2>3, <2>5, <2>6, BudgetEnds DEF LedgerInv
    <2>11. LedgerGrows
      BY <2>2, <2>3, AppendGrows
    <2>12. ASSUME NEW n PROVE Ends(n)' = Ends(n)
      <3>1. Ends(n)' = Ends(n) \cup {}
        BY <2>2, <2>3, EndsAppend
      <3> QED
        BY <3>1
    <2>13. ASSUME NEW p \in Provers, runs[p] # None
           PROVE  CallHolds(p)'
      BY <1>0, <2>11, <2>12, <2>13, CallKept DEF CallsInv
    <2>14. AnswersSettled' /\ CircuitJustified'
      BY <1>0, <2>11, AnswersKept, CircuitKept DEF CallsInv
    <2>15. NoOrphans'
      <3>1. \A n \in DOMAIN ledger' : ledger'[n].type = "reserved" =>
                n \in DOMAIN ledger /\ ledger[n].type = "reserved"
        BY <2>2, <2>3, LedgerAppend
      <3>2. \A n \in DOMAIN ledger' :
                ledger'[n].type = "reserved" /\ Ends(n)' = {} /\ n \notin lost
                => \E p \in Provers : Holding(p) /\ runs[p].n = n
        BY <2>12, <3>1 DEF CallsInv, NoOrphans
      <3> QED
        BY <1>0, <3>2 DEF CallsInv, NoOrphans, Holding
    <2>16. CallsInv'
      BY <1>0, <2>11, <2>13, <2>14, <2>15, CalledKept DEF CallsInv
    <2> QED
      BY <1>1, <1>2, <2>5, <2>6, <2>7, <2>8, <2>9, <2>10, <2>16 DEF LedgerInv
  <1> QED
    BY <1>3, <1>4

\* generate() up to its reservation preserves the invariant.
LEMMA BeginInv ==
  ASSUME RInv, NEW p \in Provers, NEW c \in capabilities, NEW prompt \in Prompts,
         Begin(p, c.capability, prompt)
  PROVE  RInv'
  <1> USE DEF RInv
  <1>0. PICK auth : auth = c.capability
    OBVIOUS
  <1>1. /\ Authorized(auth, prompt)
        /\ runs[p] = None
        /\ runs' = [runs EXCEPT ![p] = [pc |-> "reserve", auth |-> auth, prompt |-> prompt]]
        /\ UNCHANGED <<leaseVars, authorizationVars, called, answered, lost>>
    BY <1>0 DEF Begin
  <1>2. auth \in authorizations /\ auth \in Capability
    BY <1>0 DEF CapabilitiesInv, RTypeOK
  <1>3. prompt.input \in Nat /\ prompt.output \in Nat
    BY <1>1, <1>2, WorstCaseTyped DEF Authorized
  <1>4. LeaseInv'
    BY <1>1, LeaseNextInv
  <1>5. RTypeOK'
    <2>1. [pc |-> "reserve", auth |-> auth, prompt |-> prompt] \in Run
      BY <1>2 DEF Run
    <2> QED
      BY <1>1, <2>1 DEF RTypeOK, authorizationVars
  <1>6. CapabilitiesInv' /\ LedgerInv'
    BY <1>1, LedgerSame DEF CapabilitiesInv, Leased, IssueRequest, leaseVars, authorizationVars
  <1>7. /\ ~Holding(p)
        /\ runs'[p] = [pc |-> "reserve", auth |-> auth, prompt |-> prompt]
        /\ \A q \in Provers : q # p => runs'[q] = runs[q]
    BY <1>1 DEF RTypeOK, Holding, None
  <1>8. ~Holding(p)'
    BY <1>7 DEF Holding
  <1>9. CallHolds(p)'
    BY <1>1, <1>2, <1>3, <1>7, <1>8 DEF CallHolds, authorizationVars
  <1>10. LedgerGrows /\ (\A n : Ends(n)' = Ends(n))
    BY <1>1, TotalsSame DEF LedgerGrows, authorizationVars
  <1>11. ASSUME NEW q \in Provers, q # p, runs[q] # None
         PROVE  CallHolds(q)'
    BY <1>1, <1>7, <1>10, <1>11, CallKept DEF CallsInv, authorizationVars
  <1>12. AnswersSettled' /\ CircuitJustified'
    BY <1>1, <1>10, AnswersKept, CircuitKept DEF CallsInv, authorizationVars
  <1>13. NoOrphans'
    <2>1. \A q \in Provers : Holding(q)' => q # p /\ Holding(q) /\ runs'[q].n = runs[q].n
      BY <1>7, <1>8 DEF Holding
    <2>2. \A q \in Provers : Holding(q) => Holding(q)' /\ runs'[q].n = runs[q].n
      BY <1>7 DEF Holding
    <2> QED
      BY <1>1, <1>10, <2>1, <2>2 DEF CallsInv, NoOrphans, authorizationVars
  <1>14. CallsInv'
    BY <1>1, <1>7, <1>9, <1>10, <1>11, <1>12, <1>13, CalledKept DEF CallsInv
  <1> QED
    BY <1>4, <1>5, <1>6, <1>14

-----------------------------------------------------------------------------
(* The steps of a call *)

\* The later stages of a call with the same locals.
MovesOn(run, pc) ==
    /\ run.pc \in {"generate", "settle", "abandon"}
    /\ run.pc \in {"generate", "settle"} => pc \in {"probe", "generate"}
    /\ run.pc = "settle" => run.usage \in Usages(run.prompt)

\* A call that moves on with its reservation, and may have called its provider.
LEMMA CallMoves ==
  ASSUME RInv, NEW p \in Provers, Holding(p), NEW run \in Run, NEW n,
         runs' = [runs EXCEPT ![p] = run], n = runs[p].n,
         run.auth = runs[p].auth, run.prompt = runs[p].prompt, run.n = n,
         MovesOn(run, runs[p].pc),
         \/ called' = called
         \/ /\ called' = Append(called, n)
            /\ runs[p].pc = "generate" /\ run.pc \in {"settle", "abandon"},
         UNCHANGED <<leaseVars, authorizationVars, answered, lost>>
  PROVE  RInv'
  <1> USE DEF RInv
  <1>0. runs[p] # None /\ CallHolds(p)
    BY DEF CallsInv, Holding, None
  <1>1. n \in DOMAIN ledger /\ ledger[n].type = "reserved" /\ n \in Nat
    BY <1>0, RowTyped DEF CallHolds
  <1>2. runs'[p] = run /\ \A q \in Provers : q # p => runs'[q] = runs[q]
    BY DEF RTypeOK
  <1>3. Holding(p)' /\ runs'[p].n = runs[p].n
    BY <1>2 DEF Holding, MovesOn
  <1>4. LeaseInv'
    BY LeaseNextInv
  <1>5. called' \in Seq(Nat)
    <2>1. called \in Seq(Nat)
      BY DEF RTypeOK
    <2> QED
      BY <1>1, <2>1, AppendFacts, SMTT(30)
  <1>6. RTypeOK'
    BY <1>5 DEF RTypeOK, authorizationVars
  <1>7. CapabilitiesInv' /\ LedgerInv'
    BY LedgerSame DEF CapabilitiesInv, Leased, IssueRequest, leaseVars, authorizationVars
  <1>8. LedgerGrows /\ (\A m : Ends(m)' = Ends(m))
    BY TotalsSame DEF LedgerGrows, authorizationVars
  <1>9. \A i \in DOMAIN called' :
            \/ i \in DOMAIN called /\ called'[i] = called[i]
            \/ called'[i] = n /\ runs[p].pc = "generate" /\ run.pc \in {"settle", "abandon"}
    <2>1. called \in Seq(Nat)
      BY DEF RTypeOK
    <2>2. called' = Append(called, n) => /\ DOMAIN called' = DOMAIN called \cup {Len(called) + 1}
                                        /\ \A i \in DOMAIN called : called'[i] = called[i]
                                        /\ called'[Len(called) + 1] = n
      BY <1>1, <2>1, AppendFacts
    <2> QED
      BY <2>2
  <1>10. CallHolds(p)'
    <2>1. run.pc \in {"probe", "generate", "settle"} => Ends(n)' = {}
      BY <1>0, <1>8 DEF CallHolds, MovesOn
    <2>2. run.pc \in {"probe", "generate"} => \A i \in DOMAIN called' : called'[i] # n
      BY <1>0, <1>9 DEF CallHolds, MovesOn
    <2>3. Ends(n)' = {} => (Ends(runs[p].n) = {})'
      BY <1>2 DEF Ends
    <2>4. authorizations' = authorizations /\ ledger' = ledger
      BY DEF authorizationVars
    <2> QED
      BY <1>0, <1>2, <1>3, <2>1, <2>2, <2>3, <2>4 DEF CallHolds, MovesOn
  <1>11. ASSUME NEW q \in Provers, q # p, runs[q] # None
         PROVE  CallHolds(q)'
    <2>1. Holding(q) => runs[q].n # n
      BY <1>11 DEF CallsInv, NoOrphans
    <2>2. PICK k : k = runs[q].n
      OBVIOUS
    <2>3. \A i \in DOMAIN called' : called'[i] = k /\ Holding(q) => i \in DOMAIN called /\ called[i] = k
      BY <1>9, <2>1, <2>2
    <2>4. runs'[q] = runs[q] /\ CallHolds(q) /\ authorizations' = authorizations
      BY <1>2, <1>11 DEF CallsInv, authorizationVars
    <2>5. Ends(k)' = Ends(k)
      BY <1>8
    <2> QED
      BY <1>8, <2>2, <2>3, <2>4, <2>5, CallKept
  <1>12. AnswersSettled' /\ CircuitJustified'
    BY <1>8, AnswersKept, CircuitKept DEF CallsInv, authorizationVars
  <1>13. NoOrphans'
    <2>1. \A q \in Provers : (Holding(q)' <=> Holding(q)) /\ (Holding(q) => runs'[q].n = runs[q].n)
      BY <1>2, <1>3 DEF Holding
    <2>2. ledger' = ledger /\ lost' = lost
      BY DEF authorizationVars
    <2> QED
      BY <1>8, <2>1, <2>2 DEF CallsInv, NoOrphans
  <1>14. \A i \in DOMAIN called' :
             called'[i] \in DOMAIN ledger' /\ ledger'[called'[i]].type = "reserved"
    BY <1>1, <1>9 DEF CallsInv, authorizationVars
  <1>15. \A i, j \in DOMAIN called' : called'[i] = called'[j] => i = j
    <2>1. CASE called' = called
      BY <2>1 DEF CallsInv
    <2>2. CASE called' = Append(called, n) /\ runs[p].pc = "generate"
      <3>1. \A i \in DOMAIN called : called[i] # n
        BY <1>0, <2>2 DEF CallHolds
      <3>2. /\ DOMAIN called' = DOMAIN called \cup {Len(called) + 1}
            /\ \A i \in DOMAIN called : called'[i] = called[i]
            /\ called'[Len(called) + 1] = n
        BY <1>1, <2>2, AppendFacts DEF RTypeOK
      <3> QED
        BY <3>1, <3>2 DEF CallsInv
    <2> QED
      BY <2>1, <2>2
  <1>16. CallsInv'
    BY <1>2, <1>10, <1>11, <1>12, <1>13, <1>14, <1>15 DEF CallsInv
  <1> QED
    BY <1>4, <1>6, <1>7, <1>16

\* The locals of a call.
LEMMA RunTyped ==
  ASSUME RInv, NEW p \in Provers, Holding(p)
  PROVE  /\ runs[p] # None
         /\ CallHolds(p)
         /\ runs[p].auth \in Capability
         /\ runs[p].prompt \in Prompts
         /\ runs[p].n \in Nat
         /\ runs[p].pc = "settle" => runs[p].usage \in Reported
         /\ runs[p].pc = "abandon" => runs[p].code \in FailureCodes
  <1>1. runs[p] # None /\ runs[p] \in Run
    BY DEF RInv, RTypeOK, Holding, None
  <1> QED
    BY <1>1 DEF RInv, CallsInv, Run, Holding

\* A call that raises goes to its finally block.
LEMMA FailInv ==
  ASSUME RInv, NEW p \in Provers, Holding(p), NEW code \in FailureCodes, FailWith(p, code),
         \/ called' = called
         \/ called' = Append(called, runs[p].n) /\ runs[p].pc = "generate",
         UNCHANGED <<leaseVars, authorizationVars, answered, lost>>
  PROVE  RInv'
  <1>1. PICK run, n : /\ n = runs[p].n
                      /\ run = [pc |-> "abandon", auth |-> runs[p].auth,
                                prompt |-> runs[p].prompt, n |-> runs[p].n, code |-> code]
    OBVIOUS
  <1>2. run \in Run
    BY <1>1, RunTyped DEF Run
  <1>3. runs' = [runs EXCEPT ![p] = run]
    BY <1>1 DEF FailWith
  <1>4. /\ run.auth = runs[p].auth /\ run.prompt = runs[p].prompt /\ run.n = n
        /\ MovesOn(run, runs[p].pc) /\ run.pc = "abandon"
    BY <1>1 DEF MovesOn
  <1> QED
    BY <1>1, <1>2, <1>3, <1>4, CallMoves

\* probe() preserves the invariant.
LEMMA ProbeInv ==
  ASSUME RInv, NEW p \in Provers, ProbeProvider(p)
  PROVE  RInv'
  <1>1. Holding(p)
    BY DEF ProbeProvider, Holding
  <1>2. UNCHANGED <<leaseVars, authorizationVars, answered, lost>> /\ called' = called
    BY DEF ProbeProvider
  <1>3. ASSUME NEW code \in FailureCodes, FailWith(p, code)
        PROVE  RInv'
    BY <1>1, <1>2, <1>3, FailInv
  <1>4. CASE Continue(p, "generate")
    <2>1. PICK run, n : /\ n = runs[p].n
                        /\ run = [pc |-> "generate", auth |-> runs[p].auth,
                                  prompt |-> runs[p].prompt, n |-> runs[p].n]
      OBVIOUS
    <2>2. run \in Run
      BY <1>1, <2>1, RunTyped DEF Run
    <2>3. runs' = [runs EXCEPT ![p] = run]
      BY <1>4, <2>1 DEF Continue
    <2>4. /\ run.auth = runs[p].auth /\ run.prompt = runs[p].prompt /\ run.n = n
          /\ MovesOn(run, runs[p].pc)
      BY <2>1 DEF MovesOn, ProbeProvider
    <2> QED
      BY <1>1, <1>2, <2>1, <2>2, <2>3, <2>4, CallMoves
  <1> QED
    BY <1>3, <1>4 DEF ProbeProvider, FailureCodes, HealthCodes

\* generate() of the provider preserves the invariant.
LEMMA CallInv ==
  ASSUME RInv, NEW p \in Provers, CallProvider(p)
  PROVE  RInv'
  <1>1. Holding(p)
    BY DEF CallProvider, Holding
  <1>2. /\ UNCHANGED <<leaseVars, authorizationVars, answered, lost>>
        /\ called' = Append(called, runs[p].n)
        /\ runs[p].pc = "generate"
    BY DEF CallProvider
  <1>3. ASSUME NEW code \in FailureCodes, FailWith(p, code)
        PROVE  RInv'
    BY <1>1, <1>2, <1>3, FailInv
  <1>4. ASSUME NEW usage \in Usages(runs[p].prompt),
               runs' = [runs EXCEPT ![p] =
                     [pc |-> "settle", auth |-> @.auth, prompt |-> @.prompt, n |-> @.n,
                      usage |-> usage]]
        PROVE  RInv'
    <2>1. PICK run, n : /\ n = runs[p].n
                        /\ run = [pc |-> "settle", auth |-> runs[p].auth,
                                  prompt |-> runs[p].prompt, n |-> runs[p].n, usage |-> usage]
      OBVIOUS
    <2>2. usage \in Reported
      <3>1. runs[p].prompt.input \in Nat /\ runs[p].prompt.output \in Nat
        BY <1>1, RunTyped DEF CallHolds
      <3> QED
        BY <3>1 DEF Usages, Reported
    <2>3. run \in Run
      BY <1>1, <2>1, <2>2, RunTyped DEF Run
    <2>4. runs' = [runs EXCEPT ![p] = run]
      BY <1>4, <2>1
    <2>5. run.auth = runs[p].auth /\ run.prompt = runs[p].prompt /\ run.n = n /\ run.pc = "settle"
          /\ run.usage = usage
      BY <2>1
    <2>6. MovesOn(run, runs[p].pc)
      BY <1>2, <2>5 DEF MovesOn
    <2> QED
      BY <1>1, <1>2, <2>1, <2>3, <2>4, <2>5, <2>6, CallMoves
  <1> QED
    BY <1>3, <1>4 DEF CallProvider, FailureCodes, HealthCodes

\* A call that is over, whose reservation ended or is known to be lost.
LEMMA GoneInv ==
  ASSUME RInv, NEW p \in Provers, runs[p] # None, runs' = [runs EXCEPT ![p] = None],
         lost \subseteq lost', NEW n, n = runs[p].n,
         Holding(p) => n \in lost' \/ Ends(n) # {},
         UNCHANGED <<leaseVars, authorizationVars, called, answered>>
  PROVE  RInv'
  <1> USE DEF RInv
  <1>1. runs'[p] = None /\ \A q \in Provers : q # p => runs'[q] = runs[q]
    BY DEF RTypeOK
  <1>2. LeaseInv'
    BY LeaseNextInv
  <1>3. RTypeOK'
    BY DEF RTypeOK, authorizationVars
  <1>4. CapabilitiesInv' /\ LedgerInv'
    BY LedgerSame DEF CapabilitiesInv, Leased, IssueRequest, leaseVars, authorizationVars
  <1>5. LedgerGrows /\ (\A m : Ends(m)' = Ends(m))
    BY TotalsSame DEF LedgerGrows, authorizationVars
  <1>6. ASSUME NEW q \in Provers, q # p, runs[q] # None
        PROVE  CallHolds(q)'
    BY <1>1, <1>5, <1>6, CallKept DEF CallsInv, authorizationVars
  <1>7. AnswersSettled' /\ CircuitJustified'
    BY <1>5, AnswersKept, CircuitKept DEF CallsInv, authorizationVars
  <1>8. NoOrphans'
    <2>1. ~Holding(p)'
      BY <1>1 DEF Holding, None
    <2>2. \A q \in Provers : q # p => (Holding(q)' <=> Holding(q)) /\ runs'[q].n = runs[q].n
      BY <1>1 DEF Holding
    <2>3. ledger' = ledger
      BY DEF authorizationVars
    <2> QED
      BY <1>5, <2>1, <2>2, <2>3 DEF CallsInv, NoOrphans
  <1>9. CallsInv'
    BY <1>1, <1>5, <1>6, <1>7, <1>8, CalledKept DEF CallsInv
  <1> QED
    BY <1>2, <1>3, <1>4, <1>9

\* A process that dies preserves the invariant.
LEMMA DieInv ==
  ASSUME RInv, NEW p \in Provers, Die(p)
  PROVE  RInv'
  <1>1. PICK n : n = runs[p].n
    OBVIOUS
  <1>2. lost \subseteq lost' /\ (Holding(p) => n \in lost')
    BY <1>1 DEF Die
  <1> QED
    BY <1>1, <1>2, GoneInv DEF Die

\* reserve() preserves the invariant.
LEMMA ReserveInv ==
  ASSUME RInv, NEW p \in Provers, ReserveAttempt(p)
  PROVE  RInv'
  <1> USE DEF RInv
  <1>0. PICK auth, prompt : auth = runs[p].auth /\ prompt = runs[p].prompt
    OBVIOUS
  <1>1. runs[p] # None /\ ~Holding(p) /\ CallHolds(p)
    BY DEF ReserveAttempt, Holding, None, CallsInv
  <1>2. CASE ~CanReserve(auth, prompt)
    <2>1. /\ runs' = [runs EXCEPT ![p] = None]
          /\ UNCHANGED <<leaseVars, authorizationVars, called, answered, lost>>
      BY <1>0, <1>2 DEF ReserveAttempt, authorizationVars
    <2> QED
      BY <1>1, <2>1, GoneInv
  <1>3. CASE CanReserve(auth, prompt)
    <2>0. PICK row, new : row = Reservation(auth, prompt) /\ new = Len(ledger) + 1
      OBVIOUS
    <2>1. /\ ledger' = Append(ledger, row)
          /\ runs' = [runs EXCEPT ![p] =
                [pc |-> "probe", auth |-> auth, prompt |-> prompt, n |-> new]]
          /\ UNCHANGED <<leaseVars, approvals, approval_keys, authorizations, authorization_keys,
                         health, minting, capabilities, called, answered, lost>>
      BY <1>0, <1>3, <2>0 DEF ReserveAttempt
    <2>2. auth \in authorizations /\ prompt \in Prompts /\ auth \in Capability
      BY <1>0, <1>1 DEF CallHolds, RTypeOK, Run
    <2>3. RequestFits(auth, prompt) /\ Active(auth)
      BY <1>3 DEF CanReserve, Authorized
    <2>4. /\ row \in ReservedRow /\ row.type = "reserved" /\ row.auth = auth.offer.id
          /\ row.token = auth.lease.token /\ row.charge = WorstCase(auth, prompt)
          /\ row.attempt = Attempts(row.auth) + 1
      BY <2>0, <2>2, <2>3, ReservationTyped DEF Reservation
    <2>5. row \in Row
      BY <2>4 DEF Row
    <2>6. /\ ledger' \in Seq(Row) /\ new \in Nat
          /\ DOMAIN ledger' = DOMAIN ledger \cup {new} /\ new \notin DOMAIN ledger
          /\ ledger'[new] = row
      BY <2>0, <2>1, <2>5, LedgerAppend
    <2>7. LeaseInv'
      BY <2>1, LeaseNextInv
    <2>8. RTypeOK'
      <3>1. [pc |-> "probe", auth |-> auth, prompt |-> prompt, n |-> new] \in Run
        BY <2>2, <2>6 DEF Run
      <3> QED
        BY <2>1, <2>6, <3>1 DEF RTypeOK
    <2>9. CapabilitiesInv'
      BY <2>1 DEF CapabilitiesInv, Leased, IssueRequest, leaseVars
    <2>10. LedgerReplays'
      BY <2>1, <2>4, <2>5, ReplaysAppend DEF LedgerInv
    <2>11. RevocationFinal'
      BY <2>1, <2>3, <2>4, <2>5, RevocationAppend DEF LedgerInv, Active
    <2>12. RowsAuthorized' /\ RowsFenced'
      <3>1. IsCurrent(auth.lease, clock)
        BY <2>3 DEF Active
      <3> QED
        BY <2>1, <2>2, <2>4, <2>5, <3>1, FencedAppend
    <2>13. AttemptsBounded'
      <3>1. \A a \in authorizations :
                a.offer.id = row.auth => Attempts(row.auth) < a.offer.budget.attempts
        BY <1>3, <2>2, <2>4 DEF CapabilitiesInv, CanReserve
      <3> QED
        BY <2>1, <2>5, <3>1, AttemptsAppend DEF LedgerInv
    <2>14. BudgetHolds'
      BY <1>3, <2>0, <2>1, <2>2, <2>8, <2>10, BudgetReserves DEF LedgerInv
    <2>15. LedgerGrows
      BY <2>1, <2>5, AppendGrows
    <2>16. ASSUME NEW n PROVE Ends(n)' = Ends(n)
      <3>1. Ends(n)' = Ends(n) \cup {}
        BY <2>1, <2>4, <2>5, EndsAppend
      <3> QED
        BY <3>1
    <2>17. Ends(new) = {}
      <3> SUFFICES ASSUME NEW m \in DOMAIN ledger, ledger[m].type \in {"settled", "abandoned"}
                   PROVE  ledger[m].reservation # new
        BY DEF Ends
      <3>1. ledger[m].reservation \in 1 .. m - 1 /\ m \in 1 .. Len(ledger) /\ Len(ledger) \in Nat
        BY <2>1, <2>5, LedgerAppend DEF LedgerInv, LedgerReplays
      <3> QED
        BY <2>0, <3>1
    <2>18. /\ runs'[p] = [pc |-> "probe", auth |-> auth, prompt |-> prompt, n |-> new]
           /\ \A q \in Provers : q # p => runs'[q] = runs[q]
      BY <2>1 DEF RTypeOK
    <2>19. CallHolds(p)'
      <3>1. Ends(new)' = {}
        BY <2>16, <2>17
      <3>2. (Ends(runs[p].n) = {})'
        BY <2>18, <3>1 DEF Ends
      <3>3. \A i \in DOMAIN called' : called'[i] # new
        BY <2>1, <2>6 DEF CallsInv
      <3>4. prompt.input \in Nat /\ prompt.output \in Nat
        BY <1>0, <1>1 DEF CallHolds
      <3>5. /\ runs'[p].pc = "probe" /\ runs'[p].auth = auth /\ runs'[p].prompt = prompt
            /\ runs'[p].n = new
        BY <2>18
      <3>6. /\ new \in DOMAIN ledger' /\ ledger'[new].type = "reserved"
            /\ ledger'[new].auth = auth.offer.id /\ ledger'[new].charge = WorstCase(auth, prompt)
            /\ auth \in authorizations'
        BY <2>1, <2>2, <2>4, <2>6
      <3>7. (ledger[runs[p].n].charge = WorstCase(runs[p].auth, runs[p].prompt))'
        BY <3>5, <3>6
      <3> QED
        BY <3>2, <3>3, <3>4, <3>5, <3>6, <3>7 DEF CallHolds
    <2>20. ASSUME NEW q \in Provers, q # p, runs[q] # None
           PROVE  CallHolds(q)'
      BY <2>1, <2>15, <2>16, <2>18, <2>20, CallKept DEF CallsInv
    <2>21. AnswersSettled' /\ CircuitJustified'
      BY <2>1, <2>15, AnswersKept, CircuitKept DEF CallsInv
    <2>22. NoOrphans'
      <3>1. Holding(p)' /\ runs'[p].n = new
        BY <2>18 DEF Holding
      <3>2. \A q \in Provers : q # p => (Holding(q)' <=> Holding(q)) /\ runs'[q].n = runs[q].n
        BY <2>18 DEF Holding
      <3>3. \A q \in Provers : Holding(q) => runs[q].n \in DOMAIN ledger
        <4> SUFFICES ASSUME NEW q \in Provers, Holding(q) PROVE runs[q].n \in DOMAIN ledger
          OBVIOUS
        <4> QED
          BY RunTyped DEF CallHolds
      <3>4. \A n \in DOMAIN ledger' : n = new \/ (n \in DOMAIN ledger /\ ledger'[n] = ledger[n])
        BY <2>6, <2>15 DEF LedgerGrows
      <3>5. \A n \in DOMAIN ledger' :
                ledger'[n].type = "reserved" /\ Ends(n)' = {} /\ n \notin lost'
                => \E q \in Provers : Holding(q)' /\ runs'[q].n = n
        <4> SUFFICES ASSUME NEW n \in DOMAIN ledger', ledger'[n].type = "reserved",
                            Ends(n)' = {}, n \notin lost'
                     PROVE  \E q \in Provers : Holding(q)' /\ runs'[q].n = n
          OBVIOUS
        <4>1. CASE n = new
          BY <3>1, <4>1
        <4>2. CASE n \in DOMAIN ledger
          BY <1>1, <2>1, <2>16, <3>2, <3>4, <4>2 DEF CallsInv, NoOrphans
        <4> QED
          BY <3>4, <4>1, <4>2
      <3>6. \A q, r \in Provers : Holding(q)' /\ Holding(r)' /\ runs'[q].n = runs'[r].n => q = r
        BY <2>6, <3>1, <3>2, <3>3 DEF CallsInv, NoOrphans
      <3> QED
        BY <3>5, <3>6 DEF NoOrphans
    <2>23. CallsInv'
      BY <2>1, <2>15, <2>18, <2>19, <2>20, <2>21, <2>22, CalledKept DEF CallsInv
    <2> QED
      BY <2>7, <2>8, <2>9, <2>10, <2>11, <2>12, <2>13, <2>14, <2>23 DEF LedgerInv
  <1> QED
    BY <1>2, <1>3

\* What a call becomes when its reservation ends: over, or in its finally block.
EndedRun(p) ==
    {None} \cup {[pc |-> "abandon", auth |-> runs[p].auth, prompt |-> runs[p].prompt,
                  n |-> runs[p].n, code |-> code] : code \in FailureCodes}

\* A row that ends the open reservation of a call, and the health event and
\* the answer that may come with it, preserve the invariant.
LEMMA EndInv ==
  ASSUME RInv, NEW p \in Provers, Holding(p), NEW n, n = runs[p].n, Ends(n) = {},
         NEW auth, auth = runs[p].auth,
         NEW row \in Row, row.type \in {"settled", "abandoned"}, row.auth = auth.offer.id,
         row.reservation = n, ledger' = Append(ledger, row),
         row.type = "settled" => /\ row.token = auth.lease.token
                                 /\ Active(auth)
                                 /\ Within(row.charge, ledger[n].charge),
         \/ health' = health
         \/ \E e \in HealthRow :
                /\ health' = Append(health, e)
                /\ e.reservation = n
                /\ IF e.type = "success" THEN row.type = "settled"
                   ELSE row.type = "abandoned" /\ row.reason \in HealthCodes,
         NEW run \in EndedRun(p), runs' = [runs EXCEPT ![p] = run],
         \/ answered' = answered
         \/ \E usage : /\ answered' = answered \cup {[n |-> n, usage |-> usage]}
                       /\ row.type = "settled"
                       /\ row.charge.input = usage.input /\ row.charge.output = usage.output,
         UNCHANGED <<leaseVars, approvals, approval_keys, authorizations, authorization_keys,
                     minting, capabilities, called, lost>>
  PROVE  RInv'
  <1> USE DEF RInv
  <1>0. runs[p] # None /\ CallHolds(p)
    BY RunTyped
  <1>1. /\ n \in DOMAIN ledger /\ ledger[n].type = "reserved"
        /\ auth \in authorizations
    BY <1>0 DEF CallHolds
  <1>2. PICK new : new = Len(ledger) + 1
    OBVIOUS
  <1>3. /\ ledger' \in Seq(Row) /\ new \in Nat
        /\ DOMAIN ledger' = DOMAIN ledger \cup {new} /\ new \notin DOMAIN ledger
        /\ ledger'[new] = row
    BY <1>2, LedgerAppend
  <1>4. LedgerGrows
    BY AppendGrows
  <1>5. \A m : Ends(m)' = IF m = n THEN {new} ELSE Ends(m)
    <2> SUFFICES ASSUME NEW m PROVE Ends(m)' = IF m = n THEN {new} ELSE Ends(m)
      OBVIOUS
    <2>1. Ends(m)' = Ends(m) \cup (IF row.reservation = m THEN {new} ELSE {})
      BY <1>2, EndsAppend
    <2> QED
      BY <2>1
  <1>6. run \in {None} \cup Run
    <2>1. /\ runs[p].auth \in Capability
          /\ runs[p].prompt \in Prompts
          /\ runs[p].n \in Nat
      BY RunTyped
    <2> QED
      BY <2>1 DEF EndedRun, Run
  <1>7. runs'[p] = run /\ \A q \in Provers : q # p => runs'[q] = runs[q]
    BY DEF RTypeOK
  <1>8. health' \in Seq(HealthRow)
    <2>1. health \in Seq(HealthRow)
      BY DEF RTypeOK
    <2>2. CASE health' = health
      BY <2>1, <2>2
    <2>3. ASSUME NEW e \in HealthRow, health' = Append(health, e)
          PROVE  health' \in Seq(HealthRow)
      <3>1. Append(health, e) \in Seq(HealthRow)
        BY <2>1, AppendFacts
      <3> QED
        BY <2>3, <3>1, Zenon
    <2> QED
      BY <2>2, <2>3
  <1>9. RTypeOK'
    BY <1>3, <1>6, <1>8 DEF RTypeOK
  <1>10. LeaseInv'
    BY LeaseNextInv
  <1>11. CapabilitiesInv'
    BY DEF CapabilitiesInv, Leased, IssueRequest, leaseVars
  <1>12. LedgerReplays'
    BY <1>1, ReplaysAppend DEF LedgerInv
  <1>13. RevocationFinal'
    BY RevocationAppend DEF LedgerInv, Active
  <1>14. RowsAuthorized' /\ RowsFenced'
    BY <1>1, FencedAppend DEF Active
  <1>15. AttemptsBounded'
    BY AttemptsAppend DEF LedgerInv
  <1>16. BudgetHolds'
    BY <1>1, <1>9, <1>12, BudgetEnds DEF LedgerInv
  <1>17. run # None => CallHolds(p)'
    <2> SUFFICES ASSUME run # None PROVE CallHolds(p)'
      OBVIOUS
    <2>1. /\ run.pc = "abandon" /\ run.auth = runs[p].auth /\ run.prompt = runs[p].prompt
          /\ run.n = n
      BY DEF EndedRun
    <2>2. ledger'[n] = ledger[n] /\ n \in DOMAIN ledger'
      BY <1>1, <1>4 DEF LedgerGrows
    <2>3. PICK prompt : prompt = runs[p].prompt
      OBVIOUS
    <2>4. /\ ledger[n].type = "reserved" /\ ledger[n].auth = auth.offer.id
          /\ ledger[n].charge = WorstCase(auth, prompt)
          /\ prompt.input \in Nat /\ prompt.output \in Nat
      BY <1>0, <2>3 DEF CallHolds
    <2>5. runs'[p].auth = auth /\ runs'[p].prompt = prompt /\ runs'[p].n = n /\ runs'[p].pc = "abandon"
      BY <1>7, <2>1, <2>3
    <2>6. (ledger[runs[p].n].charge = WorstCase(runs[p].auth, runs[p].prompt))'
      BY <2>2, <2>4, <2>5
    <2> QED
      BY <1>1, <2>2, <2>4, <2>5, <2>6 DEF CallHolds
  <1>18. ASSUME NEW q \in Provers, q # p, runs[q] # None
         PROVE  CallHolds(q)'
    <2>1. PICK k : k = runs[q].n
      OBVIOUS
    <2>2. Holding(q) => k # n
      BY <1>18, <2>1 DEF CallsInv, NoOrphans
    <2>3. Holding(q) => Ends(k)' = Ends(k)
      BY <1>5, <2>2
    <2>4. CallHolds(q)
      BY <1>18 DEF CallsInv
    <2> QED
      BY <1>4, <1>7, <1>18, <2>1, <2>3, <2>4, CallKept
  <1>19. AnswersSettled'
    <2>1. \A a \in answered' : \E m \in Ends(a.n)' :
              /\ ledger'[m].type = "settled"
              /\ ledger'[m].charge.input = a.usage.input
              /\ ledger'[m].charge.output = a.usage.output
      <3> SUFFICES ASSUME NEW a \in answered'
                   PROVE  \E m \in Ends(a.n)' :
                              /\ ledger'[m].type = "settled"
                              /\ ledger'[m].charge.input = a.usage.input
                              /\ ledger'[m].charge.output = a.usage.output
        OBVIOUS
      <3>1. PICK k : k = a.n
        OBVIOUS
      <3>2. CASE a \in answered
        <4>1. PICK m \in Ends(k) : /\ ledger[m].type = "settled"
                                   /\ ledger[m].charge.input = a.usage.input
                                   /\ ledger[m].charge.output = a.usage.output
          BY <3>1, <3>2 DEF CallsInv, AnswersSettled
        <4>2. m \in Ends(k)' /\ ledger'[m] = ledger[m]
          BY <1>4, <4>1, EndsGrow
        <4> QED
          BY <3>1, <4>1, <4>2
      <3>3. CASE a \notin answered
        <4>1. /\ a.n = n /\ row.type = "settled"
              /\ row.charge.input = a.usage.input /\ row.charge.output = a.usage.output
          BY <3>3
        <4> QED
          BY <1>3, <1>5, <3>1, <4>1
      <3> QED
        BY <3>2, <3>3
    <2> QED
      BY <2>1 DEF AnswersSettled
  <1>20. CircuitJustified'
    <2>1. CASE health' = health
      BY <1>4, <2>1, CircuitKept DEF CallsInv
    <2>2. ASSUME NEW e \in HealthRow, health' = Append(health, e), e.reservation = n,
                 IF e.type = "success" THEN row.type = "settled"
                 ELSE row.type = "abandoned" /\ row.reason \in HealthCodes
          PROVE  CircuitJustified'
      <3>1. new \in Ends(n)'
        BY <1>5
      <3>2. Justified(e)'
        BY <1>3, <2>2, <3>1 DEF Justified
      <3> QED
        BY <1>4, <2>2, <3>2, CircuitAppend DEF CallsInv
    <2> QED
      BY <2>1, <2>2
  <1>21. NoOrphans'
    <2>1. \A q \in Provers : q # p => (Holding(q)' <=> Holding(q)) /\ runs'[q].n = runs[q].n
      BY <1>7 DEF Holding
    <2>2. Holding(p)' => runs'[p].n = n
      BY <1>7 DEF EndedRun, Holding, None
    <2>3. \A m \in DOMAIN ledger' : ledger'[m].type = "reserved" /\ Ends(m)' = {} =>
              m # n /\ m \in DOMAIN ledger /\ ledger[m].type = "reserved" /\ Ends(m) = {}
      BY <1>3, <1>4, <1>5 DEF LedgerGrows
    <2>4. \A m \in DOMAIN ledger' :
              ledger'[m].type = "reserved" /\ Ends(m)' = {} /\ m \notin lost'
              => \E q \in Provers : Holding(q)' /\ runs'[q].n = m
      BY <2>1, <2>3 DEF CallsInv, NoOrphans
    <2>5. \A q, r \in Provers : Holding(q)' /\ Holding(r)' /\ runs'[q].n = runs'[r].n => q = r
      BY <2>1, <2>2 DEF CallsInv, NoOrphans
    <2> QED
      BY <2>4, <2>5 DEF NoOrphans
  <1>22. CallsInv'
    BY <1>4, <1>7, <1>17, <1>18, <1>19, <1>20, <1>21, CalledKept DEF CallsInv
  <1> QED
    BY <1>9, <1>10, <1>11, <1>12, <1>13, <1>14, <1>15, <1>16, <1>22 DEF LedgerInv

\* What a reported usage costs is a number of units.
LEMMA CostTyped ==
  ASSUME NEW auth \in Capability, NEW usage \in Reported, usage.cached <= usage.input
  PROVE  CostOf(auth.approval.rates, usage) \in Nat
  <1>1. PICK i, c, o \in Nat : /\ i = auth.approval.rates.input
                               /\ c = auth.approval.rates.cached
                               /\ o = auth.approval.rates.output
    BY OfferAssumption DEF Capability
  <1>2. PICK x, y, z \in Nat : x = usage.input /\ y = usage.cached /\ z = usage.output /\ y <= x
    BY DEF Reported
  <1>3. x - y \in Nat
    BY <1>2
  <1>4. (x - y) * i \in Nat /\ y * c \in Nat /\ z * o \in Nat
    BY <1>3
  <1>5. (x - y) * i + y * c + z * o \in Nat
    BY <1>4
  <1> QED
    BY <1>1, <1>2, <1>5 DEF CostOf

\* A health event is a row of its ledger.
LEMMA HealthTyped ==
  ASSUME RInv, NEW auth \in Capability, NEW n \in Nat, NEW type \in {"success", "failure"}
  PROVE  HealthEvent(auth, n, type) \in HealthRow
  <1>1. clock \in Nat
    BY DEF RInv, LeaseInv, LeaseTypeOK
  <1>2. auth.approval \in Approvals
    BY DEF Capability
  <1> QED
    BY <1>1, <1>2 DEF HealthEvent, HealthRow

\* settle() preserves the invariant, whether its answer arrives or not.
LEMMA SettleInv ==
  ASSUME RInv, NEW p \in Provers, SettleAttempt(p)
  PROVE  RInv'
  <1>0. PICK auth, n, usage : auth = runs[p].auth /\ n = runs[p].n /\ usage = runs[p].usage
    OBVIOUS
  <1>1. Holding(p) /\ runs[p].pc = "settle"
    BY DEF SettleAttempt, Holding
  <1>2. /\ auth \in Capability /\ n \in Nat /\ usage \in Reported /\ CallHolds(p)
        /\ runs[p].prompt.input \in Nat
    BY <1>0, <1>1, RunTyped DEF CallHolds
  <1>3. usage.cached <= usage.input
    BY <1>0, <1>1, <1>2 DEF CallHolds, Usages
  <1>4. UNCHANGED <<leaseVars, approvals, approval_keys, authorizations, authorization_keys,
                    minting, capabilities, called, lost>>
    BY DEF SettleAttempt
  <1>5. CASE ~CanSettle(auth, n, usage)
    <2>1. /\ FailWith(p, "settlement_rejected")
          /\ UNCHANGED <<leaseVars, authorizationVars, called, answered, lost>>
      BY <1>0, <1>4, <1>5 DEF SettleAttempt, authorizationVars
    <2>2. "settlement_rejected" \in FailureCodes
      BY DEF FailureCodes
    <2> QED
      BY <1>1, <2>1, <2>2, FailInv
  <1>6. CASE CanSettle(auth, n, usage)
    <2>1. PICK row, e : row = Settlement(auth, n, usage) /\ e = HealthEvent(auth, n, "success")
      OBVIOUS
    <2>2. ledger' = Append(ledger, row) /\ health' = Append(health, e)
      BY <1>0, <1>6, <2>1 DEF SettleAttempt, Settle
    <2>3. CostOf(auth.approval.rates, usage) \in Nat
      BY <1>2, <1>3, CostTyped
    <2>4. PICK cost : cost = CostOf(auth.approval.rates, usage)
      OBVIOUS
    <2>5. row = [type |-> "settled", auth |-> auth.offer.id, reservation |-> n,
                 charge |-> [input |-> usage.input, output |-> usage.output, cost |-> cost],
                 token |-> auth.lease.token]
      BY <2>1, <2>4 DEF Settlement
    <2>6. row \in Row
      <3>1. auth.offer.id \in Ids /\ auth.lease.token \in Nat
        BY <1>2 DEF Capability, Ids, Lease
      <3>2. [input |-> usage.input, output |-> usage.output, cost |-> cost] \in Amount
        BY <1>2, <2>3, <2>4 DEF Amount, Reported
      <3> QED
        BY <1>2, <2>5, <3>1, <3>2 DEF Row, SettledRow
    <2>7. Within(row.charge, ledger[n].charge) /\ Active(auth) /\ Ends(n) = {}
      BY <1>6, <2>4, <2>5 DEF CanSettle, Within
    <2>8. e \in HealthRow /\ e.reservation = n /\ e.type = "success"
      <3>1. e \in HealthRow
        BY <1>2, <2>1, HealthTyped
      <3> QED
        BY <2>1, <3>1 DEF HealthEvent
    <2>9. PICK run \in EndedRun(p) :
              /\ runs' = [runs EXCEPT ![p] = run]
              /\ \/ answered' = answered
                 \/ answered' = answered \cup {[n |-> n, usage |-> usage]}
      <3>1. CASE Return(p)
        BY <1>0, <3>1 DEF Return, EndedRun
      <3>2. CASE FailWith(p, "settlement_rejected") /\ UNCHANGED answered
        <4>1. PICK run : run = [pc |-> "abandon", auth |-> runs[p].auth,
                                prompt |-> runs[p].prompt, n |-> runs[p].n,
                                code |-> "settlement_rejected"]
          OBVIOUS
        <4>2. run \in EndedRun(p)
          BY <4>1 DEF EndedRun, FailureCodes
        <4> QED
          BY <3>2, <4>1, <4>2 DEF FailWith
      <3> QED
        BY <1>0, <1>6, <3>1, <3>2 DEF SettleAttempt
    <2>10. \/ answered' = answered
           \/ \E u : /\ answered' = answered \cup {[n |-> n, usage |-> u]}
                     /\ row.type = "settled"
                     /\ row.charge.input = u.input /\ row.charge.output = u.output
      BY <2>5, <2>9
    <2>11. \E f \in HealthRow :
               /\ health' = Append(health, f)
               /\ f.reservation = n
               /\ IF f.type = "success" THEN row.type = "settled"
                  ELSE row.type = "abandoned" /\ row.reason \in HealthCodes
      BY <2>2, <2>5, <2>8
    <2>12. /\ row.type = "settled" /\ row.auth = auth.offer.id /\ row.reservation = n
           /\ row.token = auth.lease.token
      BY <2>5
    <2> QED
      BY <1>0, <1>1, <1>4, <2>2, <2>6, <2>7, <2>9, <2>10, <2>11, <2>12, EndInv
  <1> QED
    BY <1>5, <1>6

\* The finally block preserves the invariant.
LEMMA AbandonInv ==
  ASSUME RInv, NEW p \in Provers, AbandonAttempt(p)
  PROVE  RInv'
  <1>0. PICK auth, n, code : auth = runs[p].auth /\ n = runs[p].n /\ code = runs[p].code
    OBVIOUS
  <1>1. Holding(p) /\ runs[p].pc = "abandon"
    BY DEF AbandonAttempt, Holding
  <1>2. auth \in Capability /\ n \in Nat /\ code \in FailureCodes /\ runs[p] # None
    BY <1>0, <1>1, RunTyped
  <1>3. /\ Abandon(auth, n, code)
        /\ runs' = [runs EXCEPT ![p] = None]
        /\ UNCHANGED <<leaseVars, approvals, approval_keys, authorizations, authorization_keys,
                       minting, capabilities, called, answered, lost>>
    BY <1>0 DEF AbandonAttempt
  <1>4. CASE Ends(n) # {}
    <2>1. UNCHANGED <<leaseVars, authorizationVars, called, answered>> /\ lost \subseteq lost'
      BY <1>3, <1>4 DEF Abandon, authorizationVars
    <2> QED
      BY <1>0, <1>2, <1>3, <1>4, <2>1, GoneInv
  <1>5. CASE Ends(n) = {}
    <2>1. PICK row, e : /\ row = [type |-> "abandoned", auth |-> auth.offer.id,
                                  reservation |-> n, reason |-> code]
                        /\ e = HealthEvent(auth, n, "failure")
      OBVIOUS
    <2>2. /\ ledger' = Append(ledger, row)
          /\ health' = IF code \in HealthCodes THEN Append(health, e) ELSE health
      BY <1>3, <1>5, <2>1 DEF Abandon
    <2>3. row.type = "abandoned" /\ row.auth = auth.offer.id /\ row.reservation = n /\ row.reason = code
      BY <2>1
    <2>4. row \in Row
      <3>1. auth.offer.id \in Ids
        BY <1>2 DEF Capability, Ids
      <3> QED
        BY <1>2, <2>1, <3>1 DEF Row, AbandonedRow
    <2>5. e \in HealthRow /\ e.reservation = n /\ e.type = "failure"
      <3>1. e \in HealthRow
        BY <1>2, <2>1, HealthTyped
      <3> QED
        BY <2>1, <3>1 DEF HealthEvent
    <2>6. \/ health' = health
          \/ \E f \in HealthRow :
                 /\ health' = Append(health, f)
                 /\ f.reservation = n
                 /\ IF f.type = "success" THEN row.type = "settled"
                    ELSE row.type = "abandoned" /\ row.reason \in HealthCodes
      BY <2>2, <2>3, <2>5
    <2>7. None \in EndedRun(p)
      BY DEF EndedRun
    <2> QED
      BY <1>0, <1>1, <1>3, <1>5, <2>2, <2>3, <2>4, <2>6, <2>7, EndInv
  <1> QED
    BY <1>4, <1>5

-----------------------------------------------------------------------------
(* The theorems *)

\* Every step preserves the invariant.
LEMMA RNextInv ==
  ASSUME RInv, [RNext]_rvars
  PROVE  RInv'
  <1>1. CASE UNCHANGED rvars
    BY <1>1, QuietInv DEF rvars, registryVars
  <1>2. CASE LeaseNext /\ UNCHANGED <<authorizationVars, registryVars>>
    BY <1>2, LeaseStepInv DEF registryVars
  <1>3. ASSUME NEW p \in Provers, NEW binding, Register(p, binding) \/ Drift(p, binding)
        PROVE  RInv'
    BY <1>3, QuietInv DEF Register, Drift
  <1>4. ASSUME NEW p \in Provers, NEW c \in capabilities, NEW prompt \in Prompts,
               Begin(p, c.capability, prompt)
        PROVE  RInv'
    BY <1>4, BeginInv
  <1>5. ASSUME NEW p \in Provers, Die(p)
        PROVE  RInv'
    BY <1>5, DieInv
  <1>6. CASE Operator
    <2>1. UNCHANGED <<leaseVars, registryVars>>
      BY <1>6 DEF Operator
    <2>2. ASSUME NEW approval \in Approvals, NEW key, RegisterApproval(approval, key)
          PROVE  RInv'
      BY <2>1, <2>2, ApprovalInv
    <2>3. ASSUME NEW i \in Issuers, NEW offer \in Offers, NEW key \in Keys.issue,
                 NEW lease \in granted, Mint(i, offer, key, lease)
          PROVE  RInv'
      BY <2>1, <2>3, MintInv
    <2>4. ASSUME NEW i \in Issuers, Commit(i) \/ Forget(i)
          PROVE  RInv'
      BY <2>1, <2>4, CommitInv, ForgetInv
    <2>5. ASSUME NEW offer \in Offers, NEW reason \in Reasons, NEW key,
                 Revoke(offer.id, reason, key)
          PROVE  RInv'
      BY <2>1, <2>5, RevokeInv
    <2> QED
      BY <1>6, <2>2, <2>3, <2>4, <2>5 DEF Operator
  <1>7. ASSUME NEW p \in Provers, RunStep(p)
        PROVE  RInv'
    BY <1>7, ReserveInv, ProbeInv, CallInv, SettleInv, AbandonInv DEF RunStep
  <1> QED
    BY <1>1, <1>2, <1>3, <1>4, <1>5, <1>6, <1>7 DEF RNext, Environment

\* However processes, operators and workers interleave, the four layers of the
\* invariant hold together.
THEOREM RegistryInvariance == RSpec => []RInv
  <1>1. RInv /\ [RNext]_rvars => RInv'
    BY RNextInv
  <1> QED
    BY <1>1, RInitInv, PTL DEF RSpec

\* Every table, ledger and call has its type.
THEOREM RegistryTypeCorrect == RSpec => []RTypeOK
  <1>1. RInv => RTypeOK
    BY DEF RInv
  <1> QED
    BY <1>1, RegistryInvariance, PTL

\* However often issue() is retried or raced, one authorization id and one
\* idempotency key have one capability.
THEOREM OneCapabilityHolds == RSpec => []OneCapability
  <1>1. ASSUME RInv PROVE OneCapability
    <2> SUFFICES ASSUME NEW c \in capabilities, NEW d \in capabilities,
                        c.key = d.key \/ c.capability.offer.id = d.capability.offer.id
                 PROVE  c.capability = d.capability
      BY DEF OneCapability
    <2>1. c.capability \in authorizations /\ d.capability \in authorizations
      BY <1>1 DEF RInv, CapabilitiesInv
    <2>2. c.key = d.key => IssueRequest(c.capability) = IssueRequest(d.capability)
      BY <1>1 DEF RInv, CapabilitiesInv
    <2>3. c.key = d.key => c.capability.offer = d.capability.offer
      BY <2>2 DEF IssueRequest
    <2> QED
      BY <1>1, <2>1, <2>3 DEF RInv, CapabilitiesInv
  <1> QED
    BY <1>1, RegistryInvariance, PTL

\* Whatever attempts run, fail or are lost, and however many workers reserve
\* at once, the totals of every capability stay within every limit.
THEOREM BudgetNeverExceeded == RSpec => []BudgetHolds
  <1>1. RInv => BudgetHolds
    BY DEF RInv, LedgerInv
  <1> QED
    BY <1>1, RegistryInvariance, PTL

\* A row is one of a single capability, so its bundle is that one's.
LEMMA FenceOrder ==
  ASSUME RInv
  PROVE  LedgerInFenceOrder
  <1> USE DEF RInv, LedgerInv
  <1>1. ASSUME NEW n \in DOMAIN ledger
        PROVE  \E a \in authorizations : a.offer.id = ledger[n].auth /\ BundleOf(n) = a.offer.bundle
    <2>1. PICK a \in authorizations : a.offer.id = ledger[n].auth
      BY DEF RowsAuthorized
    <2>2. PICK b : b = CHOOSE auth \in authorizations : auth.offer.id = ledger[n].auth
      OBVIOUS
    <2>3. b \in authorizations /\ b.offer.id = ledger[n].auth
      BY <2>1, <2>2
    <2> QED
      BY <2>2, <2>3 DEF BundleOf
  <1> SUFFICES ASSUME NEW m \in DOMAIN ledger, NEW n \in DOMAIN ledger, m < n,
                      Fenced(m), Fenced(n), BundleOf(m) = BundleOf(n)
               PROVE  ledger[m].token <= ledger[n].token
    BY DEF LedgerInFenceOrder
  <1>2. PICK a \in authorizations : a.offer.id = ledger[m].auth /\ BundleOf(m) = a.offer.bundle
    BY <1>1
  <1>3. PICK b \in authorizations : b.offer.id = ledger[n].auth /\ BundleOf(n) = b.offer.bundle
    BY <1>1
  <1> QED
    BY <1>2, <1>3 DEF RowsFenced

\* The ledger can be replayed, nothing is used after it was revoked, and
\* reservations and settlements of a bundle are in the order of its tokens.
THEOREM LedgerAlwaysSound == RSpec => []LedgerSound
  <1>1. RInv => LedgerSound
    BY FenceOrder DEF RInv, LedgerInv, LedgerSound
  <1> QED
    BY <1>1, RegistryInvariance, PTL

\* Calls of a provider are as many reservations, of which a capability has no
\* more than its budget allows.
LEMMA CallsAreAttempts ==
  ASSUME RInv
  PROVE  CallsWithinAttempts
  <1> USE DEF RInv, LedgerInv
  <1> SUFFICES ASSUME NEW auth \in authorizations
               PROVE  Cardinality({i \in DOMAIN called : ledger[called[i]].auth = auth.offer.id})
                          <= auth.offer.budget.attempts
    BY DEF CallsWithinAttempts, CallsInv
  <1>1. PICK id, limit : id = auth.offer.id /\ limit = auth.offer.budget.attempts
    OBVIOUS
  <1> DEFINE S == {i \in DOMAIN called : ledger[called[i]].auth = id}
             T == Of(id, "reserved")
             f == [i \in S |-> called[i]]
  <1>2. IsFiniteSet(T) /\ Cardinality(T) <= limit
    BY <1>1, OfFinite DEF AttemptsBounded, Attempts
  <1>3. \A i \in S : called[i] \in T
    BY DEF CallsInv, Of
  <1>4. \A i, j \in S : called[i] = called[j] => i = j
    BY DEF CallsInv
  <1>5. f \in Injection(S, T)
    <2>1. f \in [S -> T]
      BY <1>3
    <2>2. \A i, j \in S : f[i] = f[j] => i = j
      BY <1>4
    <2> HIDE DEF f, S, T
    <2> QED
      BY <2>1, <2>2 DEF Injection, IsInjective
  <1> HIDE DEF f, T
  <1>6. IsFiniteSet(S) /\ Cardinality(S) <= Cardinality(T)
    <2> HIDE DEF S
    <2> QED
      BY <1>2, <1>5, FS_Injection DEF ExistsInjection
  <1>7. Cardinality(S) \in Nat /\ Cardinality(T) \in Nat /\ limit \in Nat
    BY <1>1, <1>2, <1>6, FS_CardinalityType, OfferAssumption DEF RTypeOK, Capability
  <1>8. Cardinality(S) <= limit
    <2> HIDE DEF S
    <2> QED
      BY <1>2, <1>6, <1>7
  <1> QED
    BY <1>1, <1>8

\* However processes fail, restart and race, a provider is called at most
\* max_attempts times under a capability, each time under its own reservation.
THEOREM CallsBounded == RSpec => []CallsWithinAttempts
  <1>1. RInv => CallsWithinAttempts
    BY CallsAreAttempts
  <1> QED
    BY <1>1, RegistryInvariance, PTL

\* Products grow with their factors.
LEMMA ProductMonotone ==
  ASSUME NEW a \in Nat, NEW b \in Nat, NEW c \in Nat, NEW d \in Nat, a <= b, c <= d
  PROVE  a * c <= b * d /\ a * c \in Nat /\ b * d \in Nat
  <1>1. PICK x \in Nat : b = a + x
    BY b - a \in Nat
  <1>2. PICK y \in Nat : d = c + y
    BY d - c \in Nat
  <1>3. (a + x) * (c + y) = a * c + a * y + x * c + x * y
    BY <1>1, <1>2
  <1>4. a * c \in Nat /\ a * y \in Nat /\ x * c \in Nat /\ x * y \in Nat
    BY <1>1, <1>2
  <1> QED
    BY <1>1, <1>2, <1>3, <1>4

\* Whatever part of its input was cached, a usage within the limits of a
\* prompt costs at most the worst case.
LEMMA WorstCaseCovers ==
  ASSUME NEW auth \in Capability, NEW prompt, prompt.input \in Nat, prompt.output \in Nat,
         NEW usage \in Usages(prompt)
  PROVE  CostOf(auth.approval.rates, usage)
             <= ReserveCost(auth.approval.rates, prompt.input, prompt.output)
  <1>1. PICK i, c, o \in Nat : /\ i = auth.approval.rates.input
                               /\ c = auth.approval.rates.cached
                               /\ o = auth.approval.rates.output
    BY OfferAssumption DEF Capability
  <1>2. PICK x, y, z \in Nat :
            /\ x = usage.input /\ y = usage.cached /\ z = usage.output
            /\ y <= x /\ x <= prompt.input /\ z <= prompt.output
    BY DEF Usages
  <1>3. PICK p, q \in Nat : p = prompt.input /\ q = prompt.output
    OBVIOUS
  <1>4. PICK m \in Nat : m = Max({i, c}) /\ i <= m /\ c <= m
    BY MaxOfTwo
  <1>5. PICK u \in Nat : u = x - y
    BY <1>2, x - y \in Nat
  <1>6. u * i <= u * m /\ y * c <= y * m /\ u * i \in Nat /\ y * c \in Nat /\ u * m \in Nat /\ y * m \in Nat
    BY <1>4, ProductMonotone
  <1>7. u * m + y * m = x * m
    <2>1. u + y = x
      BY <1>2, <1>5
    <2>2. u * m + y * m = (u + y) * m
      OBVIOUS
    <2> QED
      BY <2>1, <2>2
  <1>8. x * m <= p * m /\ z * o <= q * o /\ x * m \in Nat /\ p * m \in Nat /\ z * o \in Nat /\ q * o \in Nat
    BY <1>2, <1>3, ProductMonotone
  <1>9. p * m = m * p /\ q * o = o * q
    OBVIOUS
  <1>10. CostOf(auth.approval.rates, usage) = u * i + y * c + z * o
    BY <1>1, <1>2, <1>5 DEF CostOf
  <1>11. ReserveCost(auth.approval.rates, prompt.input, prompt.output) = m * p + o * q
    BY <1>1, <1>3, <1>4 DEF ReserveCost
  <1> QED
    BY <1>6, <1>7, <1>8, <1>9, <1>10, <1>11

\* A settlement is never refused for exceeding its reservation.
LEMMA CoveredInv ==
  ASSUME RInv
  PROVE  UsageCovered
  <1> SUFFICES ASSUME NEW p \in Provers, runs[p].pc = "settle"
               PROVE  /\ runs[p].usage.input <= ledger[runs[p].n].charge.input
                      /\ runs[p].usage.output <= ledger[runs[p].n].charge.output
                      /\ CostOf(runs[p].auth.approval.rates, runs[p].usage)
                             <= ledger[runs[p].n].charge.cost
    BY DEF UsageCovered
  <1>1. PICK auth, prompt, usage, n :
            auth = runs[p].auth /\ prompt = runs[p].prompt /\ usage = runs[p].usage /\ n = runs[p].n
    OBVIOUS
  <1>2. Holding(p)
    BY DEF Holding
  <1>3. /\ auth \in Capability /\ prompt.input \in Nat /\ prompt.output \in Nat
        /\ usage \in Usages(prompt)
        /\ ledger[n].charge = WorstCase(auth, prompt)
    BY <1>1, <1>2, RunTyped DEF CallHolds
  <1>4. /\ ledger[n].charge.input = prompt.input
        /\ ledger[n].charge.output = prompt.output
        /\ ledger[n].charge.cost = ReserveCost(auth.approval.rates, prompt.input, prompt.output)
    BY <1>3 DEF WorstCase
  <1>5. usage.input <= prompt.input /\ usage.output <= prompt.output
    BY <1>3 DEF Usages
  <1>6. CostOf(auth.approval.rates, usage) <= ReserveCost(auth.approval.rates, prompt.input, prompt.output)
    BY <1>3, WorstCaseCovers
  <1> QED
    BY <1>1, <1>4, <1>5, <1>6

\* A response is returned only once it was settled, never exceeds its
\* reservation, and no failure leaves a reservation nobody will end.
THEOREM CallsAlwaysAccounted == RSpec => []CallsAccounted
  <1>1. RInv => CallsAccounted
    BY CoveredInv DEF RInv, CallsInv, CallsAccounted
  <1> QED
    BY <1>1, RegistryInvariance, PTL

\* Health events are one per attempt, and only the provider's own failures
\* count against it.
THEOREM CircuitAlwaysJustified == RSpec => []CircuitJustified
  <1>1. RInv => CircuitJustified
    BY DEF RInv, CallsInv
  <1> QED
    BY <1>1, RegistryInvariance, PTL
=============================================================================
