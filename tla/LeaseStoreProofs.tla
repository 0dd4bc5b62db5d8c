-------------------------- MODULE LeaseStoreProofs --------------------------
(***************************************************************************)
(* What the lease store guarantees for every set of jobs and holders, every *)
(* TTL and every bound.  LeaseInv is inductive: the row of a job carries    *)
(* the counter's token, so a token handed out next is fresh, so a token     *)
(* names one holder.                                                        *)
(***************************************************************************)
EXTENDS LeaseStore, TLAPS

LeaseInv ==
    /\ LeaseTypeOK
    /\ OneRowPerJob
    /\ RowHasNewestToken
    /\ TokenNamesOneHolder

\* The empty lease tables satisfy the invariant.
LEMMA LeaseInitInv == LeaseInit => LeaseInv
  BY LeaseAssumption DEF LeaseInit, LeaseInv, LeaseTypeOK, OneRowPerJob,
     RowHasNewestToken, TokenNamesOneHolder

\* claim() that grants a new token preserves the invariant.
LEMMA ClaimFreshInv ==
  ASSUME LeaseInv, NEW job \in Jobs, NEW holder \in Holders,
         NEW now \in Nat, ClaimFresh(job, holder, now)
  PROVE  LeaseInv'
  <1> DEFINE lease == NewLease(job, holder, now)
  <1>1. lease \in Lease /\ lease.job = job /\ lease.holder = holder
        /\ lease.token = lease_counters[job] + 1
    BY LeaseAssumption DEF LeaseInv, LeaseTypeOK, Lease, NewLease
  <1> HIDE DEF lease
  <1>2. /\ lease_counters' = [lease_counters EXCEPT ![job] = lease.token]
        /\ worker_leases' = {row \in worker_leases : row.job # job} \cup {lease}
        /\ granted' = granted \cup {lease}
        /\ UNCHANGED <<clock, releasing>>
    BY DEF ClaimFresh, lease
  <1>3. LeaseTypeOK'
    BY <1>1, <1>2 DEF LeaseInv, LeaseTypeOK, Lease
  <1>4. OneRowPerJob'
    BY <1>1, <1>2 DEF LeaseInv, OneRowPerJob
  <1>5. RowHasNewestToken'
    BY <1>1, <1>2 DEF LeaseInv, LeaseTypeOK, Lease, RowHasNewestToken
  <1>6. TokenNamesOneHolder'
    BY <1>1, <1>2 DEF LeaseInv, LeaseTypeOK, Lease, RowHasNewestToken, TokenNamesOneHolder
  <1> QED
    BY <1>3, <1>4, <1>5, <1>6 DEF LeaseInv

\* claim() that returns the row it finds preserves the invariant.
LEMMA ClaimAgainInv ==
  ASSUME LeaseInv, NEW job \in Jobs, NEW holder \in Holders,
         NEW now \in Nat, ClaimAgain(job, holder, now)
  PROVE  LeaseInv'
  <1>1. granted' = granted /\ UNCHANGED <<clock, worker_leases, lease_counters, releasing>>
    BY DEF ClaimAgain, LeaseInv, RowHasNewestToken
  <1> QED
    BY <1>1 DEF LeaseInv, LeaseTypeOK, OneRowPerJob, RowHasNewestToken, TokenNamesOneHolder

\* renew() preserves the invariant.
LEMMA RenewInv ==
  ASSUME LeaseInv, NEW lease \in granted, NEW now \in Nat, Renew(lease, now)
  PROVE  LeaseInv'
  <1> DEFINE renewed == [lease EXCEPT !.expires = now + TTL]
  <1>1. lease \in Lease
    BY DEF LeaseInv, LeaseTypeOK
  <1>2. renewed \in Lease /\ renewed.job = lease.job /\ renewed.holder = lease.holder
        /\ renewed.token = lease.token
    BY <1>1, LeaseAssumption DEF Lease
  <1> HIDE DEF renewed
  <1>3. /\ worker_leases' = {row \in worker_leases : ~SameFence(row, lease)} \cup {renewed}
        /\ granted' = granted \cup {renewed}
        /\ UNCHANGED <<clock, lease_counters, releasing>>
    BY DEF Renew, renewed
  <1>4. PICK old \in worker_leases : SameFence(old, lease)
    BY DEF Renew
  <1>5. LeaseTypeOK'
    BY <1>2, <1>3 DEF LeaseInv, LeaseTypeOK
  <1>6. OneRowPerJob'
    BY <1>2, <1>3, <1>4 DEF LeaseInv, OneRowPerJob, SameFence
  <1>7. RowHasNewestToken'
    BY <1>1, <1>2, <1>3, <1>4 DEF LeaseInv, LeaseTypeOK, RowHasNewestToken, SameFence
  <1>8. TokenNamesOneHolder'
    BY <1>1, <1>2, <1>3 DEF LeaseInv, TokenNamesOneHolder
  <1> QED
    BY <1>5, <1>6, <1>7, <1>8 DEF LeaseInv

\* Either half of release() preserves the invariant.
LEMMA ReleaseInv ==
  ASSUME LeaseInv, LeaseRelease
  PROVE  LeaseInv'
  <1>1. ASSUME NEW lease \in granted, ReleaseCheck(lease)
        PROVE  LeaseInv'
    BY <1>1 DEF ReleaseCheck, LeaseInv, LeaseTypeOK, OneRowPerJob,
       RowHasNewestToken, TokenNamesOneHolder
  <1>2. ASSUME NEW lease \in releasing, ReleaseDelete(lease)
        PROVE  LeaseInv'
    BY <1>2 DEF ReleaseDelete, LeaseInv, LeaseTypeOK, OneRowPerJob,
       RowHasNewestToken, TokenNamesOneHolder
  <1> QED
    BY <1>1, <1>2 DEF LeaseRelease

\* Any step of the lease store preserves the invariant.
LEMMA LeaseNextInv ==
  ASSUME LeaseInv, [LeaseNext]_leaseVars
  PROVE  LeaseInv'
  <1>1. CASE Tick
    BY <1>1 DEF Tick, LeaseInv, LeaseTypeOK, OneRowPerJob,
       RowHasNewestToken, TokenNamesOneHolder
  <1>2. CASE LeaseClaim
    <2>1. PICK job \in Jobs, holder \in Holders, now \in 0 .. clock :
              ClaimFresh(job, holder, now) \/ ClaimAgain(job, holder, now)
      BY <1>2 DEF LeaseClaim
    <2>2. now \in Nat
      BY DEF LeaseInv, LeaseTypeOK
    <2> QED
      BY <2>1, <2>2, ClaimFreshInv, ClaimAgainInv
  <1>3. CASE LeaseRenew
    <2>1. PICK lease \in granted : \E now \in SampledSince(lease) : Renew(lease, now)
      BY <1>3 DEF LeaseRenew
    <2>2. PICK now \in SampledSince(lease) : Renew(lease, now)
      BY <2>1
    <2>3. now \in Nat
      BY DEF LeaseInv, LeaseTypeOK, SampledSince
    <2> QED
      BY <2>2, <2>3, RenewInv
  <1>4. CASE LeaseRelease
    BY <1>4, ReleaseInv
  <1>5. CASE UNCHANGED leaseVars
    BY <1>5 DEF leaseVars, LeaseInv, LeaseTypeOK, OneRowPerJob,
       RowHasNewestToken, TokenNamesOneHolder
  <1> QED
    BY <1>1, <1>2, <1>3, <1>4, <1>5 DEF LeaseNext

\* The lease invariant holds in every reachable state of the lease store.
THEOREM LeaseInvariance == LeaseSpec => []LeaseInv
  <1>1. LeaseInv /\ [LeaseNext]_leaseVars => LeaseInv'
    BY LeaseNextInv
  <1> QED
    BY <1>1, LeaseInitInv, PTL DEF LeaseSpec

\* Rows and histories always have the types of their columns.
THEOREM LeaseTypeCorrect == LeaseSpec => []LeaseTypeOK
  <1>1. LeaseInv => LeaseTypeOK
    BY DEF LeaseInv
  <1> QED
    BY <1>1, LeaseInvariance, PTL

\* One holder per job, the newest token in the row, no token ever reused.
THEOREM LeaseSafety ==
    LeaseSpec => [](OneRowPerJob /\ RowHasNewestToken /\ TokenNamesOneHolder)
  <1>1. LeaseInv => OneRowPerJob /\ RowHasNewestToken /\ TokenNamesOneHolder
    BY DEF LeaseInv
  <1> QED
    BY <1>1, LeaseInvariance, PTL

\* The lease table has one row per job, and it carries the newest token.
THEOREM LeaseRows == LeaseSpec => []LeaseRowsSound
  <1>1. LeaseInv => LeaseRowsSound
    BY DEF LeaseInv, LeaseRowsSound
  <1> QED
    BY <1>1, LeaseInvariance, PTL

\* No claim, however stale the time it sampled, takes a lease that is still live.
THEOREM LeaseNotStolen == LeaseSpec => LiveLeaseNotStolen
  <1> DEFINE Kept ==
        \A row \in worker_leases :
          Live(row, clock) =>
              \/ \E new \in worker_leases' : SameFence(new, row)
              \/ \E lease \in releasing : SameFence(lease, row)
  <1>1. ASSUME LeaseInv, [LeaseNext]_leaseVars, NEW row \in worker_leases, Live(row, clock)
        PROVE  \/ \E new \in worker_leases' : SameFence(new, row)
               \/ \E lease \in releasing : SameFence(lease, row)
    <2>0. SameFence(row, row) /\ row \in Lease
      BY <1>1 DEF SameFence, LeaseInv, LeaseTypeOK
    <2>1. CASE LeaseClaim
      <3>1. PICK job \in Jobs, holder \in Holders, now \in 0 .. clock :
                ClaimFresh(job, holder, now) \/ ClaimAgain(job, holder, now)
        BY <2>1 DEF LeaseClaim
      <3>2. Live(row, now)
        BY <1>1, <2>0 DEF Live, LeaseInv, LeaseTypeOK, Lease
      <3>3. row \in worker_leases'
        BY <3>1, <3>2 DEF ClaimFresh, ClaimAgain
      <3> QED
        BY <3>3, <2>0
    <2>2. CASE LeaseRenew
      <3>1. PICK lease \in granted : \E now \in SampledSince(lease) : Renew(lease, now)
        BY <2>2 DEF LeaseRenew
      <3>2. PICK now \in SampledSince(lease) : Renew(lease, now)
        BY <3>1
      <3> DEFINE renewed == [lease EXCEPT !.expires = now + TTL]
      <3>3. worker_leases' = {r \in worker_leases : ~SameFence(r, lease)} \cup {renewed}
        BY <3>2 DEF Renew
      <3>4. SameFence(renewed, lease)
        BY <1>1 DEF SameFence, LeaseInv, LeaseTypeOK, Lease
      <3> HIDE DEF renewed
      <3> QED
        BY <3>3, <3>4, <2>0 DEF SameFence
    <2>3. CASE LeaseRelease
      BY <2>3, <2>0 DEF LeaseRelease, ReleaseCheck, ReleaseDelete, SameFence
    <2>4. CASE Tick \/ UNCHANGED leaseVars
      BY <2>4, <2>0 DEF Tick, leaseVars
    <2> QED
      BY <1>1, <2>1, <2>2, <2>3, <2>4 DEF LeaseNext
  <1>2. LeaseInv /\ [LeaseNext]_leaseVars => [Kept]_leaseVars
    BY <1>1
  <1> QED
    BY <1>2, LeaseInvariance, PTL DEF LeaseSpec, LiveLeaseNotStolen
=============================================================================
