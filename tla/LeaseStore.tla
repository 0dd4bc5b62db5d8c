----------------------------- MODULE LeaseStore -----------------------------
(***************************************************************************)
(* The SQLite lease store of the control plane                             *)
(* (packages/control_plane/src/autolean_control_plane/leases.py).          *)
(*                                                                         *)
(* The two tables are modelled as tables: worker_leases is a set of rows   *)
(* (a Lease value is exactly such a row) and lease_counters maps a job to  *)
(* the last fencing token handed out for it, 0 standing for "no row".      *)
(*                                                                         *)
(* Every write runs in one BEGIN IMMEDIATE transaction and is one action.  *)
(* claim and renew read the clock BEFORE the transaction begins, so the    *)
(* time they compare with may be older than the time at which they commit: *)
(* "now" is a parameter of those actions.  release checks the lease in one *)
(* read and deletes it in a later transaction: it is two actions.          *)
(***************************************************************************)
EXTENDS Integers

CONSTANTS
    Jobs,       \* what can be leased (the control plane leases bundle IDs)
    Holders,    \* worker identities
    TTL,        \* ttl_seconds, in ticks of the clock
    MaxTime,    \* bound: the clock stops here
    MaxToken    \* bound: fencing tokens handed out per job

ASSUME LeaseAssumption ==
    /\ TTL \in Nat \ {0}
    /\ MaxTime \in Nat
    /\ MaxToken \in Nat

VARIABLES
    clock,          \* UTC time, shared by the processes of the host
    worker_leases,  \* table worker_leases: a set of Lease rows
    lease_counters, \* table lease_counters: job -> last_fencing_token
    granted,        \* every Lease value the store has ever returned
    releasing       \* leases whose release() has passed assert_current

leaseVars == <<clock, worker_leases, lease_counters, granted, releasing>>

Lease == [job: Jobs, holder: Holders, token: Nat, expires: Nat]

\* The identity a fence compares: everything of a lease but its expiry.
SameFence(l, m) ==
    /\ l.job = m.job
    /\ l.holder = m.holder
    /\ l.token = m.token

Live(lease, now) == lease.expires > now

\* assert_current, and the fence check EventStore makes inside a transaction.
\* The expiry compared is the row's, never the one the caller presents.
IsCurrent(lease, now) ==
    \E row \in worker_leases : SameFence(row, lease) /\ Live(row, now)

LeaseInit ==
    /\ clock = 0
    /\ worker_leases = {}
    /\ lease_counters = [j \in Jobs |-> 0]
    /\ granted = {}
    /\ releasing = {}

Tick ==
    /\ clock < MaxTime
    /\ clock' = clock + 1
    /\ UNCHANGED <<worker_leases, lease_counters, granted, releasing>>

\* Mutant: the expiry is computed backwards.
NewLeaseBackdated(job, holder, now) ==
    [job |-> job, holder |-> holder,
     token |-> lease_counters[job] + 1, expires |-> now - TTL]

NewLease(job, holder, now) ==
    [job |-> job, holder |-> holder,
     token |-> lease_counters[job] + 1, expires |-> now + TTL]

\* Mutant: an expiry check that is off by one.
ClaimFreshEarly(job, holder, now) ==
    /\ lease_counters[job] < MaxToken
    /\ \A row \in worker_leases : row.job = job => ~Live(row, now + 1)
    /\ LET lease == NewLease(job, holder, now)
       IN  /\ lease_counters' = [lease_counters EXCEPT ![job] = lease.token]
           /\ worker_leases' =
                  {row \in worker_leases : row.job # job} \cup {lease}
           /\ granted' = granted \cup {lease}
    /\ UNCHANGED <<clock, releasing>>

\* claim(), no row or an expired one: the counter advances and the row is
\* inserted or replaced (ON CONFLICT(job_id) DO UPDATE).
ClaimFresh(job, holder, now) ==
    /\ lease_counters[job] < MaxToken
    /\ \A row \in worker_leases : row.job = job => ~Live(row, now)
    /\ LET lease == NewLease(job, holder, now)
       IN  /\ lease_counters' = [lease_counters EXCEPT ![job] = lease.token]
           /\ worker_leases' =
                  {row \in worker_leases : row.job # job} \cup {lease}
           /\ granted' = granted \cup {lease}
    /\ UNCHANGED <<clock, releasing>>

\* claim(), live row of the same holder: the existing lease is returned as
\* it is, neither extended nor given a new token.
ClaimAgain(job, holder, now) ==
    \E row \in worker_leases :
        /\ row.job = job
        /\ row.holder = holder
        /\ Live(row, now)
        /\ granted' = granted \cup {row}
        /\ UNCHANGED <<clock, worker_leases, lease_counters, releasing>>

\* claim(), live row of another holder: LeaseUnavailable, nothing changes.
Unavailable(job, holder, now) ==
    \E row \in worker_leases :
        row.job = job /\ row.holder # holder /\ Live(row, now)

\* Mutant: the WHERE clause of the renewal forgets the fencing token.
RenewAnyToken(lease, now) ==
    /\ \E row \in worker_leases :
           row.job = lease.job /\ row.holder = lease.holder /\ Live(row, now)
    /\ LET renewed == [lease EXCEPT !.expires = now + TTL]
       IN  /\ worker_leases' =
                  {row \in worker_leases : row.job # lease.job} \cup {renewed}
           /\ granted' = granted \cup {renewed}
    /\ UNCHANGED <<clock, lease_counters, releasing>>

\* renew(): the row keeps its token and gets a new expiry, provided that it
\* was still live at the time sampled before the transaction.
Renew(lease, now) ==
    /\ \E row \in worker_leases : SameFence(row, lease) /\ Live(row, now)
    /\ LET renewed == [lease EXCEPT !.expires = now + TTL]
       IN  /\ worker_leases' =
                  {row \in worker_leases : ~SameFence(row, lease)} \cup {renewed}
           /\ granted' = granted \cup {renewed}
    /\ UNCHANGED <<clock, lease_counters, releasing>>

\* release(), first half: assert_current.
ReleaseCheck(lease) ==
    /\ IsCurrent(lease, clock)
    /\ releasing' = releasing \cup {lease}
    /\ UNCHANGED <<clock, worker_leases, lease_counters, granted>>

\* Mutant: releasing a lease deletes its counter row too.
ReleaseForgets(lease) ==
    /\ lease \in releasing
    /\ releasing' = releasing \ {lease}
    /\ worker_leases' = {row \in worker_leases : ~SameFence(row, lease)}
    /\ lease_counters' = [lease_counters EXCEPT ![lease.job] = 0]
    /\ UNCHANGED <<clock, granted>>

\* release(), second half: DELETE of the row with this fence, whatever its
\* expiry now is; StaleFence when there is none.  The counter row stays.
ReleaseDelete(lease) ==
    /\ lease \in releasing
    /\ releasing' = releasing \ {lease}
    /\ worker_leases' = {row \in worker_leases : ~SameFence(row, lease)}
    /\ UNCHANGED <<clock, lease_counters, granted>>

\* The times a caller holding this lease can have sampled: not before the
\* sample from which the store computed the lease's own expiry.
SampledSince(lease) == {now \in 0 .. clock : now + TTL >= lease.expires}

LeaseClaim ==
    \E job \in Jobs, holder \in Holders, now \in 0 .. clock :
        ClaimFresh(job, holder, now) \/ ClaimAgain(job, holder, now)

LeaseRenew ==
    \E lease \in granted : \E now \in SampledSince(lease) : Renew(lease, now)

LeaseRelease ==
    \/ \E lease \in granted : ReleaseCheck(lease)
    \/ \E lease \in releasing : ReleaseDelete(lease)

LeaseNext == Tick \/ LeaseClaim \/ LeaseRenew \/ LeaseRelease

LeaseSpec == LeaseInit /\ [][LeaseNext]_leaseVars

-----------------------------------------------------------------------------
(* Properties *)

\* Every table and history variable holds rows of its schema.
LeaseTypeOK ==
    /\ clock \in Nat
    /\ worker_leases \subseteq Lease
    /\ lease_counters \in [Jobs -> Nat]
    /\ granted \subseteq Lease
    /\ releasing \subseteq granted

\* PRIMARY KEY (job_id): the upsert of claim and the UPDATE of renew keep one
\* row per job, so a job never has two holders.
OneRowPerJob ==
    \A l, m \in worker_leases : l.job = m.job => l = m

\* The row carries the newest token of its job, and no lease ever returned
\* carries a newer one: a replaced holder's token stays below the counter
\* through renewals, releases and re-claims.
RowHasNewestToken ==
    /\ \A row \in worker_leases :
           row \in granted /\ row.token = lease_counters[row.job]
    /\ \A lease \in granted : lease.token \in 1 .. lease_counters[lease.job]

\* The lease table at every moment: one row per job, with the newest token.
LeaseRowsSound == OneRowPerJob /\ RowHasNewestToken

\* A fencing token is never reused: whoever holds it, for as long as the
\* database lives, it was handed to one worker.
TokenNamesOneHolder ==
    \A l, m \in granted :
        l.job = m.job /\ l.token = m.token => l.holder = m.holder

\* A live lease is only taken from its holder by its own release: no claim,
\* however late its transaction runs, replaces a row that has not expired.
LiveLeaseNotStolen ==
    [][\A row \in worker_leases :
          Live(row, clock) =>
              \/ \E new \in worker_leases' : SameFence(new, row)
              \/ \E lease \in releasing : SameFence(lease, row)]_leaseVars
=============================================================================
