-------------------------- MODULE MCModelExecution --------------------------
(* The operator works through one of several plans: what it asks for, how  *)
(* many leases it waits for, and how many processes use the capabilities.  *)
(* Drift, crashes and revocations are left to the first plan.             *)

EXTENDS MCProviderRegistry

CONSTANTS i1, i2

VARIABLE plan

Plans ==
    { [name |-> "attempts", asks |-> {<<"a1", "k1", i1>>}, tokens |-> 1, provers |-> 2],
      [name |-> "leases", asks |-> {<<"a2", "k1", i1>>, <<"a3", "k2", i1>>},
       tokens |-> 2, provers |-> 1],
      [name |-> "retries", asks |-> {"a2", "a4"} \X {"k1", "k2"} \X {i1, i2},
       tokens |-> 2, provers |-> 0] }

MCInit == RInit /\ plan \in Plans

MCNext ==
    /\ RNext
    /\ UNCHANGED plan
    /\ \A i \in Issuers : minting'[i] # None =>
           <<minting'[i].capability.offer.id, minting'[i].key, i>> \in plan.asks
    /\ \A lease \in granted' : lease.token <= plan.tokens
    /\ plan.name = "leases" =>
           /\ drifted' = {} /\ lost' = {}
           /\ \A offer \in Offers : ~Revoked(offer.id)'
    /\ Cardinality({p \in Provers : registered'[p] # {}}) <= plan.provers

MCSpec == MCInit /\ [][MCNext]_<<rvars, plan>>
=============================================================================
