------------------------- MODULE MCProviderRegistry -------------------------
(* Model-checking instances of ProviderRegistry. *)
EXTENDS ProviderRegistry, TLC

CONSTANTS b1, p1, p2

Rights == [overall |-> "allow", egress |-> TRUE, classes |-> {"approved_external"}]

Approval(id, class) ==
    [id |-> id, binding |-> id, class |-> class,
     rates |-> [input |-> 1, cached |-> 2, output |-> 1]]

OneApproval == { Approval("gpt", "approved_external") }

Budget(attempts, input, output, cost) ==
    [attempts |-> attempts, input |-> input, output |-> output,
     total |-> input + output, cost |-> cost]

Offer(id, ttl, budget) ==
    [id |-> id, bundle |-> b1, approval |-> "gpt", request |-> "q1", budget |-> budget,
     ttl |-> ttl, rights |-> Rights, matches |-> TRUE]

\* Offer a1 has room for two attempts at once, or for more output when one of
\* them is abandoned; a2 and a3 are for two leases of one worker, a4 asks for
\* longer than any lease lasts.
Small == Budget(1, 1, 1, 3)
FourOffers ==
    { Offer("a1", 1, Budget(2, 2, 1, 6)), Offer("a2", 1, Small), Offer("a3", 1, Small),
      Offer("a4", 2, Small) }
OneOffer == { Offer("a1", 1, Small) }
OneKey == [approve |-> {"k1"}, issue |-> {"k1"}, revoke |-> {"k1"}]
TwoKeys == [approve |-> {"k1"}, issue |-> {"k1", "k2"}, revoke |-> {"k1"}]
Prompt == { [hash |-> "q1", input |-> 1, output |-> 1] }

Symmetry == Permutations(Provers)

=============================================================================
