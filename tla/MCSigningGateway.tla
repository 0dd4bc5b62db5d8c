-------------------------- MODULE MCSigningGateway --------------------------
(* A model-checking instance of SigningGateway. *)
EXTENDS SigningGateway, TLC

CONSTANTS b1, w1

Command(op, key, worker, id, nonce, ok) ==
    [op |-> op, key |-> key, bundle |-> b1, worker |-> worker, id |-> id,
     contract |-> "c1", nonce |-> nonce, ok |-> ok]

\* One bundle and proof; the report may come to carry either of two nonces.
GatewayRequests ==
    { Command("register", "k1", w1, "h1", "n1", TRUE),
      Command("claim", "k1", w1, "none", "none", TRUE),
      Command("submit", "k1", w1, "p1", "none", TRUE),
      Command("verify", "k1", w1, "p1", "n1", TRUE),
      Command("verify", "k1", w1, "p1", "n2", TRUE) }

Verdict == [bundle |-> b1, id |-> "p1", contract |-> "c1", ok |-> TRUE]

Ticket(id, key, ttl, requested_at) ==
    [id |-> id, nonce |-> id, key |-> key, context |-> Verdict, ttl |-> ttl,
     requested_at |-> requested_at,
     evidence |-> TRUE]

\* The same report under two keys: asked for at 0 for one tick, and at 1.
GatewayTickets == { Ticket("i1", "s1", 1, 0), Ticket("i2", "s2", 2, 1) }

Revision == [c \in {"c1"} |-> "r1"]

Symmetry == Permutations(Gateways)
=============================================================================
