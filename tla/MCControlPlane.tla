--------------------------- MODULE MCControlPlane ---------------------------
(* Model-checking instances of ControlPlane: the commands clients deliver. *)
EXTENDS Projection, TLC

CONSTANTS b1, b2, w1, w2

Command(op, key, bundle, worker, id, contract, nonce, ok) ==
    [op |-> op, key |-> key, bundle |-> bundle, worker |-> worker, id |-> id,
     contract |-> contract, nonce |-> nonce, ok |-> ok]

Register(key, bundle, id, contract, nonce) ==
    Command("register", key, bundle, w1, id, contract, nonce, TRUE)
Claim(key, bundle, worker) ==
    Command("claim", key, bundle, worker, "none", "none", "none", TRUE)
Submit(key, bundle, id, contract) ==
    Command("submit", key, bundle, w1, id, contract, "none", TRUE)
Gap(key, bundle, id, contract) ==
    Command("gap", key, bundle, w1, id, contract, "none", TRUE)
Change(key, bundle, id, contract) ==
    Command("change", key, bundle, w1, id, contract, "none", TRUE)
Verify(key, bundle, id, contract, nonce, ok) ==
    Command("verify", key, bundle, w1, id, contract, nonce, ok)

\* Two hashes of the same contract revision, and one of another revision.
Revision == [c \in {"c1", "c1x", "c2"} |-> IF c = "c2" THEN "r2" ELSE "r1"]

\* One bundle, two workers, one proof, its verdict and a gap report.
FencingRequests ==
    { Register("k1", b1, "h1", "c1", "n1"),
      Claim("k1", b1, w1), Claim("k2", b1, w2),
      Submit("k1", b1, "p1", "c1"),
      Verify("k1", b1, "p1", "c1", "n1", TRUE),
      Gap("k1", b1, "g1", "c1") }

\* Two bundles, two hashes of one contract revision, retries under new keys,
\* a reused key, a reused nonce, a bundle whose graphs are not valid, and a
\* proof verified through the other bundle.
RegistrationRequests ==
    { Register("k1", b1, "h1", "c1", "n1"),
      Register("k2", b1, "h1", "c1", "n1"),
      Register("k1", b2, "h2", "c1", "n2"),
      Register("k3", b2, "h2", "c1", "n2"),
      Register("k4", b2, "h3", "c2", "n1"),
      Register("k5", b1, "h4", "c1x", "n3"),
      Register("k6", b2, "h5", "c2", "n4"),
      Claim("k1", b1, w1), Claim("k2", b2, w1),
      Submit("k1", b1, "p1", "c1"), Submit("k2", b2, "p2", "c1"),
      Verify("k1", b1, "p1", "c1", "n1", TRUE),
      Verify("k2", b2, "p1", "c1", "n1", TRUE) }

\* Reviews of one bundle whose identifiers differ.
ReviewRequests ==
    { Register("k1", b1, "h1", "c1", "n1"),
      Claim("k1", b1, w1), Claim("k2", b1, w1),
      Submit("k1", b1, "p1", "c1"), Submit("k2", b1, "p1", "c1"),
      Gap("k1", b1, "g1", "c1"),
      Change("k1", b1, "r1", "c1") }

\* Two proofs of one bundle, one of them rejected.
VerdictRequests ==
    { Register("k1", b1, "h1", "c1", "n1"),
      Claim("k1", b1, w1),
      Submit("k1", b1, "p1", "c1"), Submit("k2", b1, "p2", "c1"),
      Verify("k1", b1, "p1", "c1", "n1", FALSE), Verify("k2", b1, "p2", "c1", "n2", TRUE) }

\* A gap report and a change request that use the same identifier.
SharedReviewRequests ==
    { Register("k1", b1, "h1", "c1", "n1"), Claim("k1", b1, w1),
      Gap("k1", b1, "g1", "c1"), Change("k1", b1, "g1", "c1") }

\* One claim, delivered more than once, and one proof.
RedeliveryRequests ==
    { Register("k1", b1, "h1", "c1", "n1"), Claim("k1", b1, w1),
      Submit("k1", b1, "p1", "c1") }

Symmetry == Permutations(Callers)
=============================================================================
