------------------------- MODULE MCProofVerification ------------------------
(* A worker, one that is configured with another image, and another user   *)
(* of the store.  A behaviour follows one plan: files change under the     *)
(* worker; leases, containers and processes fail; worker and other user    *)
(* share the store; the misconfigured worker acts; or the caller presents  *)
(* any submission with any digest.                                         *)
EXTENDS VerdictAdmission

CONSTANTS w1, w2, c1, doc

VARIABLE plan

MCBundle ==
    [statement |-> "stmt", type |-> "t", axioms |-> {"choice"}, strict |-> FALSE, image |-> "i1",
     mounts |-> [compile |-> {"source", "dependencies", "candidate", "output"},
                 query |-> {"source", "dependencies", "compiled"}]]

\* Several texts, and several manifests, carry the same proof id.
Submission(id, proof, deps) ==
    [id |-> id, proof |-> proof, deps |-> deps, placeholder |-> proof = "sorry"]
MCRegistered == [p |-> Submission("p", "good", {}), q |-> Submission("q", "axiom", {})]
Others ==
    { Submission("p", "wrong", {}), Submission("p", "good", {"d"}),
      Submission("q", "good", {}), Submission("q", "sorry", {}) }
MCSubmissions == {MCRegistered.p, MCRegistered.q} \cup Others

Makes(compiles, type, axioms) == [compiles |-> compiles, type |-> type, axioms |-> axioms]
MCLean ==
    [s \in [header : {"stmt", "easy"}, proof : {"good", "wrong", "axiom"}] |->
        CASE s.header = "easy" -> Makes(TRUE, "u", {})
          [] s.proof = "good" -> Makes(TRUE, "t", {"choice"})
          [] s.proof = "axiom" -> Makes(TRUE, "t", {"choice", "assumed"})
          [] OTHER -> Makes(FALSE, "t", {})]

MCForgeries ==
    [statement |-> {"stmt", "easy"}, source |-> {"stmt", "easy"}, slot |-> {"good", Link},
     candidate |-> {Rendered("stmt", "good"), Rendered("stmt", "wrong"), Rendered("easy", "good"), Link},
     sealed |-> {Rendered("stmt", "good"), Rendered("easy", "good")}]

MCImageOf == w1 :> "i1" @@ w2 :> "i2"

\* A plan and the observations it has left.
Plans ==
    { [name |-> "files", left |-> 1], [name |-> "faults", left |-> 2],
      [name |-> "store", left |-> 2], [name |-> "image", left |-> 1],
      [name |-> "caller", left |-> 1] }

MCInit == VInit /\ plan \in Plans

Kept == {MCBundle, MCRegistered.p, MCRegistered.q}

Begins == \E w \in Workers : run[w] = Idle /\ run'[w] # Idle

\* Leases are lost only under "faults", files change only under "files", the
\* other user acts only under "store", and a proof is attested with another
\* digest than its own only under "caller".  What others damage is the evidence
\* under "store", the bundle or a registered proof under "caller", where one
\* piece of evidence is stored.  One verdict ends a behaviour.
MCNext ==
    /\ verdicts = {}
    /\ VNext
    /\ IF Begins THEN plan.left > 0 /\ plan' = [plan EXCEPT !.left = @ - 1] ELSE UNCHANGED plan
    /\ LET other == IF plan.name = "image" THEN w1 ELSE w2 IN
           run'[other] = run[other] /\ claim'[other] = claim[other] /\ files'[other] = files[other]
    /\ plan.name = "files" \/ UNCHANGED tampers
    /\ plan.name = "faults" \/ fence' = fence \/ (claim' # claim /\ fence = 1)
    /\ damaged' # damaged =>
           CASE plan.name = "store" -> damaged' \cap Kept = {}
             [] plan.name = "caller" -> damaged' \subseteq Kept
             [] OTHER -> FALSE
    /\ plan.name = "store" \/ puts'[c1] = puts[c1]
    /\ plan.name = "caller" => Cardinality(DOMAIN blobs' \ Kept) <= 1
    /\ plan.name # "caller" =>
           \A w \in Workers :
               /\ run'[w] # Idle => run'[w].independent /\ run'[w].submission.deps = {}
               /\ signing'[w] # None => signing'[w].artifact.digest = signing'[w].submission
    /\ plan.name = "store" =>
           /\ \A w \in Workers :
                  run'[w] # Idle => run'[w].submission = MCRegistered.p /\ run'[w].result \in {None, "ok"}
           /\ Cardinality(incoming') <= 3

MCSpec == MCInit /\ [][MCNext]_<<verificationVars, plan>>
=============================================================================
