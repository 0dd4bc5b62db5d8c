---------------------------- MODULE MCRegistry ------------------------------
(* Three questions to the registry without expiry: a behaviour delivers     *)
(* competing registrations, competing reviews, or proofs and verdicts.     *)
EXTENDS TaskGraph, MCControlPlane

VARIABLE plan  \* the commands this behaviour delivers

\* Graphs over the same few names, with an edge for each <<source, target, kind>>.
Graph(size, edges) ==
    [nodes |-> {[id |-> n, kind |-> "lemma"] : n \in 1 .. size},
     edges |-> {[id |-> e, source |-> e[1], target |-> e[2], kind |-> e[3]] : e \in edges}]
Graphs(mathematical) ==
    [mathematical |-> mathematical, formal |-> Graph(2, {<<2, 1, "imports">>}),
     execution |-> Graph(1, {}), alignments |-> {[id |-> 1, mathematical |-> 1, formal |-> 2]}]
\* Two nodes equivalent to each other and resting on a third; a chain with a
\* double edge; a diamond, over the limit; a node alone; circular prerequisites.
Documents ==
    ("h1" :> Graphs(Graph(3, {<<3, 1, "uses">>, <<1, 2, "equivalent_to">>, <<2, 1, "equivalent_to">>})))
    @@ ("h2" :> Graphs(Graph(3, {<<1, 2, "uses">>, <<1, 2, "motivates">>, <<2, 3, "defines">>})))
    @@ ("h3" :> Graphs(Graph(4, {<<1, 2, "uses">>, <<1, 3, "uses">>, <<2, 4, "uses">>, <<3, 4, "uses">>})))
    @@ ("h4" :> Graphs(Graph(1, {})))
    @@ ("h5" :> Graphs(Graph(2, {<<1, 2, "uses">>, <<2, 1, "uses">>})))

Plans == {RegistrationRequests, ReviewRequests, VerdictRequests}
BothRequests == UNION Plans

MCInit == Init /\ plan \in Plans
MCNext ==
    /\ GNext
    /\ UNCHANGED plan
    /\ \A c \in Callers : calls'[c] # Idle => calls'[c].req \in plan
    /\ plan # RegistrationRequests => lease_counters'[b2] = 0
    /\ replies' = replies \/ \A reply \in replies' : reply.req \in plan
MCSpec == MCInit /\ [][MCNext]_<<vars, plan>>
=============================================================================
